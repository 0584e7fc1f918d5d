----------------------------- MODULE MCSources -----------------------------
(* Sources for TLC: every adapter, with as many items as tell its cases    *)
(* apart; those with the same way of polling and of naming events are one. *)
EXTENDS SourcesProperties

MCCases ==
    {<<Usgs, 2, UsgsRow>>, <<Gdacs, 2, GdacsRow>>, <<Copernicus, 2, CopernicusRow>>,
     <<UkmtoWarnings, 2, UkmtoWarningRow>>, <<Notam, 2, NotamRow>>,
     <<Nuclear, 2, NuclearRow>>, <<Firms, 3, FirmsRow>>, <<Gdelt, 2, GdeltRow>>,
     <<Ukmto, 2, UkmtoRow>>, <<GeoConfirmed, 2, GeoConfirmedRow>>,
     <<Acled, 2, AcledRow>>, <<ShodanSearch, 2, ShodanRow>>,
     <<ShodanDiscovery, 2, ShodanRow>>, <<Ioda, 2, IodaRow>>, <<Ooni, 2, OoniRow>>,
     <<GdeltGeo, 2, GdeltGeoRow>>, <<OpenSky, 2, OpenSkyRow>>,
     <<Cloudflare, 2, CloudflareRow>>, <<CloudflareBgp, 2, CloudflareBgpRow>>,
     <<GpsJam, 2, GpsJamRow>>, <<Otx, 2, OtxRow>>, <<Adsb, 2, AdsbRow>>,
     <<Gfw, 2, GfwRow>>, <<ImbPiracy, 3, ImbRow>>, <<RssNews, 3, RssRow>>}

MCStreaming ==
    {<<Streams!Ais, AisPositionRow>>, <<Streams!Ais, AisStaticRow>>,
     <<Streams!CertStream, CertStreamRow>>, <<Streams!Shodan, ShodanRow>>,
     <<Streams!Bgp, BgpRow>>, <<Streams!Bluesky, BlueskyRow>>,
     <<Streams!Telegram, TelegramRow>>}

MCUndated == {2}
MCUnlucky == {1}
=============================================================================
