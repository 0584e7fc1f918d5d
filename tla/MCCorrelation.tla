--------------------------- MODULE MCCorrelation ---------------------------
(* Correlation and Alerts for TLC: for each group of rules the events they *)
(* go by, and two alert rules.                                             *)
EXTENDS Alerts, TLC

CONSTANTS p1, p2, p3, c1, r1, d1, d2, h1, h2, g1, g2, a1, a2

Blank == [kind |-> "news", place |-> None, country |-> None, region |-> None,
          domain |-> None, names |-> {}, fit |-> TRUE, hex |-> None, cell |-> None, severe |-> FALSE, alerts |-> {}]
At(k, p) == [Blank EXCEPT !.kind = k, !.place = p]
In(k, c) == [Blank EXCEPT !.kind = k, !.country = c]
Over(k, p, r) == [Blank EXCEPT !.kind = k, !.place = p, !.region = r]
Aircraft(h, g) == [Blank EXCEPT !.kind = "flight", !.place = p1, !.hex = h, !.cell = g]
For(k, d) == [Blank EXCEPT !.kind = k, !.domain = d]

Of(most, events) == [events |-> events, most |-> most, rules |-> {}]
With(rules, t) == [t EXCEPT !.rules = rules]
Story(as) == [Blank EXCEPT !.alerts = as]

MCTraffic ==
    << With({a1}, Of(2, {Story({a1})})),
      With({a2}, Of(3, {[Story({a2}) EXCEPT !.kind = "conflict", !.severe = TRUE]})),
      Of(3, {Aircraft(h1, g1), Aircraft(h2, g1), Aircraft(h1, g2)}),
      Of(3, {In("banner", c1), In("bgp", c1), In("outage", c1)}),
      Of(3, {In("outage", c1), In("bgp", c1), In("censorship", c1)}),
      Of(3, {At("conflict", p2), At("thermal", p1)}),
      Of(3, {At("vessel", p2), At("fishing", p1), At("fishing", p3)}),
      Of(3, {Over("flight", p1, r1), Over("notam", None, r1), Over("seismic", p2, r1)}),
      Of(3, {Over("gps", p1, r1), Over("flight", p1, r1), Over("notam", None, r1)}),
      Of(3, {For("cert", d1), For("cert", d2), [For("intel", d2) EXCEPT !.names = {d1}]}),
      Of(3, {At("social", p1), [At("social", p2) EXCEPT !.fit = FALSE], At("news", p2)}) >>

Line == <<p1, p2, p3>>
MCCooldown == (a1 :> 2) @@ (a2 :> 0)
MCPerHour == (a1 :> 2) @@ (a2 :> 0)
MCNear == {<<Line[m], Line[n]>> : m, n \in 1..3} \ {<<p1, p3>>, <<p3, p1>>}
MCCover == {<<p, p>> : p \in {p1, p2, p3}} \cup {<<p1, p2>>, <<p2, p1>>}
=============================================================================
