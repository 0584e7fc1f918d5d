----------------------------- MODULE MCRegistry -----------------------------
(* SourceRegistry for TLC.  The Shodan stream is registered under a name   *)
(* that its events do not carry; those of the other sources here do.       *)
EXTENDS SourceRegistryProperties

CONSTANTS shodan_stream, shodan

MCLabel == [s \in Source |-> IF s = shodan_stream THEN shodan ELSE s]
=============================================================================
