----------------------------- MODULE MCMembers -----------------------------
(* SituationMembers for TLC: an event, its enriched copy and two quiet     *)
(* events that belong together.                                            *)
EXTENDS SituationMembers, TLC

MCRef == <<"x", "x", "y", "z">>
MCTerms == << {"a", "t"}, {"a", "b", "t", "g"}, {"b", "u"}, {"b", "u"} >>
MCDerived == [e \in 1..4 |-> {"u"}]
MCAlphabet == [t \in {"a", "b", "t", "u", "g"} |-> CASE t = "a" -> 1 [] t = "b" -> 2 [] t = "g" -> 3 [] t = "t" -> 4 [] t = "u" -> 5]
=============================================================================
