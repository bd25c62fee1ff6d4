------------------------------- MODULE MCFetch -------------------------------
(* Instances of Fetch: two pages, one of which makes requests.              *)
EXTENDS Fetch

CONSTANTS c1, c2, s1, s2, default, all, none

OneClient  == [s \in Sessions |-> c1]
TwoClients == [s \in Sessions |-> IF s = s1 THEN c1 ELSE c2]
Together   == [s \in Sessions |-> default]
FromFirst  == [r \in Requests |-> s1]
Selecting  == [ps \in PatternSets |-> IF ps = all THEN Requests ELSE {}]
==============================================================================
