---------------------------- MODULE MCOwnership ----------------------------
(* Instances of Ownership for TLC.                                         *)
EXTENDS Ownership, TLC

CONSTANTS c1, c2, t1, t2

\* Every page is made by a client's createTarget.
MadeByClients == [t \in Targets |-> NoTarget]

\* t2 is opened by t1.
PopupOfT1 == (t1 :> NoTarget) @@ (t2 :> t1)

Symmetric == Permutations(Conns) \cup Permutations(Targets)
=============================================================================
