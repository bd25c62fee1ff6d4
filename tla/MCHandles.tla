------------------------------ MODULE MCHandles ------------------------------
(* Instances of Handles: clients that run programs in turn or at once, and   *)
(* what their pages and the browser do meanwhile.                            *)
EXTENDS Handles

CONSTANTS p1, p2

Scenario(n1, first, n2, second, happens) ==
    [programs |-> [p \in Pages |-> IF p = p1 THEN first ELSE second],
     runs     |-> [p \in Pages |-> IF p = p1 THEN n1 ELSE n2],
     happens  |-> happens]
InTurn(progs) == 1 :> progs
Alone(n, progs, happens) == Scenario(n, progs, 0, <<>>, happens)

OfSelectors == Alone(5, InTurn({"element", "elements", "eval", "evalAll", "function", "click"}),
                     {"failures"})
OfNodes     == Scenario(2, (1 :> {"click"}) @@ (2 :> {"use", "named"}),
                        1, InTurn({"named", "given", "dropped", "adopted", "spread", "filled"}), {})
OfUses      == Alone(2, InTurn({"keep", "use", "upload", "find", "findAll"}), {"failures"})
OfDialogs   == Alone(3, (1 :> {"alert", "function"}) @@ (2 :> {"dialog"}), {"dialogs"})
OfTheEnd    == Alone(2, InTurn({"click", "evalAll", "dialog", "print"}), {"ends", "dialogs"})
OfStreams   == Scenario(1, InTurn({"print", "click"}), 1, InTurn({"stream", "given", "adopted"}), {"ends"})

AllScenarios == {OfSelectors, OfNodes, OfUses, OfDialogs, OfTheEnd, OfStreams}

=============================================================================
