----------------------------- MODULE MCContexts -----------------------------
(* Instances of Contexts: what one page and its client do, in turns, and a   *)
(* second page whose client evaluates meanwhile.                             *)
EXTENDS Contexts

CONSTANTS p1, p2

Scenario(first, second, names, happens) ==
    [pages     |-> IF second = {} THEN {p1} ELSE {p1, p2},
     commands  |-> [p \in Pages |-> IF p = p1 THEN first ELSE second],
     uniqueIds |-> names,
     happens   |-> happens]

First(p) == {<<p, FirstMain, 1>>}

OfFrames   == Scenario({"navigate", "fragment"}, {}, {}, {"navigate", "frames"})
OfCommands == Scenario({"navigate", "frameTree", "reload", "setContent", "metrics"}, {}, {}, {"navigate"})
OfWorlds   == Scenario({"isolatedWorld"}, {}, {}, {"navigate", "frames"})
OfEvals    == Scenario({"evaluate"}, {}, First(p1), {"navigate", "frames"})
OfNumbers  == Scenario({"navigate", "callWithObjects", "enable"}, {}, First(p1), {})
OfTheEnd   == Scenario({"navigate", "call", "close"}, {}, First(p1), {"close", "disconnect"})
OfTwo      == Scenario({"isolatedWorld"}, {"evaluate"}, First(p1) \cup First(p2), {})

AllScenarios == {OfFrames, OfCommands, OfWorlds, OfEvals, OfNumbers, OfTheEnd, OfTwo}
FramesOnly   == {OfFrames}
=============================================================================
