------------------------------- MODULE MCBiDi -------------------------------
(* Instances of BiDi: enabling it under a page that is open, pages and realms *)
(* that come and go, calls of several commands, and values by value.          *)
EXTENDS BiDi

CONSTANTS c1, c2

Scenario(enabled, tasks, commands, happens) ==
    [open |-> {c1}, enabled |-> enabled, tasks |-> tasks, commands |-> commands, happens |-> happens]

OfTheStart   == Scenario(FALSE, {1}, {"enable"}, {"realms", "workers", "closes", "failures"})
OfPages      == Scenario(TRUE, Tasks, {"newPage", "close", "navigate"}, {"closes", "workers", "end"})
OfProperties == Scenario(TRUE, {1}, {"properties"}, {"realms", "changes", "failures"})
OfCookies    == Scenario(TRUE, Tasks, {"cookies", "enable"}, {"failures"})
OfValues     == Scenario(TRUE, {1}, {"call"}, {})

AllScenarios == {OfTheStart, OfPages, OfProperties, OfCookies, OfValues}
=============================================================================
