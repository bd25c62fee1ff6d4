------------------------------- MODULE MCProxy -------------------------------
(* Instances of Proxy: the program's start and end, clients that come and go *)
(* while the server closes, and a recording that is replayed.                *)
EXTENDS Proxy

CONSTANTS c1, c2

OfTheProgram == [clients |-> {}, happens |-> {"failures", "signal", "exit"}]
OfClosing    == [clients |-> {c1, c2}, happens |-> {"close"}]
OfRecording  == [clients |-> {c1}, happens |-> {"record", "signal"}]

AllScenarios == {OfTheProgram, OfClosing, OfRecording}
=============================================================================
