-------------------------------- MODULE Proxy --------------------------------
(***************************************************************************)
(* The life of the proxy: the program's start and end                      *)
(* (cmd/foxbridge/main.go), the browser's process                          *)
(* (pkg/firefox/process.go), the connections of the CDP server             *)
(* (pkg/cdp/server.go), and what is recorded of one and replayed later     *)
(* (pkg/recording).                                                        *)
(*                                                                         *)
(* Goroutines: main, the one that waits for the browser's end, a handler   *)
(* for each connection, the read loop that sends events, and, in a program *)
(* that embeds the server, the one that closes it.  A frame is a command,  *)
(* the response to it, or an event.                                        *)
(***************************************************************************)
EXTENDS Naturals, FiniteSets, Sequences, TLC

CONSTANTS
    Clients,        \* and their connections
    NoClient,
    Scenarios,      \* clients that connect and what happens: a behaviour is of one of them
    MaxCommands,    \* bound: commands of a client
    MaxEvents       \* bound: events sent to all clients

ASSUME ProxyAssumption ==
    /\ IsFiniteSet(Clients) /\ NoClient \notin Clients
    /\ MaxCommands \in Nat /\ MaxEvents \in Nat
    /\ \A sc \in Scenarios :
          /\ sc.clients \subseteq Clients
          /\ sc.happens \subseteq {"failures", "signal", "exit", "close", "record"}

VARIABLES
    scenario,
    \* the program and the browser's process
    main,           \* where main is
    waiter,         \* the goroutine of proc.Wait
    exited,         \* "no", "main" (its deferred calls done) or "fatal" (not done)
    browser,        \* "none", "up", "killed" or "gone"
    waited,         \* Process.waited
    \* the server
    serving,        \* "no", "starting", "yes" or "closed"
    conns,          \* Server.conns
    snapshot,       \* connections the closer has still to close
    closer,
    handler,        \* the handler of each connection
    once,           \* closeOnce: "open", "closing" or "closed"
    hooks,          \* times the close hook ran
    open,           \* is the WebSocket open?
    writer,         \* who holds the connection's writeMu: "none", "handler" or "events"
    emitting,       \* read loop: connections it has still to send its event to, and one it writes
    events,         \* events sent
    \* the clients
    sent, got,      \* commands sent, responses received
    \* the recording
    recording,      \* is the file open?
    file,           \* its entries
    replay          \* the replay: position, commands sent, responses received, how it goes

program == <<main, waiter, exited, browser, waited>>
server  == <<serving, conns, snapshot, closer, handler, once, hooks, open, writer, emitting, events>>
vars    == <<scenario, program, server, sent, got, recording, file, replay>>

In(n)   == [direction |-> "in", kind |-> "command", n |-> n]
Out(n)  == [direction |-> "out", kind |-> "response", n |-> n]
EventFrame == [direction |-> "out", kind |-> "event", n |-> 0]

TypeOK ==
    /\ exited \in {"no", "main", "fatal"} /\ browser \in {"none", "up", "killed", "gone"}
    /\ waited => browser = "gone"
    /\ conns \subseteq Clients /\ snapshot \subseteq Clients
    /\ \A c \in Clients :
          /\ got[c] <= sent[c] /\ sent[c] <= MaxCommands
          /\ c \in conns => handler[c] \notin {"none", "upgraded", "left", "done"}
          /\ once[c] = "closed" => hooks[c] > 0 /\ ~open[c]
          /\ writer[c] = "events" => emitting.writing = c
    /\ \A i \in DOMAIN file : file[i] \in {In(n) : n \in 1 .. MaxCommands}
                                    \cup {Out(n) : n \in 1 .. MaxCommands} \cup {EventFrame}
    /\ replay.pos \in 1 .. Len(file) + 1

Init ==
    /\ scenario \in Scenarios
    /\ main = "launch" /\ waiter = "none" /\ exited = "no" /\ browser = "none" /\ waited = FALSE
    /\ serving = "no" /\ conns = {} /\ snapshot = {} /\ closer = "none"
    /\ handler = [c \in Clients |-> "none"]
    /\ once = [c \in Clients |-> "open"] /\ hooks = [c \in Clients |-> 0]
    /\ open = [c \in Clients |-> FALSE] /\ writer = [c \in Clients |-> "none"]
    /\ emitting = [to |-> {}, writing |-> NoClient] /\ events = 0
    /\ sent = [c \in Clients |-> 0] /\ got = [c \in Clients |-> 0]
    /\ recording = FALSE /\ file = <<>>
    /\ replay = [pos |-> 1, sent |-> 0, got |-> 0, state |-> "none"]

Running  == exited = "no"
Happens(what) == what \in scenario.happens

------------------------------------------------------------------------------
(* main and the browser's process.                                          *)

\* log.Fatalf: the program ends without its deferred calls.
Fatal == exited' = "fatal" /\ UNCHANGED main

Launch ==
    /\ main = "launch"
    /\ \/ /\ browser' = "up" /\ main' = "enable"
          /\ recording' = Happens("record") /\ UNCHANGED exited
       \/ Happens("failures") /\ Fatal /\ UNCHANGED <<browser, recording>>
    /\ UNCHANGED <<waiter, waited, serving>>

\* Browser.enable comes before the server listens and after the events are subscribed to.
Enable ==
    /\ main = "enable"
    /\ \/ browser = "up" /\ main' = "serve" /\ UNCHANGED exited
       \/ (Happens("failures") \/ browser # "up") /\ Fatal
    /\ UNCHANGED <<waiter, browser, waited, serving, recording>>

Serve ==
    /\ main = "serve" /\ main' = "wait" /\ waiter' = "waiting"
    /\ serving' = "starting"
    /\ UNCHANGED <<exited, browser, waited, recording>>

\* The goroutine of Server.Start.
Listen ==
    /\ serving = "starting"
    /\ \/ serving' = "yes" /\ UNCHANGED exited
       \/ Happens("failures") /\ exited' = "fatal" /\ UNCHANGED serving
    /\ UNCHANGED <<main, waiter, browser, waited, recording>>

\* A signal, or the browser's end; then the deferred calls, last one first: the recording
\* is closed, and the process is stopped.
Shuts ==
    /\ main = "wait" /\ (Happens("signal") \/ waiter = "done")
    /\ main' = "stop" /\ recording' = FALSE
    /\ UNCHANGED <<waiter, exited, browser, waited, serving>>

\* Process.Stop holds the process's mutex: it asks the browser to close and waits two
\* seconds for an answer, closes the client, and waits for the process to end.
Stop ==
    /\ main = "stop"
    /\ main' = IF waited THEN "exit" ELSE "reap"
    /\ UNCHANGED <<waiter, exited, browser, waited, serving, recording>>

Reap ==
    /\ main = "reap" /\ browser = "gone"
    /\ waited' = TRUE /\ main' = "exit"
    /\ UNCHANGED <<waiter, exited, browser, serving, recording>>

\* After five seconds it is killed.
\* Mutants: it is not; nobody waits until it has ended.
KillNothing ==
    /\ main = "reap" /\ browser = "up" /\ browser' = "up"
    /\ UNCHANGED <<main, waiter, exited, waited, serving, recording>>
KillAndGo ==
    /\ main = "reap" /\ browser = "up" /\ browser' = "killed" /\ main' = "exit"
    /\ UNCHANGED <<waiter, exited, waited, serving, recording>>
Kill ==
    /\ main = "reap" /\ browser = "up" /\ browser' = "killed"
    /\ UNCHANGED <<main, waiter, exited, waited, serving, recording>>

Exit ==
    /\ main = "exit" /\ exited' = "main"
    /\ UNCHANGED <<main, waiter, browser, waited, serving, recording>>

\* Process.Wait, outside the mutex until the process has ended.
WaitReturns ==
    /\ waiter = "waiting" /\ browser = "gone" /\ main # "reap"
    /\ waited' = TRUE /\ waiter' = "done"
    /\ UNCHANGED <<main, exited, browser, serving, recording>>

\* The browser ends by itself, when it is asked to, or when it is killed.
BrowserEnds ==
    /\ \/ browser = "killed"
       \/ browser = "up" /\ (Happens("exit") \/ main = "reap")
    /\ browser' = "gone"
    /\ UNCHANGED <<main, waiter, exited, waited, serving, recording>>

MainStep == Launch \/ Enable \/ Serve \/ Listen \/ Shuts \/ Stop \/ Reap \/ Kill \/ Exit

ProgramStep ==
    /\ \/ Running /\ (MainStep \/ WaitReturns)
       \/ BrowserEnds
    /\ UNCHANGED <<scenario, conns, snapshot, closer, handler, once, hooks, open, writer, emitting,
                   events, sent, got, file, replay>>

------------------------------------------------------------------------------
(* Connections.                                                             *)

Handles(c, l) == handler' = [handler EXCEPT ![c] = l]

\* A client connects: its WebSocket is there before the server knows the connection.
Upgrade(c) ==
    /\ handler[c] = "none" /\ serving = "yes" /\ c \in scenario.clients
    /\ Handles(c, "upgraded") /\ open' = [open EXCEPT ![c] = TRUE]
    /\ UNCHANGED <<conns, once, hooks, writer, sent, got, file>>

Register(c) ==
    /\ handler[c] = "upgraded" /\ Handles(c, "reading")
    /\ conns' = conns \cup {c}
    /\ UNCHANGED <<once, hooks, open, writer, sent, got, file>>

\* A client sends a command when it has the response to the one before.
ReadCommand(c) ==
    /\ handler[c] = "reading" /\ open[c] /\ sent[c] = got[c] /\ sent[c] < MaxCommands
    /\ sent' = [sent EXCEPT ![c] = @ + 1]
    /\ Handles(c, "record")
    /\ UNCHANGED <<conns, once, hooks, open, writer, got, file>>

\* Recorder.Record.
AppendEntry(e) == IF recording THEN Append(file, e) ELSE file

RecordCommand(c) ==
    /\ handler[c] = "record" /\ Handles(c, "handle")
    /\ file' = AppendEntry(In(sent[c]))
    /\ UNCHANGED <<conns, once, hooks, open, writer, sent, got>>

\* The bridge has handled the command: Connection.Send writes the response, and records it
\* if it was written, both under the connection's writeMu.
WriteResponse(c) ==
    /\ handler[c] = "handle" /\ writer[c] = "none"
    /\ IF open[c]
         THEN /\ got' = [got EXCEPT ![c] = @ + 1]
              /\ writer' = [writer EXCEPT ![c] = "handler"] /\ Handles(c, "written")
         ELSE Handles(c, "reading") /\ UNCHANGED <<got, writer>>
    /\ UNCHANGED <<conns, once, hooks, open, sent, file>>

RecordResponse(c) ==
    /\ handler[c] = "written" /\ Handles(c, "reading")
    /\ file' = AppendEntry(Out(sent[c]))
    /\ writer' = [writer EXCEPT ![c] = "none"]
    /\ UNCHANGED <<conns, once, hooks, open, sent, got>>

\* The client leaves, or its WebSocket was closed: the handler leaves the server's set...
Disconnect(c) ==
    /\ open[c] /\ open' = [open EXCEPT ![c] = FALSE]
    /\ UNCHANGED <<conns, handler, once, hooks, writer, sent, got, file>>

\* Mutant: ... or stays in it.
LeaveKept(c) ==
    /\ handler[c] = "reading" /\ ~open[c] /\ Handles(c, "left")
    /\ UNCHANGED <<conns, once, hooks, open, writer, sent, got, file>>
Leave(c) ==
    /\ handler[c] = "reading" /\ ~open[c] /\ Handles(c, "left")
    /\ conns' = conns \ {c}
    /\ UNCHANGED <<once, hooks, open, writer, sent, got, file>>

\* ... and closes the connection: the first to do so runs the hook, others wait for it.
\* Mutant: whoever closes it, runs the hook.
CloseTwice(c) ==
    /\ once[c] # "closing"
    /\ once' = [once EXCEPT ![c] = "closing"] /\ open' = [open EXCEPT ![c] = FALSE]
    /\ hooks' = [hooks EXCEPT ![c] = @ + 1]
CloseOnce(c) ==
    /\ once[c] # "closing"
    /\ IF once[c] = "closed" THEN UNCHANGED <<once, open, hooks>>
       ELSE /\ once' = [once EXCEPT ![c] = "closing"] /\ open' = [open EXCEPT ![c] = FALSE]
            /\ hooks' = [hooks EXCEPT ![c] = @ + 1]

CloseLeft(c) ==
    /\ handler[c] = "left" /\ CloseOnce(c)
    /\ Handles(c, "done")
    /\ UNCHANGED <<conns, writer, sent, got, file>>

\* The hook, which may take as long as the browser's calls do, returns.
HookReturns(c) ==
    /\ once[c] = "closing" /\ once' = [once EXCEPT ![c] = "closed"]
    /\ UNCHANGED <<conns, handler, hooks, open, writer, sent, got, file>>

ConnectionStep(c) ==
    /\ Running
    /\ \/ Upgrade(c) \/ Register(c) \/ ReadCommand(c) \/ RecordCommand(c) \/ WriteResponse(c)
       \/ RecordResponse(c) \/ Disconnect(c) \/ Leave(c) \/ CloseLeft(c) \/ HookReturns(c)
    /\ UNCHANGED <<scenario, program, serving, snapshot, closer, emitting, events, recording, replay>>

------------------------------------------------------------------------------
(* Broadcast, and the end of the server.                                    *)

Emit ==
    /\ serving # "no" /\ emitting = [to |-> {}, writing |-> NoClient] /\ events < MaxEvents
    /\ conns # {} /\ emitting' = [emitting EXCEPT !.to = conns] /\ events' = events + 1
    /\ UNCHANGED <<writer, file>>

WriteEvent(c) ==
    /\ emitting.writing = NoClient /\ c \in emitting.to /\ writer[c] = "none"
    /\ emitting' = [to |-> emitting.to \ {c}, writing |-> IF open[c] THEN c ELSE NoClient]
    /\ writer' = IF open[c] THEN [writer EXCEPT ![c] = "events"] ELSE writer
    /\ UNCHANGED <<events, file>>

RecordEvent ==
    /\ emitting.writing # NoClient
    /\ file' = AppendEntry(EventFrame)
    /\ writer' = [writer EXCEPT ![emitting.writing] = "none"]
    /\ emitting' = [emitting EXCEPT !.writing = NoClient]
    /\ UNCHANGED events

BroadcastStep ==
    /\ Running /\ (Emit \/ RecordEvent \/ \E c \in Clients : WriteEvent(c))
    /\ UNCHANGED <<scenario, program, serving, conns, snapshot, closer, handler, once, hooks, open,
                   sent, got, recording, replay>>

\* Close and Shutdown: the listener and what is not upgraded, then the connections known.
CloseServer ==
    /\ closer = "none" /\ Happens("close") /\ serving = "yes" /\ main = "wait"
    /\ serving' = "closed" /\ closer' = "connections"
    /\ UNCHANGED <<conns, snapshot, once, hooks, open>>

CloseConnections ==
    /\ closer = "connections" /\ closer' = "closing"
    /\ snapshot' = conns /\ conns' = {}
    /\ UNCHANGED <<serving, once, hooks, open>>

CloseNext(c) ==
    /\ closer = "closing" /\ c \in snapshot /\ CloseOnce(c)
    /\ snapshot' = snapshot \ {c}
    /\ UNCHANGED <<serving, conns, closer>>

Closed ==
    /\ closer = "closing" /\ snapshot = {} /\ closer' = "done"
    /\ UNCHANGED <<serving, conns, snapshot, once, hooks, open>>

CloserStep ==
    /\ Running /\ (CloseServer \/ CloseConnections \/ Closed \/ \E c \in Clients : CloseNext(c))
    /\ UNCHANGED <<scenario, program, handler, writer, emitting, events, sent, got, recording, file,
                   replay>>

------------------------------------------------------------------------------
(* The replay of what was recorded, to the same client: one that sends a     *)
(* command when it has the response to the one before.                      *)

StartReplay ==
    /\ replay.state = "none" /\ ~Running /\ file # <<>> /\ Cardinality(scenario.clients) = 1
    /\ replay' = [replay EXCEPT !.state = "on"]

\* flushOutboundUntilInput, one frame.
Flush ==
    /\ replay.state = "on" /\ replay.pos <= Len(file) /\ file[replay.pos].direction = "out"
    /\ replay' = [replay EXCEPT !.pos = @ + 1,
                                !.got = @ + (IF file[replay.pos].kind = "response" THEN 1 ELSE 0)]

\* A command is compared with the one recorded there; another one ends the connection.
\* Mutant: the position stays.
AcceptStays ==
    /\ replay.state = "on" /\ replay.sent = replay.got
    /\ \E i \in DOMAIN file : file[i] = In(replay.sent + 1)
    /\ replay.pos <= Len(file) => file[replay.pos].direction = "in"
    /\ IF replay.pos <= Len(file) /\ file[replay.pos] = In(replay.sent + 1)
         THEN replay' = [replay EXCEPT !.sent = @ + 1]
         ELSE replay' = [replay EXCEPT !.state = "refused"]
AcceptInbound ==
    /\ replay.state = "on" /\ replay.sent = replay.got
    /\ \E i \in DOMAIN file : file[i] = In(replay.sent + 1)
    /\ replay.pos <= Len(file) => file[replay.pos].direction = "in"
    /\ IF replay.pos <= Len(file) /\ file[replay.pos] = In(replay.sent + 1)
         THEN replay' = [replay EXCEPT !.pos = @ + 1, !.sent = @ + 1]
         ELSE replay' = [replay EXCEPT !.state = "refused"]

ReplayStep ==
    /\ StartReplay \/ Flush \/ AcceptInbound
    /\ UNCHANGED <<scenario, program, server, sent, got, recording, file>>

Next ==
    \/ ProgramStep \/ BroadcastStep \/ CloserStep \/ ReplayStep
    \/ \E c \in Clients : ConnectionStep(c)

Spec == Init /\ [][Next]_vars

\* Goroutines run, five seconds pass, and a process that was killed ends; signals, clients
\* and a browser that was only asked to close need not do anything.
FairSpec ==
    /\ Spec
    /\ WF_vars(Running /\ MainStep /\ ProgramStep)
    /\ WF_vars(browser = "killed" /\ ProgramStep)
    /\ WF_vars(WaitReturns /\ ProgramStep)
    /\ WF_vars(CloserStep /\ closer # "none") /\ WF_vars(ReplayStep)
    /\ \A c \in Clients :
          /\ WF_vars((Register(c) \/ RecordCommand(c) \/ WriteResponse(c) \/ RecordResponse(c)
                      \/ Leave(c) \/ CloseLeft(c)) /\ ConnectionStep(c))
          /\ WF_vars(HookReturns(c) /\ ConnectionStep(c))
    /\ WF_vars(BroadcastStep /\ emitting' # emitting /\ events' = events)

------------------------------------------------------------------------------
(* Properties.                                                              *)

\* A connection's close hook, which ends its pages, runs once however the connection ends:
\* its client leaves, the server closes, or both at the same time (closeOnce); and what
\* the server still knows has not been closed by it.
HookOnce ==
    \A c \in Clients : hooks[c] <= 1 /\ (handler[c] = "done" => once[c] # "open" /\ c \notin conns)

\* A program that ends with its deferred calls leaves no browser behind, whoever waited for
\* the process at the same time (Process.Stop, Process.Wait).
BrowserStopped == exited = "main" => browser = "gone"

\* Once the program shuts down it ends, also if the browser does not close when asked.
ProgramEnds == main = "stop" ~> ~Running

\* A recording of one client replays: the client that did not wait for events, but for
\* responses only, gets every response it had, and no command of it is refused.
ReplayServes ==
    /\ replay.state # "refused"
    /\ replay.state = "on" /\ replay.pos <= Len(file) /\ file[replay.pos].direction = "in"
         => replay.sent = replay.got
==============================================================================
