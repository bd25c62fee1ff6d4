----------------------------- MODULE ProxyProofs -----------------------------
(***************************************************************************)
(* Theorems about the proxy's life, for any clients, scenarios and bounds: *)
(*   ProcessReaped  a program that ends in order leaves no browser behind   *)
(*   HooksOnce      a connection's close hook runs at most once             *)
(*   TypeCorrect    the state is well formed                                *)
(*   WritersTakeTurns  one goroutine at a time writes to a connection       *)
(*   RecordReplays  what was recorded of one client replays to it           *)
(***************************************************************************)
EXTENDS Proxy, FiniteSetTheorems, SequenceTheorems, TLAPS

------------------------------------------------------------------------------
(* The program and the browser's process.                                   *)

\* A process waited for is gone, main waits for it before it exits, and neither
\* happens before the launch.
Process ==
    /\ exited \in {"no", "main", "fatal"}
    /\ browser \in {"none", "up", "killed", "gone"}
    /\ waited => browser = "gone"
    /\ main = "exit" \/ exited = "main" => browser = "gone"
    /\ main \in {"launch", "enable", "serve"} => waiter = "none" /\ ~waited /\ exited # "main"

LEMMA ProcessInit == Init => Process
  BY DEF Init, Process

LEMMA ProcessStep == ASSUME Process, ProgramStep PROVE Process'
  <1> USE DEF Process
  <1>1. CASE Running /\ Launch
    BY <1>1 DEF Launch, Fatal, Running
  <1>2. CASE Running /\ Enable
    BY <1>2 DEF Enable, Fatal, Running
  <1>3. CASE Running /\ (Serve \/ Shuts)
    BY <1>3 DEF Serve, Shuts, Running
  <1>4. CASE Running /\ Listen
    BY <1>4 DEF Listen, Running
  <1>5. CASE Running /\ (Stop \/ Reap \/ Kill \/ Exit)
    BY <1>5 DEF Stop, Reap, Kill, Exit, Running
  <1>6. CASE Running /\ WaitReturns
    BY <1>6 DEF WaitReturns, Running
  <1>7. CASE BrowserEnds
    BY <1>7 DEF BrowserEnds
  <1> QED BY <1>1, <1>2, <1>3, <1>4, <1>5, <1>6, <1>7 DEF ProgramStep, MainStep

LEMMA ProcessNext == Process /\ [Next]_vars => Process'
  <1> SUFFICES ASSUME Process, [Next]_vars, UNCHANGED program PROVE Process'
    BY ProcessStep DEF Next, ConnectionStep, BroadcastStep, CloserStep, ReplayStep, vars, program
  <1> QED BY DEF Process, program

\* A program that ends with its deferred calls has reaped its browser: Process.Stop
\* waits for the process also after it killed it, and whoever else waits for it, in
\* Process.Wait, only marks a process that has ended.
THEOREM ProcessReaped == Spec => []BrowserStopped
  <1>1. Process => BrowserStopped
    BY DEF Process, BrowserStopped
  <1> QED BY <1>1, ProcessInit, ProcessNext, PTL DEF Spec

------------------------------------------------------------------------------
(* Connections.                                                             *)

Unknown == {"none", "upgraded"}         \* the server does not know the connection yet
Busy    == {"reading", "record", "handle", "written"}

Shaped ==
    /\ scenario \in Scenarios
    /\ conns \subseteq Clients /\ snapshot \subseteq Clients
    /\ handler \in [Clients -> Unknown \cup Busy \cup {"left", "done"}]
    /\ once \in [Clients -> {"open", "closing", "closed"}]
    /\ hooks \in [Clients -> Nat]
    /\ open \in [Clients -> BOOLEAN]
    /\ writer \in [Clients -> {"none", "handler", "events"}]
    /\ emitting \in [to : SUBSET Clients, writing : Clients \cup {NoClient}]
    /\ sent \in [Clients -> 0 .. MaxCommands] /\ got \in [Clients -> 0 .. MaxCommands]

\* A connection is closed once: its hook has run when its closeOnce is not open, and
\* nobody opens it or takes it for one of the server's afterwards.
Hooked(c) ==
    /\ c \in conns => handler[c] \in Busy
    /\ c \in snapshot => handler[c] \notin Unknown
    /\ handler[c] \in Unknown \cup {"left", "done"} => c \notin conns
    /\ handler[c] \in Unknown => once[c] = "open"
    /\ handler[c] = "done" => once[c] # "open"
    /\ once[c] = "open" => hooks[c] = 0
    /\ once[c] # "open" => hooks[c] = 1 /\ ~open[c]

\* Who writes holds the connection's writeMu.
Written(c) ==
    /\ handler[c] = "written" <=> writer[c] = "handler"
    /\ emitting.writing = c <=> writer[c] = "events"

\* A client has had the response to every command but the one in progress.
Answered(c) ==
    /\ got[c] <= sent[c]
    /\ handler[c] \in {"record", "handle"} => sent[c] = got[c] + 1
    /\ handler[c] = "written" => sent[c] = got[c] /\ sent[c] >= 1

Connected == Shaped /\ \A c \in Clients : Hooked(c) /\ Written(c) /\ Answered(c)

LEMMA ConnectedInit == Init => Connected
  BY ProxyAssumption DEF Init, Connected, Shaped, Hooked, Written, Answered, Unknown, Busy

LEMMA CountUp ==
    /\ MaxCommands \in Nat /\ 0 \in 0 .. MaxCommands
    /\ \A n \in 0 .. MaxCommands : n < MaxCommands => n + 1 \in 0 .. MaxCommands
    /\ \A n \in 0 .. MaxCommands : n \in Nat /\ n <= MaxCommands
  BY ProxyAssumption

LEMMA ClosesOnce ==
    ASSUME Connected, NEW c \in Clients, CloseOnce(c)
    PROVE  /\ once' \in [Clients -> {"open", "closing", "closed"}] /\ once'[c] # "open"
           /\ hooks' \in [Clients -> Nat] /\ open' \in [Clients -> BOOLEAN]
           /\ \A d \in Clients :
                 /\ d # c => once'[d] = once[d]
                 /\ once'[d] = "open" => hooks'[d] = 0
                 /\ once'[d] # "open" => hooks'[d] = 1 /\ ~open'[d]
  <1> USE DEF Connected, Shaped, Hooked
  <1>1. CASE once[c] = "closed"
    BY <1>1 DEF CloseOnce
  <1>2. CASE once[c] = "open"
    <2>1. hooks[c] = 0 /\ 0 + 1 = 1
      BY <1>2
    <2>2. /\ once' = [once EXCEPT ![c] = "closing"] /\ open' = [open EXCEPT ![c] = FALSE]
          /\ hooks' = [hooks EXCEPT ![c] = 1]
      BY <1>2, <2>1 DEF CloseOnce
    <2> QED BY <2>2
  <1> QED BY <1>1, <1>2 DEF CloseOnce

LEMMA ConnectionKeeps ==
    ASSUME Connected, NEW c \in Clients, ConnectionStep(c) PROVE Connected'
  <1> USE CountUp DEF Connected, Shaped, Hooked, Written, Answered, Unknown, Busy, Handles
  <1>0. UNCHANGED <<scenario, snapshot, emitting>>
    BY DEF ConnectionStep
  <1>1. CASE Upgrade(c)
    BY <1>0, <1>1 DEF Upgrade
  <1>10. CASE Register(c)
    BY <1>0, <1>10 DEF Register
  <1>2. CASE ReadCommand(c)
    BY <1>0, <1>2 DEF ReadCommand
  <1>3. CASE RecordCommand(c)
    BY <1>0, <1>3 DEF RecordCommand
  <1>4. CASE WriteResponse(c)
    BY <1>0, <1>4 DEF WriteResponse
  <1>5. CASE RecordResponse(c)
    BY <1>0, <1>5 DEF RecordResponse
  <1>6. CASE Disconnect(c)
    BY <1>0, <1>6 DEF Disconnect
  <1>7. CASE Leave(c)
    BY <1>0, <1>7 DEF Leave
  <1>8. CASE CloseLeft(c)
    BY <1>0, <1>8, ClosesOnce DEF CloseLeft
  <1>9. CASE HookReturns(c)
    BY <1>0, <1>9 DEF HookReturns
  <1> QED BY <1>1, <1>2, <1>3, <1>4, <1>5, <1>6, <1>7, <1>8, <1>9, <1>10
         DEF ConnectionStep

LEMMA BroadcastKeeps == ASSUME Connected, BroadcastStep PROVE Connected'
  <1> USE ProxyAssumption DEF Connected, Shaped, Hooked, Written, Answered, Unknown, Busy
  <1>0. UNCHANGED <<scenario, conns, snapshot, handler, once, hooks, open, sent, got>>
    BY DEF BroadcastStep
  <1>1. CASE Emit
    BY <1>0, <1>1 DEF Emit
  <1>2. ASSUME NEW c \in Clients, WriteEvent(c) PROVE Connected'
    BY <1>0, <1>2 DEF WriteEvent
  <1>3. CASE RecordEvent
    BY <1>0, <1>3 DEF RecordEvent
  <1> QED BY <1>1, <1>2, <1>3 DEF BroadcastStep

LEMMA CloserKeeps == ASSUME Connected, CloserStep PROVE Connected'
  <1> USE DEF Connected, Shaped, Hooked, Written, Answered, Unknown, Busy
  <1>0. UNCHANGED <<scenario, handler, writer, emitting, sent, got>>
    BY DEF CloserStep
  <1>1. CASE CloseServer \/ Closed
    BY <1>0, <1>1 DEF CloseServer, Closed
  <1>2. CASE CloseConnections
    BY <1>0, <1>2 DEF CloseConnections
  <1>3. ASSUME NEW c \in Clients, CloseNext(c) PROVE Connected'
    BY <1>0, <1>3, ClosesOnce DEF CloseNext
  <1> QED BY <1>1, <1>2, <1>3 DEF CloserStep

LEMMA ConnectedNext == Connected /\ [Next]_vars => Connected'
  <1> SUFFICES ASSUME Connected, [Next]_vars PROVE Connected'
    OBVIOUS
  <1>1. ASSUME UNCHANGED <<scenario, conns, snapshot, handler, once, hooks, open, writer, emitting,
                           sent, got>>
        PROVE  Connected'
    BY <1>1 DEF Connected, Shaped, Hooked, Written, Answered
  <1>2. CASE ProgramStep \/ ReplayStep \/ UNCHANGED vars
    BY <1>1, <1>2 DEF ProgramStep, ReplayStep, vars, server
  <1> QED BY <1>2, ConnectionKeeps, BroadcastKeeps, CloserKeeps DEF Next

\* A connection's close hook, which ends its pages, runs at most once, and a handler
\* that is done leaves a connection that somebody closed and that the server has
\* forgotten (closeOnce of Connection.Close against Server.Close).
THEOREM HooksOnce == Spec => []HookOnce
  <1>1. Connected => HookOnce
    BY DEF Connected, Shaped, Hooked, HookOnce
  <1> QED BY <1>1, ConnectedInit, ConnectedNext, PTL DEF Spec

\* Nobody writes to a connection while another does (writeMu): neither a response into
\* an event nor an event into a response.
WritesApart == \A c \in Clients : ~(handler[c] = "written" /\ emitting.writing = c)

THEOREM WritersTakeTurns == Spec => []WritesApart
  <1>1. Connected => WritesApart
    BY DEF Connected, Written, WritesApart
  <1> QED BY <1>1, ConnectedInit, ConnectedNext, PTL DEF Spec

------------------------------------------------------------------------------
(* What is in a recording.                                                  *)

Numbers == 1 .. MaxCommands
Frames  == {In(n) : n \in Numbers} \cup {Out(n) : n \in Numbers} \cup {EventFrame}

LEMMA FrameFacts ==
    /\ \A m, n : In(m) = In(n) => m = n
    /\ \A m, n : Out(m) = Out(n) => m = n
    /\ \A m, n : In(m) # Out(n)
    /\ \A n : /\ In(n) # EventFrame /\ Out(n) # EventFrame
              /\ In(n).direction = "in" /\ Out(n).direction = "out" /\ Out(n).kind = "response"
    /\ EventFrame.direction = "out" /\ EventFrame.kind # "response"
    /\ EventFrame \in Frames
    /\ \A n \in Numbers : In(n) \in Frames /\ Out(n) \in Frames
    /\ \A e \in Frames : e = EventFrame \/ \E n \in Numbers : e = In(n) \/ e = Out(n)
  BY DEF In, Out, EventFrame, Frames

\* Entry e is one of the first k of f.
Among(e, f, k) == \E i \in 1 .. k : f[i] = e

\* Commands and responses alternate, and their numbers count up; events come anywhere.
Alternating(f) ==
    /\ \A i, j \in 1 .. Len(f), m, n \in Numbers :
          i < j => /\ f[i] = In(m) /\ f[j] = In(n) => m < n
                   /\ f[i] = Out(m) /\ f[j] = Out(n) => m < n
    /\ \A j \in 1 .. Len(f), n \in Numbers :
          /\ f[j] = Out(n) => Among(In(n), f, j - 1)
          /\ f[j] = In(n) /\ n > 1 => Among(Out(n - 1), f, j - 1)

\* While the recorder is open, the file goes as far as its only client.
UpTo(f, c) ==
    /\ \A i \in 1 .. Len(f), n \in Numbers :
          /\ f[i] = In(n) => n <= sent[c] /\ (handler[c] = "record" => n < sent[c])
          /\ f[i] = Out(n) => n <= got[c] /\ (handler[c] = "written" => n < got[c])
    /\ handler[c] \in {"handle", "written"} => Among(In(sent[c]), f, Len(f))
    /\ handler[c] = "reading" /\ sent[c] = got[c] /\ sent[c] > 0 => Among(Out(sent[c]), f, Len(f))
    /\ handler[c] = "record" /\ sent[c] > 1 => Among(Out(sent[c] - 1), f, Len(f))

\* Nothing is recorded before the launch, and nobody connects before the server listens.
Before ==
    /\ main = "launch" => ~recording /\ file = <<>> /\ serving = "no"
    /\ serving = "no" => \A c \in Clients : handler[c] = "none"
    /\ \A c \in Clients : handler[c] \in Unknown => sent[c] = 0
    /\ \A c \in Clients : c \notin scenario.clients => handler[c] = "none"

Recorded ==
    /\ Connected /\ Before
    /\ file \in Seq(Frames)
    /\ \A c \in Clients : scenario.clients = {c} =>
          Alternating(file) /\ (recording => UpTo(file, c))

------------------------------------------------------------------------------
(* What has been replayed of it.                                            *)

Position ==
    /\ replay \in [pos : Nat, sent : Nat, got : Nat, state : {"none", "on"}]
    /\ replay.pos \in 1 .. Len(file) + 1
    /\ replay.state = "none" => replay.pos = 1 /\ replay.sent = 0 /\ replay.got = 0
    /\ replay.state = "on" => ~Running /\ \E c \in Clients : scenario.clients = {c}
    /\ replay.sent \in {replay.got, replay.got + 1}
    /\ \A i \in 1 .. Len(file), n \in Numbers :
          /\ i < replay.pos => (file[i] = In(n) => n <= replay.sent)
                               /\ (file[i] = Out(n) => n <= replay.got)
          /\ i >= replay.pos => (file[i] = In(n) => n > replay.sent)
                                /\ (file[i] = Out(n) => n > replay.got)

Replayed == Recorded /\ Position

------------------------------------------------------------------------------
(* Lemmas about recordings.                                                 *)

LEMMA Appended ==
    ASSUME NEW f \in Seq(Frames), NEW e \in Frames
    PROVE  /\ Append(f, e) \in Seq(Frames) /\ Len(Append(f, e)) = Len(f) + 1 /\ Len(f) \in Nat
           /\ \A i \in 1 .. Len(f) : Append(f, e)[i] = f[i]
           /\ Append(f, e)[Len(f) + 1] = e
  OBVIOUS

LEMMA StillAmong ==
    ASSUME NEW f \in Seq(Frames), NEW e \in Frames, NEW x, NEW k \in 0 .. Len(f), Among(x, f, k)
    PROVE  Among(x, Append(f, e), k) /\ Among(x, Append(f, e), Len(f) + 1)
  BY Appended DEF Among

\* What may be recorded next: a command whose predecessor has its response, the response
\* to a command, an event.
LEMMA AlternatingGrows ==
    ASSUME NEW f \in Seq(Frames), NEW e \in Frames, Alternating(f),
           \A n \in Numbers : e = In(n) =>
              /\ \A i \in 1 .. Len(f), m \in Numbers : f[i] = In(m) => m < n
              /\ n > 1 => Among(Out(n - 1), f, Len(f)),
           \A n \in Numbers : e = Out(n) =>
              /\ \A i \in 1 .. Len(f), m \in Numbers : f[i] = Out(m) => m < n
              /\ Among(In(n), f, Len(f))
    PROVE  Alternating(Append(f, e))
  <1> DEFINE g == Append(f, e)
  <1>a. /\ g \in Seq(Frames) /\ Len(g) = Len(f) + 1 /\ Len(f) \in Nat
        /\ \A i \in 1 .. Len(f) : g[i] = f[i]
        /\ g[Len(f) + 1] = e
    BY Appended
  <1>b. \A x, k : k \in 0 .. Len(f) /\ Among(x, f, k) => Among(x, g, k)
    BY StillAmong
  <1> HIDE DEF g
  <1>1. ASSUME NEW i \in 1 .. Len(g), NEW j \in 1 .. Len(g), NEW m \in Numbers, NEW n \in Numbers, i < j
        PROVE  /\ g[i] = In(m) /\ g[j] = In(n) => m < n
               /\ g[i] = Out(m) /\ g[j] = Out(n) => m < n
    <2>1. i \in 1 .. Len(f) /\ g[i] = f[i]
      BY <1>1, <1>a
    <2>2. CASE j \in 1 .. Len(f)
      BY <2>1, <2>2, <1>1, <1>a DEF Alternating
    <2>3. CASE j = Len(f) + 1
      BY <2>1, <2>3, <1>a
    <2> QED BY <2>2, <2>3, <1>1, <1>a
  <1>2. ASSUME NEW j \in 1 .. Len(g), NEW n \in Numbers
        PROVE  /\ g[j] = Out(n) => Among(In(n), g, j - 1)
               /\ g[j] = In(n) /\ n > 1 => Among(Out(n - 1), g, j - 1)
    <2>1. CASE j \in 1 .. Len(f)
      <3>1. g[j] = f[j] /\ j - 1 \in 0 .. Len(f)
        BY <2>1, <1>a
      <3>2. /\ f[j] = Out(n) => Among(In(n), f, j - 1)
            /\ f[j] = In(n) /\ n > 1 => Among(Out(n - 1), f, j - 1)
        BY <2>1 DEF Alternating
      <3> QED BY <3>1, <3>2, <1>b
    <2>2. CASE j = Len(f) + 1
      <3>1. g[j] = e /\ j - 1 = Len(f) /\ Len(f) \in 0 .. Len(f)
        BY <2>2, <1>a
      <3> QED BY <3>1, <1>b
    <2> QED BY <2>1, <2>2, <1>a
  <1> QED BY <1>1, <1>2 DEF Alternating, g

LEMMA FromAmong ==
    ASSUME NEW f \in Seq(Frames), NEW x \in Frames
    PROVE  Among(x, Append(f, x), Len(f) + 1)
  BY Appended DEF Among

------------------------------------------------------------------------------
(* What a step does to the recording.                                       *)

LEMMA RecordedInit == Init => Recorded
  <1>1. Init => Before /\ file = <<>>
    BY DEF Init, Before
  <1>2. file = <<>> => file \in Seq(Frames) /\ Alternating(file)
    BY DEF Alternating
  <1>3. Init => ~recording
    BY DEF Init
  <1> QED BY <1>1, <1>2, <1>3, ConnectedInit DEF Recorded

LEMMA BeforeNext == ASSUME Connected, Before, [Next]_vars PROVE Before'
  <1> USE DEF Connected, Shaped, Before, Unknown, Handles
  <1>1. CASE ProgramStep
    <2>0. UNCHANGED <<scenario, handler, sent, file>>
      BY <1>1 DEF ProgramStep
    <2>1. CASE Launch \/ Enable \/ Serve \/ Listen
      BY <2>0, <2>1 DEF Launch, Enable, Serve, Listen, Fatal
    <2>2. CASE Shuts \/ Stop \/ Reap \/ Kill \/ Exit \/ WaitReturns \/ BrowserEnds
      BY <2>0, <2>2 DEF Shuts, Stop, Reap, Kill, Exit, WaitReturns, BrowserEnds
    <2> QED BY <1>1, <2>1, <2>2 DEF ProgramStep, MainStep
  <1>2. ASSUME NEW c \in Clients, ConnectionStep(c) PROVE Before'
    <2>0. UNCHANGED <<scenario, main, serving, recording>>
      BY <1>2 DEF ConnectionStep, program
    <2>1. CASE Upgrade(c)
      BY <2>0, <2>1 DEF Upgrade
    <2>4. CASE Register(c)
      BY <2>0, <2>4 DEF Register
    <2>5. CASE ReadCommand(c)
      BY <2>0, <2>5 DEF ReadCommand
    <2>2. CASE RecordCommand(c) \/ WriteResponse(c) \/ RecordResponse(c)
      BY <2>0, <2>2 DEF RecordCommand, WriteResponse, RecordResponse, AppendEntry
    <2>3. CASE Disconnect(c) \/ Leave(c) \/ CloseLeft(c) \/ HookReturns(c)
      BY <2>0, <2>3 DEF Disconnect, Leave, CloseLeft, HookReturns
    <2> QED BY <1>2, <2>1, <2>2, <2>3, <2>4, <2>5 DEF ConnectionStep
  <1>3. CASE BroadcastStep
    <2>0. UNCHANGED <<scenario, main, serving, recording, handler, sent>>
      BY <1>3 DEF BroadcastStep, program
    <2>1. ~recording => file' = file
      BY <1>3 DEF BroadcastStep, Emit, RecordEvent, WriteEvent, AppendEntry
    <2> QED BY <2>0, <2>1
  <1>4. CASE CloserStep
    BY <1>4 DEF CloserStep, CloseServer, CloseConnections, Closed, CloseNext, program
  <1>5. CASE ReplayStep \/ UNCHANGED vars
    BY <1>5 DEF ReplayStep, vars, program, server
  <1> QED BY <1>1, <1>2, <1>3, <1>4, <1>5 DEF Next

\* The only client of a recording is the only one that sends commands.
LEMMA OnlyOne ==
    ASSUME Before, NEW c \in Clients, scenario.clients = {c}, NEW d \in Clients, ConnectionStep(d),
           d # c
    PROVE  UNCHANGED <<scenario, file, recording, sent, got, handler>>
  <1>1. handler[d] = "none" /\ d \notin scenario.clients
    BY DEF Before
  <1> QED BY <1>1 DEF ConnectionStep, Upgrade, Register, ReadCommand, RecordCommand, WriteResponse,
                      RecordResponse, Disconnect, Leave, CloseLeft, HookReturns

\* Numbers of commands in progress are among those of commands.
LEMMA InProgress ==
    ASSUME Connected, NEW c \in Clients
    PROVE  /\ sent[c] \in Nat /\ got[c] \in Nat /\ got[c] <= sent[c]
           /\ handler[c] \in {"record", "handle", "written"} =>
                 /\ sent[c] \in Numbers /\ In(sent[c]) \in Frames /\ Out(sent[c]) \in Frames
  BY FrameFacts, CountUp DEF Connected, Shaped, Answered, Numbers

LEMMA FramesNext == ASSUME Recorded, [Next]_vars PROVE file' \in Seq(Frames)
  <1>1. \A e \in Frames : AppendEntry(e) \in Seq(Frames)
    BY Appended DEF AppendEntry, Recorded
  <1>2. CASE UNCHANGED file
    BY <1>2 DEF Recorded
  <1>3. ASSUME NEW c \in Clients, ConnectionStep(c) PROVE file' \in Seq(Frames)
    BY <1>1, <1>2, <1>3, InProgress
       DEF Recorded, ConnectionStep, Upgrade, Register, ReadCommand, RecordCommand, WriteResponse,
           RecordResponse, Disconnect, Leave, CloseLeft, HookReturns
  <1>4. CASE BroadcastStep
    BY <1>1, <1>2, <1>4, FrameFacts DEF BroadcastStep, Emit, RecordEvent, WriteEvent
  <1> QED BY <1>2, <1>3, <1>4 DEF Next, ProgramStep, CloserStep, ReplayStep, vars

\* What holds of the file of the only client after a step that is not its own.
LEMMA QuietKeeps ==
    ASSUME NEW c \in Clients, Alternating(file), recording => UpTo(file, c),
           UNCHANGED <<file, sent, got, handler>>, recording' => recording
    PROVE  Alternating(file)' /\ (recording' => UpTo(file, c)')
  BY DEF UpTo

LEMMA CommandRecorded ==
    ASSUME Recorded, NEW c \in Clients, scenario.clients = {c}, recording, RecordCommand(c)
    PROVE  Alternating(file)' /\ UpTo(file, c)'
  <1> DEFINE n == sent[c]
  <1>1. /\ n \in Numbers /\ In(n) \in Frames /\ handler[c] = "record"
        /\ n \in Nat /\ got[c] \in Nat
        /\ file \in Seq(Frames) /\ Alternating(file) /\ UpTo(file, c)
    BY InProgress DEF Recorded, RecordCommand
  <1>2. /\ file' = Append(file, In(n)) /\ sent' = sent /\ got' = got /\ handler'[c] = "handle"
    BY DEF RecordCommand, AppendEntry, Handles, Recorded, Connected, Shaped
  <1>3. \A i \in 1 .. Len(file), m \in Numbers :
           (file[i] = In(m) => m < n) /\ (file[i] = Out(m) => m <= got[c])
    BY <1>1 DEF UpTo
  <1>4. n > 1 => Among(Out(n - 1), file, Len(file))
    BY <1>1 DEF UpTo
  <1> HIDE DEF n
  <1>5. Alternating(file')
    <2>1. \A m : (In(n) = In(m) => m = n) /\ In(n) # Out(m)
      BY FrameFacts
    <2>2. Alternating(Append(file, In(n)))
      BY <1>1, <1>3, <1>4, <2>1, AlternatingGrows
    <2> QED BY <1>2, <2>2
  <1>6. /\ Len(file') = Len(file) + 1 /\ Len(file) \in Nat /\ file'[Len(file) + 1] = In(n)
        /\ \A i \in 1 .. Len(file) : file'[i] = file[i]
    BY <1>1, <1>2, Appended
  <1>7. \A i \in 1 .. Len(file'), m \in Numbers :
           (file'[i] = In(m) => m <= n) /\ (file'[i] = Out(m) => m <= got[c])
    <2> SUFFICES ASSUME NEW i \in 1 .. Len(file'), NEW m \in Numbers
                 PROVE  (file'[i] = In(m) => m <= n) /\ (file'[i] = Out(m) => m <= got[c])
      OBVIOUS
    <2>1. CASE i \in 1 .. Len(file)
      BY <2>1, <1>1, <1>3, <1>6 DEF Numbers
    <2>2. CASE i = Len(file) + 1
      BY <2>2, <1>1, <1>6, FrameFacts
    <2> QED BY <2>1, <2>2, <1>6
  <1>8. Among(In(n), file', Len(file'))
    BY <1>1, <1>2, <1>6, FromAmong
  <1> QED BY <1>2, <1>5, <1>7, <1>8 DEF UpTo, n

LEMMA ResponseRecorded ==
    ASSUME Recorded, NEW c \in Clients, scenario.clients = {c}, recording, RecordResponse(c)
    PROVE  Alternating(file)' /\ UpTo(file, c)'
  <1> DEFINE n == sent[c]
  <1>1. /\ n \in Numbers /\ Out(n) \in Frames /\ handler[c] = "written"
        /\ n \in Nat /\ got[c] = n
        /\ file \in Seq(Frames) /\ Alternating(file) /\ UpTo(file, c)
    BY InProgress DEF Recorded, RecordResponse, Connected, Answered
  <1>2. /\ file' = Append(file, Out(n)) /\ sent' = sent /\ got' = got /\ handler'[c] = "reading"
    BY DEF RecordResponse, AppendEntry, Handles, Recorded, Connected, Shaped
  <1>3. \A i \in 1 .. Len(file), m \in Numbers :
           (file[i] = In(m) => m <= n) /\ (file[i] = Out(m) => m < n)
    BY <1>1 DEF UpTo
  <1>4. Among(In(n), file, Len(file))
    BY <1>1 DEF UpTo
  <1> HIDE DEF n
  <1>5. Alternating(file')
    BY <1>1, <1>2, <1>3, <1>4, FrameFacts, AlternatingGrows
  <1>6. /\ Len(file') = Len(file) + 1 /\ Len(file) \in Nat /\ file'[Len(file) + 1] = Out(n)
        /\ \A i \in 1 .. Len(file) : file'[i] = file[i]
    BY <1>1, <1>2, Appended
  <1>7. \A i \in 1 .. Len(file'), m \in Numbers :
           (file'[i] = In(m) => m <= n) /\ (file'[i] = Out(m) => m <= n)
    <2> SUFFICES ASSUME NEW i \in 1 .. Len(file'), NEW m \in Numbers
                 PROVE  (file'[i] = In(m) => m <= n) /\ (file'[i] = Out(m) => m <= n)
      OBVIOUS
    <2>1. CASE i \in 1 .. Len(file)
      BY <2>1, <1>1, <1>3, <1>6 DEF Numbers
    <2>2. CASE i = Len(file) + 1
      BY <2>2, <1>1, <1>6, FrameFacts
    <2> QED BY <2>1, <2>2, <1>6
  <1>8. Among(Out(n), file', Len(file'))
    BY <1>1, <1>2, <1>6, FromAmong
  <1> QED BY <1>1, <1>2, <1>5, <1>7, <1>8 DEF UpTo, n

LEMMA EventRecorded ==
    ASSUME Recorded, NEW c \in Clients, scenario.clients = {c}, recording,
           file' = AppendEntry(EventFrame), UNCHANGED <<sent, got, handler>>
    PROVE  Alternating(file)' /\ UpTo(file, c)'
  <1>1. file \in Seq(Frames) /\ Alternating(file) /\ UpTo(file, c)
    BY DEF Recorded
  <1>2. file' = Append(file, EventFrame)
    BY DEF AppendEntry
  <1>3. Alternating(file')
    BY <1>1, <1>2, FrameFacts, AlternatingGrows
  <1>4. /\ Len(file') = Len(file) + 1 /\ Len(file) \in Nat /\ file'[Len(file) + 1] = EventFrame
        /\ \A i \in 1 .. Len(file) : file'[i] = file[i]
    BY <1>1, <1>2, FrameFacts, Appended
  <1>5. \A x : Among(x, file, Len(file)) => Among(x, file', Len(file'))
    BY <1>1, <1>2, <1>4, FrameFacts, StillAmong
  <1>6. \A i \in 1 .. Len(file'), n \in Numbers : file'[i] = In(n) \/ file'[i] = Out(n) =>
           i \in 1 .. Len(file) /\ file'[i] = file[i]
    BY <1>4, FrameFacts
  <1> QED BY <1>1, <1>3, <1>5, <1>6 DEF UpTo

LEMMA OwnStepKeeps ==
    ASSUME Recorded, NEW c \in Clients, scenario.clients = {c}, ConnectionStep(c)
    PROVE  Alternating(file)' /\ (recording' => UpTo(file, c)')
  <1> USE DEF Handles
  <1>0. /\ recording' = recording /\ Alternating(file) /\ (recording => UpTo(file, c))
        /\ sent \in [Clients -> 0 .. MaxCommands] /\ got \in [Clients -> 0 .. MaxCommands]
        /\ handler \in [Clients -> Unknown \cup Busy \cup {"left", "done"}]
        /\ sent[c] \in Nat /\ got[c] \in Nat /\ got[c] <= sent[c]
    BY InProgress DEF Recorded, ConnectionStep, Connected, Shaped
  <1>1. CASE Upgrade(c) \/ Register(c)
    <2>1. sent[c] = 0 /\ got[c] = 0
      BY <1>0, <1>1 DEF Recorded, Before, Unknown, Upgrade, Register
    <2>2. UNCHANGED <<file, sent, got>> /\ handler'[c] \in {"upgraded", "reading"}
      BY <1>0, <1>1 DEF Upgrade, Register
    <2>3. recording => \A i \in 1 .. Len(file), n \in Numbers :
             (file[i] = In(n) => n <= sent[c]) /\ (file[i] = Out(n) => n <= got[c])
      BY <1>0 DEF UpTo
    <2> QED BY <1>0, <2>1, <2>2, <2>3 DEF UpTo
  <1>2. CASE ReadCommand(c)
    <2>1. /\ handler[c] = "reading" /\ sent[c] = got[c] /\ handler'[c] = "record"
          /\ sent'[c] = sent[c] + 1 /\ UNCHANGED <<file, got>>
      BY <1>0, <1>2 DEF ReadCommand
    <2>2. /\ sent[c] + 1 - 1 = sent[c] /\ (sent[c] + 1 > 1 => sent[c] > 0)
          /\ \A n \in Numbers : n <= sent[c] => n <= sent[c] + 1 /\ n < sent[c] + 1
      BY <1>0 DEF Numbers
    <2> QED BY <1>0, <2>1, <2>2 DEF UpTo
  <1>3. CASE RecordCommand(c)
    <2>1. CASE recording
      BY <1>3, <2>1, CommandRecorded
    <2>2. CASE ~recording
      BY <1>0, <1>3, <2>2 DEF RecordCommand, AppendEntry
    <2> QED BY <2>1, <2>2
  <1>4. CASE WriteResponse(c)
    <2>1. UNCHANGED <<file, sent>> /\ handler[c] = "handle" /\ sent[c] = got[c] + 1
      BY <1>4 DEF WriteResponse, Recorded, Connected, Answered
    <2>2. CASE got'[c] = got[c] + 1 /\ handler'[c] = "written"
      <3>1. \A n \in Numbers : n <= got[c] => n < got[c] + 1 /\ n <= got[c] + 1
        BY <1>0 DEF Numbers
      <3> QED BY <1>0, <2>1, <2>2, <3>1 DEF UpTo
    <2>3. CASE got' = got /\ handler'[c] = "reading"
      <3>1. sent[c] # got[c]
        BY <1>0, <2>1
      <3> QED BY <1>0, <2>1, <2>3, <3>1 DEF UpTo
    <2> QED BY <1>0, <1>4, <2>2, <2>3 DEF WriteResponse
  <1>5. CASE RecordResponse(c)
    <2>1. CASE recording
      BY <1>5, <2>1, ResponseRecorded
    <2>2. CASE ~recording
      BY <1>0, <1>5, <2>2 DEF RecordResponse, AppendEntry
    <2> QED BY <2>1, <2>2
  <1>6. CASE Leave(c) \/ CloseLeft(c)
    <2>1. UNCHANGED <<file, sent, got>> /\ handler'[c] \in {"left", "done"}
      BY <1>0, <1>6 DEF Leave, CloseLeft
    <2>2. recording => \A i \in 1 .. Len(file), n \in Numbers :
             (file[i] = In(n) => n <= sent[c]) /\ (file[i] = Out(n) => n <= got[c])
      BY <1>0 DEF UpTo
    <2> QED BY <1>0, <2>1, <2>2 DEF UpTo
  <1>7. CASE Disconnect(c) \/ HookReturns(c)
    BY <1>0, <1>7, QuietKeeps DEF Disconnect, HookReturns
  <1> QED BY <1>1, <1>2, <1>3, <1>4, <1>5, <1>6, <1>7 DEF ConnectionStep

LEMMA RecordedNext == Recorded /\ [Next]_vars => Recorded'
  <1> SUFFICES ASSUME Recorded, [Next]_vars PROVE Recorded'
    OBVIOUS
  <1>a. Connected' /\ Before' /\ file' \in Seq(Frames)
    BY ConnectedNext, BeforeNext, FramesNext DEF Recorded
  <1> SUFFICES ASSUME NEW c \in Clients, scenario'.clients = {c}
               PROVE  Alternating(file)' /\ (recording' => UpTo(file, c)')
    BY <1>a DEF Recorded
  <1>0. /\ scenario' = scenario /\ scenario.clients = {c} /\ Connected /\ Before
        /\ Alternating(file) /\ (recording => UpTo(file, c))
    <2>1. scenario' = scenario
      BY DEF Next, ProgramStep, ConnectionStep, BroadcastStep, CloserStep, ReplayStep, vars
    <2> QED BY <2>1 DEF Recorded
  <1>1. CASE ProgramStep
    <2>0. UNCHANGED <<file, sent, got, handler>>
      BY <1>1 DEF ProgramStep
    <2>1. CASE Launch
      <3>1. file = <<>> /\ Len(file) = 0 /\ handler[c] = "none"
        BY <1>0, <2>1 DEF Before, Launch
      <3> QED BY <2>0, <3>1 DEF Alternating, UpTo
    <2>2. CASE recording' => recording
      BY <1>0, <2>0, <2>2, QuietKeeps
    <2> QED BY <1>1, <2>1, <2>2
            DEF ProgramStep, MainStep, Enable, Serve, Listen, Shuts, Stop, Reap, Kill, Exit, WaitReturns,
                BrowserEnds
  <1>2. ASSUME NEW d \in Clients, ConnectionStep(d)
        PROVE  Alternating(file)' /\ (recording' => UpTo(file, c)')
    <2>1. CASE d = c
      BY <1>0, <1>2, <2>1, OwnStepKeeps
    <2>2. CASE d # c
      BY <1>0, <1>2, <2>2, OnlyOne, QuietKeeps
    <2> QED BY <2>1, <2>2
  <1>3. CASE BroadcastStep
    <2>0. UNCHANGED <<sent, got, handler, recording>>
      BY <1>3 DEF BroadcastStep
    <2>1. CASE file' = file
      BY <1>0, <2>0, <2>1, QuietKeeps
    <2>2. CASE recording /\ file' = AppendEntry(EventFrame)
      BY <1>0, <2>0, <2>2, EventRecorded
    <2> QED BY <1>3, <2>1, <2>2 DEF BroadcastStep, Emit, WriteEvent, RecordEvent, AppendEntry
  <1>4. CASE CloserStep \/ ReplayStep \/ UNCHANGED vars
    BY <1>0, <1>4, QuietKeeps DEF CloserStep, ReplayStep, vars, server
  <1> QED BY <1>1, <1>2, <1>3, <1>4 DEF Next

LEMMA PositionInit == Init => Position
  BY DEF Init, Position, Numbers

LEMMA RecordingKeeps ==
    ASSUME Recorded', Position, [Next]_vars, ~ReplayStep PROVE Position'
  <1>1. replay' = replay /\ scenario' = scenario
    BY DEF Next, ProgramStep, ConnectionStep, BroadcastStep, CloserStep, ReplayStep, vars
  <1>2. CASE replay.state = "none"
    <2>1. replay.pos = 1 /\ replay.sent = 0 /\ replay.got = 0
      BY <1>2 DEF Position
    <2>2. Len(file') \in Nat
      BY DEF Recorded
    <2>3. /\ \A i \in 1 .. Len(file') : ~(i < 1)
          /\ \A n \in Numbers : n > 0
      BY <2>2 DEF Numbers
    <2> QED BY <1>1, <1>2, <2>1, <2>2, <2>3 DEF Position
  <1>3. CASE replay.state = "on"
    <2>1. ~Running
      BY <1>3 DEF Position
    <2>2. UNCHANGED <<file, exited>>
      BY <2>1 DEF Next, ProgramStep, ConnectionStep, BroadcastStep, CloserStep, BrowserEnds, Running,
                  vars, program
    <2> QED BY <1>1, <2>2 DEF Position, Running
  <1> QED BY <1>2, <1>3 DEF Position

LEMMA StartKeeps == ASSUME Recorded, Position, StartReplay, UNCHANGED <<scenario, exited, file>>
                    PROVE  Position'
  <1>1. /\ replay' = [replay EXCEPT !.state = "on"] /\ ~Running
        /\ Cardinality(scenario.clients) = 1
    BY DEF StartReplay
  <1>2. \E c \in Clients : scenario.clients = {c}
    <2>1. scenario \in Scenarios /\ scenario.clients \subseteq Clients /\ IsFiniteSet(Clients)
      BY ProxyAssumption DEF Recorded, Connected, Shaped
    <2> DEFINE S == scenario.clients
    <2>2. IsFiniteSet(S)
      BY <2>1, FS_Subset
    <2>3. Cardinality(S) = 1
      BY <1>1
    <2> HIDE DEF S
    <2>4. \E x : S = {x}
      BY <2>2, <2>3, FS_Singleton
    <2>5. S \subseteq Clients
      BY <2>1 DEF S
    <2> QED BY <2>4, <2>5 DEF S
  <1>3. /\ replay' \in [pos : Nat, sent : Nat, got : Nat, state : {"none", "on"}]
        /\ replay'.pos = replay.pos /\ replay'.sent = replay.sent /\ replay'.got = replay.got
        /\ replay'.state = "on"
    BY <1>1 DEF Position
  <1> QED BY <1>1, <1>2, <1>3 DEF Position, Running

\* What the replay is to deliver or to be sent next.
LEMMA AtPosition ==
    ASSUME Recorded, Position, replay.state = "on", replay.pos <= Len(file)
    PROVE  /\ replay.pos \in 1 .. Len(file) /\ Len(file) \in Nat
           /\ \A n \in Numbers :
                 /\ file[replay.pos] = Out(n) =>
                       /\ n = replay.sent /\ replay.sent = replay.got + 1
                       /\ \A i \in 1 .. Len(file), m \in Numbers :
                             i > replay.pos /\ file[i] = Out(m) => m > n
                 /\ file[replay.pos] = In(n) =>
                       /\ replay.sent = replay.got /\ n > replay.sent
                       /\ \A i \in 1 .. Len(file), m \in Numbers :
                             i > replay.pos /\ file[i] = In(m) => m > n
  <1> DEFINE p == replay.pos  s == replay.sent  g == replay.got
  <1>0. /\ p \in 1 .. Len(file) /\ Len(file) \in Nat /\ Alternating(file)
        /\ s \in Nat /\ g \in Nat /\ (s = g \/ s = g + 1)
    <2>1. Len(file) \in Nat /\ \E c \in Clients : scenario.clients = {c}
      BY DEF Recorded, Position
    <2> QED BY <2>1 DEF Recorded, Position
  <1>1. \A i \in 1 .. Len(file), n \in Numbers :
          /\ i < p => (file[i] = In(n) => n <= s) /\ (file[i] = Out(n) => n <= g)
          /\ i >= p => (file[i] = In(n) => n > s) /\ (file[i] = Out(n) => n > g)
    BY DEF Position
  <1> HIDE DEF p, s, g
  <1>2. ASSUME NEW n \in Numbers, NEW x \in {In(n), Out(n)}, file[p] = x
        PROVE  /\ x = Out(n) =>
                   \A i \in 1 .. Len(file), m \in Numbers : i > p /\ file[i] = Out(m) => m > n
               /\ x = In(n) =>
                   \A i \in 1 .. Len(file), m \in Numbers : i > p /\ file[i] = In(m) => m > n
    BY <1>0, <1>2 DEF Alternating, Numbers
  <1>3. ASSUME NEW n \in Numbers, file[p] = Out(n) PROVE n = s /\ s = g + 1
    <2>1. Among(In(n), file, p - 1)
      BY <1>0, <1>3 DEF Alternating
    <2>2. PICK i \in 1 .. p - 1 : file[i] = In(n)
      BY <2>1 DEF Among
    <2>3. i \in 1 .. Len(file) /\ i < p /\ p >= p
      BY <1>0
    <2>4. n <= s /\ n > g
      BY <1>0, <1>1, <1>3, <2>2, <2>3
    <2> QED BY <1>0, <2>4 DEF Numbers
  <1>4. ASSUME NEW n \in Numbers, file[p] = In(n) PROVE s = g /\ n > s
    <2>1. n > s
      BY <1>0, <1>1, <1>4
    <2>2. CASE n > 1
      <3>1. Among(Out(n - 1), file, p - 1) /\ n - 1 \in Numbers
        BY <1>0, <1>4, <2>2, ProxyAssumption DEF Alternating, Numbers
      <3>2. PICK i \in 1 .. p - 1 : file[i] = Out(n - 1)
        BY <3>1 DEF Among
      <3>3. i \in 1 .. Len(file) /\ i < p
        BY <1>0
      <3>4. n - 1 <= g
        BY <1>1, <3>1, <3>2, <3>3
      <3> QED BY <1>0, <2>1, <3>4 DEF Numbers
    <2>3. CASE n = 1
      BY <1>0, <2>1, <2>3
    <2> QED BY <2>1, <2>2, <2>3 DEF Numbers
  <1> QED BY <1>0, <1>2, <1>3, <1>4 DEF p, s, g

LEMMA FlushKeeps == ASSUME Recorded, Position, Flush, UNCHANGED <<scenario, exited, file>>
                    PROVE  Position'
  <1> DEFINE p == replay.pos  s == replay.sent  g == replay.got  e == file[p]
  <1>0. /\ p \in 1 .. Len(file) /\ Len(file) \in Nat /\ e \in Frames /\ e.direction = "out"
        /\ s \in Nat /\ g \in Nat /\ (s = g \/ s = g + 1)
        /\ p + 1 \in 1 .. Len(file) + 1 /\ p + 1 \in Nat
    BY AtPosition DEF Recorded, Position, Flush
  <1>1. /\ \A n \in Numbers : e = Out(n) => n = s /\ s = g + 1
        /\ \A n, m \in Numbers, i \in 1 .. Len(file) : e = Out(n) /\ i > p /\ file[i] = Out(m) => m > n
    BY AtPosition DEF Flush
  <1>2. \A i \in 1 .. Len(file), n \in Numbers :
          /\ i < p => (file[i] = In(n) => n <= s) /\ (file[i] = Out(n) => n <= g)
          /\ i >= p => (file[i] = In(n) => n > s) /\ (file[i] = Out(n) => n > g)
    BY DEF Position
  <1>3. /\ replay.state = "on" /\ ~Running /\ \E c \in Clients : scenario.clients = {c}
        /\ replay \in [pos : Nat, sent : Nat, got : Nat, state : {"none", "on"}]
        /\ replay' = [replay EXCEPT !.pos = p + 1, !.got = g + (IF e.kind = "response" THEN 1 ELSE 0)]
    BY DEF Position, Flush
  <1> HIDE DEF p, s, g, e
  <1>4. CASE e = EventFrame
    <2>a. e.kind # "response" /\ g + 0 = g
      BY <1>0, <1>4, FrameFacts
    <2>0. replay' = [replay EXCEPT !.pos = p + 1, !.got = g]
      BY <1>3, <2>a
    <2>1. /\ replay' \in [pos : Nat, sent : Nat, got : Nat, state : {"none", "on"}]
          /\ replay'.pos = p + 1 /\ replay'.sent = s /\ replay'.got = g /\ replay'.state = "on"
      BY <1>0, <1>3, <2>0 DEF s
    <2>2. ASSUME NEW i \in 1 .. Len(file), NEW n \in Numbers
          PROVE  /\ i < p + 1 => (file[i] = In(n) => n <= s) /\ (file[i] = Out(n) => n <= g)
                 /\ i >= p + 1 => (file[i] = In(n) => n > s) /\ (file[i] = Out(n) => n > g)
      <3>1. CASE i = p
        BY <3>1, <1>0, <1>4, FrameFacts DEF e
      <3>2. CASE i # p
        BY <3>2, <1>0, <1>2
      <3> QED BY <3>1, <3>2
    <2> QED BY <1>0, <1>3, <2>1, <2>2 DEF Position, Running
  <1>5. ASSUME NEW k \in Numbers, e = Out(k) PROVE Position'
    <2>0. k = s /\ s = g + 1
      BY <1>1, <1>5
    <2>1. /\ replay' \in [pos : Nat, sent : Nat, got : Nat, state : {"none", "on"}]
          /\ replay'.pos = p + 1 /\ replay'.sent = s /\ replay'.got = s /\ replay'.state = "on"
      BY <1>0, <1>3, <1>5, <2>0, FrameFacts DEF s
    <2>2. ASSUME NEW i \in 1 .. Len(file), NEW n \in Numbers
          PROVE  /\ i < p + 1 => (file[i] = In(n) => n <= s) /\ (file[i] = Out(n) => n <= s)
                 /\ i >= p + 1 => (file[i] = In(n) => n > s) /\ (file[i] = Out(n) => n > s)
      <3>0. n \in Nat
        BY DEF Numbers
      <3>1. CASE i = p
        BY <3>1, <1>0, <1>5, <2>0, FrameFacts DEF e
      <3>2. CASE i < p
        BY <3>0, <3>2, <1>0, <1>2, <2>0
      <3>3. CASE i > p
        BY <3>3, <1>0, <1>1, <1>2, <1>5, <2>0
      <3> QED BY <3>1, <3>2, <3>3, <1>0
    <2> QED BY <1>0, <1>3, <2>1, <2>2 DEF Position, Running
  <1>6. \A n : e # In(n)
    BY <1>0, FrameFacts
  <1> QED BY <1>0, <1>4, <1>5, <1>6, FrameFacts

LEMMA AcceptKeeps == ASSUME Recorded, Position, AcceptInbound, UNCHANGED <<scenario, exited, file>>
                     PROVE  Position'
  <1> DEFINE p == replay.pos  s == replay.sent
  <1>0. /\ Len(file) \in Nat /\ p \in Nat /\ s \in Nat /\ replay.got = s
        /\ replay.state = "on" /\ ~Running /\ \E c \in Clients : scenario.clients = {c}
        /\ replay \in [pos : Nat, sent : Nat, got : Nat, state : {"none", "on"}]
    BY DEF Recorded, Position, AcceptInbound
  <1>1. \A i \in 1 .. Len(file), n \in Numbers :
          /\ i < p => (file[i] = In(n) => n <= s) /\ (file[i] = Out(n) => n <= s)
          /\ i >= p => (file[i] = In(n) => n > s) /\ (file[i] = Out(n) => n > s)
    BY <1>0 DEF Position
  <1>2. PICK k \in 1 .. Len(file) : file[k] = In(s + 1)
    BY DEF AcceptInbound, Recorded
  <1>3. s + 1 \in Numbers
    <2>1. file[k] \in Frames
      BY DEF Recorded
    <2>2. PICK n \in Numbers : file[k] = In(n)
      BY <1>2, <2>1, FrameFacts
    <2> QED BY <1>2, <2>2, FrameFacts
  <1>4. k >= p /\ p <= Len(file) /\ p \in 1 .. Len(file)
    BY <1>0, <1>1, <1>2, <1>3 DEF Position
  <1>5. PICK n \in Numbers : file[p] = In(n)
    <2>1. file[p] \in Frames /\ file[p].direction = "in"
      BY <1>4 DEF AcceptInbound, Recorded
    <2> QED BY <2>1, FrameFacts
  <1>6. n > s /\ \A i \in 1 .. Len(file), m \in Numbers : i > p /\ file[i] = In(m) => m > n
    BY <1>0, <1>4, <1>5, AtPosition
  <1> HIDE DEF p, s
  <1>7. n = s + 1
    BY <1>0, <1>2, <1>3, <1>4, <1>5, <1>6, FrameFacts DEF Numbers
  <1>8. replay' = [replay EXCEPT !.pos = p + 1, !.sent = s + 1]
    BY <1>4, <1>5, <1>7 DEF AcceptInbound, p, s
  <1>9. /\ replay' \in [pos : Nat, sent : Nat, got : Nat, state : {"none", "on"}]
        /\ replay'.pos = p + 1 /\ replay'.sent = s + 1 /\ replay'.got = s /\ replay'.state = "on"
    <2>1. p + 1 \in Nat /\ s + 1 \in Nat
      BY <1>0
    <2> QED BY <1>0, <1>8, <2>1
  <1>11. p + 1 \in 1 .. Len(file) + 1 /\ s + 1 \in {s, s + 1}
    BY <1>0, <1>4
  <1>10. ASSUME NEW i \in 1 .. Len(file), NEW m \in Numbers
         PROVE  /\ i < p + 1 => (file[i] = In(m) => m <= s + 1) /\ (file[i] = Out(m) => m <= s)
                /\ i >= p + 1 => (file[i] = In(m) => m > s + 1) /\ (file[i] = Out(m) => m > s)
    <2>0. m \in Nat
      BY DEF Numbers
    <2>1. CASE i = p
      BY <2>1, <1>0, <1>5, <1>7, FrameFacts
    <2>2. CASE i < p
      BY <2>0, <2>2, <1>0, <1>1
    <2>3. CASE i > p
      BY <2>0, <2>3, <1>0, <1>1, <1>6, <1>7
    <2> QED BY <2>1, <2>2, <2>3, <1>0
  <1> QED BY <1>0, <1>9, <1>10, <1>11 DEF Position, Running

LEMMA ReplayedNext == Replayed /\ [Next]_vars => Replayed'
  <1> SUFFICES ASSUME Recorded, Position, [Next]_vars, Recorded' PROVE Position'
    BY RecordedNext DEF Replayed
  <1>1. CASE ReplayStep
    BY <1>1, StartKeeps, FlushKeeps, AcceptKeeps DEF ReplayStep, program
  <1> QED BY <1>1, RecordingKeeps

\* The state of the proxy is well formed: a handler the server knows serves a client, a
\* closed connection has run its hook, and a recording holds frames of its clients.
THEOREM TypeCorrect == Spec => []TypeOK
  <1>1. Process /\ Replayed => TypeOK
    <2> SUFFICES ASSUME Process, Replayed PROVE TypeOK
      OBVIOUS
    <2>1. /\ exited \in {"no", "main", "fatal"} /\ browser \in {"none", "up", "killed", "gone"}
          /\ waited => browser = "gone"
      BY DEF Process
    <2>2. conns \subseteq Clients /\ snapshot \subseteq Clients
      BY DEF Replayed, Recorded, Connected, Shaped
    <2>3. ASSUME NEW c \in Clients
          PROVE  /\ got[c] <= sent[c] /\ sent[c] <= MaxCommands
                 /\ c \in conns => handler[c] \notin {"none", "upgraded", "left", "done"}
                 /\ once[c] = "closed" => hooks[c] > 0 /\ ~open[c]
                 /\ writer[c] = "events" => emitting.writing = c
      <3>1. /\ Hooked(c) /\ Written(c) /\ Answered(c)
            /\ sent[c] \in 0 .. MaxCommands /\ writer[c] \in {"none", "handler", "events"}
        BY DEF Replayed, Recorded, Connected, Shaped
      <3>2. got[c] <= sent[c] /\ sent[c] <= MaxCommands
        BY <3>1, CountUp DEF Answered
      <3>3. /\ c \in conns => handler[c] \notin {"none", "upgraded", "left", "done"}
            /\ once[c] = "closed" => hooks[c] > 0 /\ ~open[c]
        BY <3>1 DEF Hooked, Busy
      <3> QED BY <3>1, <3>2, <3>3 DEF Written
    <2>4. file \in Seq(Frames) /\ replay.pos \in 1 .. Len(file) + 1
      BY DEF Replayed, Recorded, Position
    <2>5. \A i \in DOMAIN file : file[i] \in Frames
      BY <2>4
    <2> QED BY <2>1, <2>2, <2>3, <2>4, <2>5 DEF TypeOK, Frames, Numbers
  <1>2. Init => Process /\ Replayed
    BY ProcessInit, RecordedInit, PositionInit DEF Replayed
  <1>3. (Process /\ Replayed) /\ [Next]_vars => (Process /\ Replayed)'
    BY ProcessNext, ReplayedNext
  <1> QED BY <1>1, <1>2, <1>3, PTL DEF Spec

\* A recording of one client replays to it: RecordReplays is about the order in which
\* Recorder.Record is called for the commands, responses and events of a client, and the
\* position of replay.Server, which flushes up to the next command and compares that.
THEOREM RecordReplays == Spec => []ReplayServes
  <1>1. Replayed => ReplayServes
    <2> SUFFICES ASSUME Recorded, Position PROVE ReplayServes
      BY DEF Replayed
    <2>1. replay.state # "refused"
      BY DEF Position
    <2>2. ASSUME replay.state = "on", replay.pos <= Len(file), file[replay.pos].direction = "in"
          PROVE  replay.sent = replay.got
      <3>1. replay.pos \in 1 .. Len(file)
        BY <2>2, AtPosition
      <3>2. PICK n \in Numbers : file[replay.pos] = In(n)
        BY <2>2, <3>1, FrameFacts DEF Recorded
      <3> QED BY <2>2, <3>2, AtPosition
    <2> QED BY <2>1, <2>2 DEF ReplayServes
  <1>2. Init => Replayed
    BY RecordedInit, PositionInit DEF Replayed
  <1> QED BY <1>1, <1>2, ReplayedNext, PTL DEF Spec
==============================================================================
