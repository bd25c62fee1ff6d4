----------------------------- MODULE FetchProofs -----------------------------
(***************************************************************************)
(* Theorems about request interception, for any connections, sessions,     *)
(* requests, contexts and patterns:                                        *)
(*   TypeCorrect       the state is well formed                            *)
(*   AskedBefore       only who enabled Fetch is told of paused requests   *)
(*   PausedAnswerable  a client can answer what it was told of             *)
(*   SoleIntercepts    a sole client's interceptions stay on               *)
(***************************************************************************)
EXTENDS Fetch, FiniteSetTheorems, TLAPS

------------------------------------------------------------------------------
(* Types.                                                                   *)

\* Where a thread has a request in hand.
RequestPCs == {"owned", "bodyOwned", "actCall", "bodyReply"} \cup EventPCs

Control ==
    /\ pc \in [Threads -> PCs]
    /\ cur \in [Threads -> Sessions \cup {NoSession}]
    /\ rq \in [Threads -> Requests \cup {NoRequest}]
    /\ want \in [Threads -> PatternSets \cup {NoPatterns}]
    /\ on \in [Threads -> BOOLEAN]
    /\ \A p \in Threads : /\ pc[p] \in PagePCs => cur[p] \in Sessions
                          /\ pc[p] \in RequestPCs => rq[p] \in Requests

Bridge ==
    /\ fetchPatterns \in [Sessions -> PatternSets \cup {NoPatterns}]
    /\ requestOwners \in [Requests -> Sessions \cup {NoSession}]
    /\ state \in [Sessions -> {"open", "closing", "closed"}]
    /\ cleaned \subseteq Sessions /\ sessions \subseteq Sessions /\ closed \subseteq Conns
    /\ \A s \in cleaned : state[s] # "open"
    /\ resumers \subseteq Requests \X (Sessions \cup {NoSession})
    /\ paused \subseteq Requests /\ asked \subseteq Requests

World ==
    /\ switch \in [Contexts -> BOOLEAN]
    /\ alive \subseteq Sessions
    /\ request \in [Requests -> {"none", "free", "held", "released", "gone"}]
    /\ caught \subseteq Requests /\ byFrame \subseteq caught
    /\ news \subseteq Requests /\ failures \subseteq Requests

Typed == Control /\ Bridge /\ World

LEMMA ThreadFacts ==
    /\ Reader \in Threads
    /\ \A c \in Conns : /\ Handler(c) \in Threads /\ Closer(c) \in Threads
                        /\ Handler(c) # Reader /\ Closer(c) # Reader
    /\ \A c, d \in Conns : Handler(c) # Closer(d)
    /\ \A c, d \in Conns : (Handler(c) = Handler(d) => c = d) /\ (Closer(c) = Closer(d) => c = d)
    /\ \A p \in Threads : p = Reader \/ \E c \in Conns : p = Handler(c) \/ p = Closer(c)
  BY DEF Threads, Handler, Closer, Reader

LEMMA PCFacts ==
    /\ FetchPCs \subseteq PagePCs /\ PagePCs \subseteq PCs
    /\ CleanupPCs \subseteq PCs /\ EventPCs \subseteq PCs /\ RequestPCs \subseteq PCs
    /\ {"idle", "next"} \subseteq PCs
    /\ {"idle", "next"} \cap (PagePCs \cup RequestPCs \cup CleanupPCs) = {}
    /\ CleanupPCs \cap RequestPCs = {} /\ EventPCs \cap PagePCs = {}
    /\ {"check", "offCall", "offReply"} \cap (PagePCs \cup RequestPCs) = {}
  BY DEF FetchPCs, CleanupPCs, PagePCs, EventPCs, PCs, RequestPCs

LEMMA Going ==
    ASSUME Control, NEW p \in Threads, NEW l \in PCs, Goto(p, l),
           l \in PagePCs => cur[p] \in Sessions, l \in RequestPCs => rq[p] \in Requests
    PROVE  Control' /\ pc' = [pc EXCEPT ![p] = l] /\ pc'[p] = l /\ cur' = cur /\ rq' = rq
  BY DEF Control, Goto

LEMMA Finishing ==
    ASSUME Control, NEW p \in Threads, NEW l \in {"idle", "next"}, Finish(p, l)
    PROVE  Control' /\ pc' = [pc EXCEPT ![p] = l]
  <1>1. l \in PCs /\ l \notin PagePCs /\ l \notin RequestPCs
    BY PCFacts
  <1> QED BY <1>1 DEF Control, Finish

\* What can happen.
LEMMA Steps ==
    ASSUME [Next]_vars
    PROVE  \/ \E c \in Conns : Command(c) \/ FetchStep(Handler(c))
           \/ \E c \in Conns : CloseConnection(c) \/ NextRecord(c)
           \/ \E p \in Threads : CloseRecord(p)
           \/ \E r \in Requests : TakeRequest(r) \/ TakeIntercepted(r) \/ TakeFailure(r)
           \/ \E s \in Sessions : TakeDetach(s)
           \/ NoteOwner \/ CheckEnabled \/ MatchPatterns \/ Announce
           \/ \E r \in Requests, s \in Sessions \cup {NoSession} : Resume(r, s)
           \/ \E r \in Requests : MakeRequest(r) \/ RequestFails(r)
           \/ \E s \in Sessions : PageDies(s)
           \/ UNCHANGED vars
  BY ThreadFacts DEF Next, HandlerStep, CloserStep, ReaderStep

LEMMA ControlInit == Init => Control
  BY PCFacts DEF Init, Control

LEMMA FetchControl == ASSUME Control, NEW c \in Conns, FetchStep(Handler(c)) PROVE Control'
  <1> DEFINE p == Handler(c)
  <1>0. p \in Threads
    BY ThreadFacts
  <1> HIDE DEF p
  <1> USE <1>0, Going, Finishing DEF FetchPCs, PagePCs, PCs, RequestPCs, EventPCs
  <1>1. CASE SetFetchPatterns(p) \/ EnableCall(p)
    BY <1>1 DEF Control, SetFetchPatterns, EnableCall
  <1>2. CASE EnableReturns(p) \/ ClearFetchPatterns(p)
    BY <1>2 DEF Control, EnableReturns, ClearFetchPatterns
  <1>3. CASE ReadEnabled(p)
    BY <1>3 DEF Control, ReadEnabled, SwitchOnDisable, FetchInterceptionEnabled
  <1>4. CASE DisableCall(p) \/ DisableReturns(p)
    BY <1>4 DEF Control, DisableCall, DisableReturns
  <1>5. CASE RequestOwned(p)
    BY <1>5 DEF Control, RequestOwned
  <1>6. CASE ActCall(p) \/ ActReturns(p) \/ BodyReturns(p)
    BY <1>6 DEF Control, ActCall, ActReturns, BodyReturns
  <1> QED BY <1>1, <1>2, <1>3, <1>4, <1>5, <1>6 DEF FetchStep, p

LEMMA CleanupControl == ASSUME Control, NEW p \in Threads, CloseRecord(p) PROVE Control'
  <1> USE Going, Finishing DEF CleanupPCs, PagePCs, PCs, RequestPCs, FetchPCs, EventPCs
  <1>0. AfterClose(p) \in {"idle", "next"}
    BY DEF AfterClose
  <1>1. CASE BeginCleanup(p)
    BY <1>0, <1>1 DEF Control, BeginCleanup
  <1>2. CASE PageClose(p) \/ PageCloseReturns(p)
    BY <1>2 DEF Control, PageClose, PageCloseReturns
  <1>3. CASE ClearPatterns(p) \/ ClearRequests(p)
    BY <1>3 DEF Control, ClearPatterns, ClearRequests
  <1>4. CASE CheckUnused(p)
    BY <1>4 DEF Control, CheckUnused, AfterOff
  <1>5. CASE OffCall(p) \/ OffReturns(p)
    BY <1>5 DEF Control, OffCall, OffReturns, AfterOff
  <1>6. CASE Drop(p)
    BY <1>6 DEF Control, Drop
  <1>7. CASE Remove(p)
    BY <1>0, <1>7 DEF Control, Remove
  <1> QED BY <1>1, <1>2, <1>3, <1>4, <1>5, <1>6, <1>7 DEF CloseRecord

LEMMA ClientControl ==
    ASSUME Control, NEW c \in Conns, Command(c) \/ CloseConnection(c) \/ NextRecord(c)
    PROVE  Control'
  <1> DEFINE h == Handler(c)  k == Closer(c)
  <1>0. h \in Threads /\ k \in Threads
    BY ThreadFacts
  <1> HIDE DEF h, k
  <1> USE <1>0 DEF CleanupPCs, PagePCs, PCs, RequestPCs, FetchPCs, EventPCs
  <1>1. ASSUME NEW s \in Sessions, StartEnable(c, s) PROVE Control'
    <2>1. PICK ps \in PatternSets : want' = [want EXCEPT ![h] = ps]
      BY <1>1 DEF StartEnable, h
    <2>2. /\ pc' = [pc EXCEPT ![h] = "setPatterns"] /\ cur' = [cur EXCEPT ![h] = s]
          /\ UNCHANGED <<rq, on>>
      BY <1>1 DEF StartEnable, Start, h
    <2> QED BY <2>1, <2>2 DEF Control
  <1>2. ASSUME NEW s \in Sessions, StartDisable(c, s) \/ StartClose(c, s) PROVE Control'
    <2>1. PICK l \in {"clear", "begin"} : pc' = [pc EXCEPT ![h] = l] /\ cur' = [cur EXCEPT ![h] = s]
      BY <1>2 DEF StartDisable, StartClose, Start, h
    <2>2. UNCHANGED <<rq, want, on>>
      BY <1>2 DEF StartDisable, StartClose
    <2> QED BY <2>1, <2>2 DEF Control
  <1>3. ASSUME NEW s \in Sessions, NEW r \in Requests, StartRequest(c, s, r) PROVE Control'
    <2>1. PICK l \in {"owned", "bodyOwned"} :
             pc' = [pc EXCEPT ![h] = l] /\ cur' = [cur EXCEPT ![h] = s]
      BY <1>3 DEF StartRequest, Start, h
    <2>2. UNCHANGED <<want, on>> /\ rq' = [rq EXCEPT ![h] = r]
      BY <1>3 DEF StartRequest, h
    <2> QED BY <2>1, <2>2 DEF Control
  <1>4. CASE CloseConnection(c)
    BY <1>4, Going DEF CloseConnection, k
  <1>5. CASE NextRecord(c)
    <2>1. CASE Goto(k, "check")
      BY <2>1, Going
    <2>2. CASE \E s \in Sessions : /\ pc' = [pc EXCEPT ![k] = "begin"]
                                   /\ cur' = [cur EXCEPT ![k] = s]
                                   /\ UNCHANGED <<rq, want, on>>
      BY <2>2 DEF Control
    <2> QED BY <1>5, <2>1, <2>2 DEF NextRecord, k
  <1> QED BY <1>1, <1>2, <1>3, <1>4, <1>5 DEF Command

LEMMA EventControl ==
    ASSUME Control, \/ \E r \in Requests : TakeRequest(r) \/ TakeIntercepted(r)
                    \/ \E s \in Sessions : TakeDetach(s)
                    \/ NoteOwner \/ CheckEnabled \/ MatchPatterns \/ Announce
    PROVE  Control'
  <1>0. Reader \in Threads
    BY ThreadFacts
  <1> USE <1>0 DEF PCs, PagePCs, RequestPCs, EventPCs, FetchPCs, CleanupPCs
  <1>1. ASSUME NEW r \in Requests, TakeRequest(r) PROVE Control'
    <2>1. Resolved(r) \in Sessions \cup {NoSession}
      BY FetchAssumption DEF Resolved
    <2>2. /\ \E l \in {"enabled", "note"} : pc' = [pc EXCEPT ![Reader] = l]
          /\ cur' = [cur EXCEPT ![Reader] = Resolved(r)]
          /\ rq' = [rq EXCEPT ![Reader] = r] /\ UNCHANGED <<want, on>>
      BY <1>1 DEF TakeRequest
    <2> QED BY <2>1, <2>2 DEF Control
  <1>2. ASSUME NEW r \in Requests, TakeIntercepted(r) PROVE Control'
    <2>1. ForFrame(r) \in Sessions \cup {NoSession}
      BY FetchAssumption DEF ForFrame, Resolved
    <2>2. CASE UNCHANGED threads
      BY <2>2 DEF threads, Control
    <2>3. CASE /\ pc' = [pc EXCEPT ![Reader] = "note"]
               /\ cur' = [cur EXCEPT ![Reader] = ForFrame(r)]
               /\ rq' = [rq EXCEPT ![Reader] = r] /\ UNCHANGED <<want, on>>
      BY <2>1, <2>3 DEF Control
    <2> QED BY <1>2, <2>2, <2>3 DEF TakeIntercepted
  <1>3. ASSUME NEW s \in Sessions, TakeDetach(s) PROVE Control'
    BY <1>3 DEF Control, TakeDetach
  <1>4. CASE NoteOwner
    BY <1>4, Going DEF Control, NoteOwner
  <1>5. CASE CheckEnabled
    BY <1>5, Going, Finishing DEF Control, CheckEnabled, LetGo
  <1>6. CASE MatchPatterns
    BY <1>6, Going, Finishing DEF Control, MatchPatterns, LetGo
  <1>7. CASE Announce
    BY <1>7, Finishing DEF Announce
  <1> QED BY <1>1, <1>2, <1>3, <1>4, <1>5, <1>6, <1>7

LEMMA ControlNext == Control /\ [Next]_vars => Control'
  <1> SUFFICES ASSUME Control, [Next]_vars PROVE Control'
    OBVIOUS
  <1>1. CASE UNCHANGED threads
    BY <1>1 DEF Control, threads
  <1>2. CASE \/ \E r \in Requests : TakeFailure(r) \/ MakeRequest(r) \/ RequestFails(r)
             \/ \E s \in Sessions : PageDies(s)
             \/ \E r \in Requests, s \in Sessions \cup {NoSession} : Resume(r, s)
             \/ UNCHANGED vars
    BY <1>1, <1>2 DEF TakeFailure, MakeRequest, RequestFails, PageDies, Resume, vars
  <1> QED BY <1>2, Steps, FetchControl, CleanupControl, ClientControl, EventControl

LEMMA BridgeNext == Control /\ Bridge /\ [Next]_vars => Bridge'
  <1> SUFFICES ASSUME Control, Bridge, [Next]_vars PROVE Bridge'
    OBVIOUS
  <1> USE DEF Bridge, bridge, history
  <1>0. CASE UNCHANGED <<bridge, resumers, history>>
    BY <1>0
  <1>1. ASSUME NEW c \in Conns, Command(c) PROVE Bridge'
    BY <1>0, <1>1 DEF Command, StartEnable, StartDisable, StartClose, StartRequest
  <1>2. ASSUME NEW c \in Conns, FetchStep(Handler(c)) PROVE Bridge'
    <2> DEFINE p == Handler(c)
    <2>0. p \in Threads
      BY ThreadFacts
    <2> HIDE DEF p
    <2>1. CASE SetFetchPatterns(p)
      BY <2>0, <2>1 DEF SetFetchPatterns, Control
    <2>2. CASE ClearFetchPatterns(p)
      BY <2>2 DEF ClearFetchPatterns
    <2>3. CASE BodyReturns(p)
      BY <2>3 DEF BodyReturns
    <2>4. CASE EnableCall(p) \/ EnableReturns(p) \/ ReadEnabled(p) \/ DisableCall(p)
               \/ DisableReturns(p) \/ RequestOwned(p) \/ ActCall(p) \/ ActReturns(p)
      BY <1>0, <2>4 DEF EnableCall, EnableReturns, ReadEnabled, DisableCall, DisableReturns,
                        RequestOwned, ActCall, ActReturns
    <2> QED BY <1>2, <2>1, <2>2, <2>3, <2>4 DEF FetchStep, p
  <1>3. ASSUME NEW p \in Threads, CloseRecord(p) PROVE Bridge'
    <2>1. CASE BeginCleanup(p)
      <3>1. cur[p] \in Sessions
        BY <2>1 DEF BeginCleanup, Control, PagePCs, CleanupPCs
      <3> QED BY <2>1, <3>1 DEF BeginCleanup
    <2>2. CASE ClearPatterns(p)
      BY <2>2 DEF ClearPatterns
    <2>3. CASE ClearRequests(p)
      BY <2>3 DEF ClearRequests
    <2>4. CASE Drop(p) \/ Remove(p)
      BY <2>4 DEF Drop, Remove
    <2>5. CASE PageClose(p) \/ PageCloseReturns(p) \/ CheckUnused(p) \/ OffCall(p) \/ OffReturns(p)
      BY <1>0, <2>5 DEF PageClose, PageCloseReturns, CheckUnused, OffCall, OffReturns
    <2> QED BY <1>3, <2>1, <2>2, <2>3, <2>4, <2>5 DEF CloseRecord
  <1>4. ASSUME NEW c \in Conns, CloseConnection(c) \/ NextRecord(c) PROVE Bridge'
    BY <1>0, <1>4 DEF CloseConnection, NextRecord, SessionOwned
  <1>5. ASSUME NEW r \in Requests, TakeRequest(r) \/ TakeIntercepted(r) \/ TakeFailure(r)
        PROVE  Bridge'
    BY <1>0, <1>5 DEF TakeRequest, TakeIntercepted, TakeFailure
  <1>6. ASSUME NEW s \in Sessions, TakeDetach(s) \/ PageDies(s) PROVE Bridge'
    BY <1>0, <1>6 DEF TakeDetach, PageDies
  <1>7. CASE NoteOwner
    BY <1>7, ThreadFacts DEF NoteOwner, Control
  <1>8. CASE CheckEnabled \/ MatchPatterns
    <2>1. resumers' = resumers \/ /\ rq[Reader] \in Requests /\ cur[Reader] \in Sessions \cup {NoSession}
                                  /\ resumers' = resumers \cup {<<rq[Reader], cur[Reader]>>}
      BY <1>8, ThreadFacts DEF CheckEnabled, MatchPatterns, LetGo, Control, RequestPCs, EventPCs
    <2> QED BY <1>8, <2>1 DEF CheckEnabled, MatchPatterns
  <1>9. CASE Announce
    <2>1. rq[Reader] \in Requests
      BY <1>9, ThreadFacts DEF Announce, Control, RequestPCs, EventPCs
    <2> QED BY <1>9, <2>1 DEF Announce
  <1>10. ASSUME NEW r \in Requests, NEW s \in Sessions \cup {NoSession}, Resume(r, s) PROVE Bridge'
    BY <1>10 DEF Resume
  <1>11. ASSUME NEW r \in Requests, MakeRequest(r) \/ RequestFails(r) PROVE Bridge'
    BY <1>0, <1>11 DEF MakeRequest, RequestFails
  <1>12. CASE UNCHANGED vars
    BY <1>0, <1>12 DEF vars
  <1> QED BY Steps, <1>1, <1>2, <1>3, <1>4, <1>5, <1>6, <1>7, <1>8, <1>9, <1>10, <1>11, <1>12

\* Requests: none begins twice, none waits again once it was let go.
LEMMA RequestsAdvance ==
    ASSUME World, NEW r \in Requests, NEW s
    PROVE  Release(s, r) =>
              /\ request' \in [Requests -> {"none", "free", "held", "released", "gone"}]
              /\ \A q \in Requests : request'[q] = request[q]
                                     \/ (request[q] = "held" /\ request'[q] = "released")
  <1> SUFFICES ASSUME Release(s, r)
               PROVE  /\ request' \in [Requests -> {"none", "free", "held", "released", "gone"}]
                      /\ \A q \in Requests : request'[q] = request[q]
                                             \/ (request[q] = "held" /\ request'[q] = "released")
    OBVIOUS
  <1>1. CASE request' = request
    BY <1>1 DEF World
  <1>2. CASE request[r] = "held" /\ request' = [request EXCEPT ![r] = "released"]
    BY <1>2 DEF World
  <1> QED BY <1>1, <1>2 DEF Release

LEMMA WorldNext == Control /\ World /\ [Next]_vars => World'
  <1> SUFFICES ASSUME Control, World, [Next]_vars PROVE World'
    OBVIOUS
  <1> USE DEF World
  <1>0. CASE UNCHANGED browser
    BY <1>0 DEF browser
  <1>1. ASSUME NEW c \in Conns, Command(c) PROVE World'
    BY <1>0, <1>1 DEF Command, StartEnable, StartDisable, StartClose, StartRequest
  <1>2. ASSUME NEW c \in Conns, FetchStep(Handler(c)) PROVE World'
    <2> DEFINE p == Handler(c)
    <2>0. p \in Threads
      BY ThreadFacts
    <2> HIDE DEF p
    <2>1. CASE EnableCall(p)
      BY <2>1 DEF EnableCall
    <2>2. CASE DisableCall(p)
      BY <2>0, <2>2 DEF DisableCall, SetSwitch, Control
    <2>3. CASE ActCall(p)
      <3>1. rq[p] \in Requests
        BY <2>0, <2>3 DEF ActCall, Control, RequestPCs
      <3> QED BY <2>3, <3>1, RequestsAdvance DEF ActCall
    <2>4. CASE SetFetchPatterns(p) \/ ClearFetchPatterns(p) \/ BodyReturns(p)
               \/ EnableReturns(p) \/ ReadEnabled(p)
               \/ DisableReturns(p) \/ RequestOwned(p) \/ ActReturns(p)
      BY <1>0, <2>4 DEF SetFetchPatterns, ClearFetchPatterns, BodyReturns, EnableReturns, ReadEnabled,
                        DisableReturns, RequestOwned, ActReturns
    <2> QED BY <1>2, <2>1, <2>2, <2>3, <2>4 DEF FetchStep, p
  <1>3. ASSUME NEW p \in Threads, CloseRecord(p) PROVE World'
    <2>1. CASE PageClose(p)
      BY <2>1 DEF PageClose, Die
    <2>2. CASE OffCall(p)
      BY <2>2 DEF OffCall, SetSwitch
    <2>3. CASE BeginCleanup(p) \/ PageCloseReturns(p) \/ ClearPatterns(p) \/ ClearRequests(p)
               \/ CheckUnused(p) \/ OffReturns(p) \/ Drop(p) \/ Remove(p)
      BY <1>0, <2>3 DEF BeginCleanup, PageCloseReturns, ClearPatterns, ClearRequests, CheckUnused,
                        OffReturns, Drop, Remove
    <2> QED BY <1>3, <2>1, <2>2, <2>3 DEF CloseRecord
  <1>4. ASSUME NEW c \in Conns, CloseConnection(c) \/ NextRecord(c) PROVE World'
    BY <1>0, <1>4 DEF CloseConnection, NextRecord
  <1>5. ASSUME NEW r \in Requests, TakeRequest(r) \/ TakeIntercepted(r) \/ TakeFailure(r)
        PROVE  World'
    BY <1>5 DEF TakeRequest, TakeIntercepted, TakeFailure
  <1>6. ASSUME NEW s \in Sessions, TakeDetach(s) PROVE World'
    BY <1>0, <1>6 DEF TakeDetach
  <1>7. ASSUME NEW s \in Sessions, PageDies(s) PROVE World'
    BY <1>7 DEF PageDies, Die
  <1>8. CASE NoteOwner \/ CheckEnabled \/ MatchPatterns \/ Announce
    BY <1>0, <1>8 DEF NoteOwner, CheckEnabled, MatchPatterns, Announce
  <1>9. ASSUME NEW r \in Requests, NEW s \in Sessions \cup {NoSession}, Resume(r, s) PROVE World'
    <2>1. request' \in [Requests -> {"none", "free", "held", "released", "gone"}]
      BY <1>9, RequestsAdvance DEF Resume
    <2> QED BY <1>9, <2>1 DEF Resume
  <1>10. ASSUME NEW r \in Requests, MakeRequest(r) PROVE World'
    BY <1>10 DEF MakeRequest
  <1>11. ASSUME NEW r \in Requests, RequestFails(r) PROVE World'
    BY <1>11 DEF RequestFails
  <1>12. CASE UNCHANGED vars
    BY <1>0, <1>12 DEF vars
  <1> QED BY Steps, <1>1, <1>2, <1>3, <1>4, <1>5, <1>6, <1>7, <1>8, <1>9, <1>10, <1>11, <1>12

LEMMA TypedInit == Init => Typed
  BY ControlInit, FetchAssumption DEF Init, Typed, Bridge, World

LEMMA TypedNext == Typed /\ [Next]_vars => Typed'
  BY ControlNext, BridgeNext, WorldNext DEF Typed

\* Every variable keeps its type; a page whose cleanup began is not open again, and a
\* goroutine between two steps on a page has that page in hand.
THEOREM TypeCorrect == Spec => []TypeOK
  <1>1. Typed => TypeOK
    BY DEF Typed, Control, Bridge, World, TypeOK
  <1> QED BY <1>1, TypedInit, TypedNext, PTL DEF Spec

------------------------------------------------------------------------------
(* The ends of pages.                                                       *)

\* A cleanup is of a page that is not open, or the last check of a close hook; and a
\* session goes with its page.
Cleaning ==
    /\ \A p \in Threads :
          /\ pc[p] \in {"idle", "next"} => cur[p] = NoSession
          /\ pc[p] \in CleanupPCs \ {"begin"} =>
                \/ cur[p] \in cleaned
                \/ /\ pc[p] \in {"check", "offCall", "offReply"} /\ cur[p] = NoSession
                   /\ \E c \in Conns : p = Closer(c)
    /\ \A p \in Threads : pc[p] = "next" => \E c \in Conns : p = Closer(c)
    /\ Sessions \ sessions \subseteq cleaned
    /\ \A c \in Conns : pc[Closer(c)] # "idle" => c \in closed
    /\ \A s \in Sessions : Owner[s] \in closed => state[s] # "open"

------------------------------------------------------------------------------
(* Requests put before a client.                                            *)

\* What the read loop has in hand is a request made, and the session of its page.
Reading ==
    LET r == rq[Reader] IN
    pc[Reader] \in EventPCs =>
        /\ request[r] # "none"
        /\ cur[Reader] = Origin[r] \/ (pc[Reader] = "enabled" /\ cur[Reader] = NoSession)

Asked ==
    /\ \A r \in Requests : fetchPatterns[Origin[r]] # NoPatterns => r \in asked
    /\ pc[Reader] \in {"match", "announce"} => rq[Reader] \in asked \cup byFrame
    /\ paused \subseteq asked \cup byFrame

\* Has r, which waits, the owner it is to have?
Kept(r) == request[r] = "held" /\ state[Origin[r]] = "open" => requestOwners[r] = Origin[r]

Owned ==
    /\ \A r \in Requests :
          /\ requestOwners[r] \in {NoSession, Origin[r]}
          /\ r \in paused \cup news => request[r] # "none"
          /\ r \in failures => request[r] = "gone"
          /\ r \in paused => Kept(r)
    /\ pc[Reader] \in EventPCs \ {"note"} /\ cur[Reader] # NoSession => Kept(rq[Reader])

------------------------------------------------------------------------------
(* The only client.                                                         *)

\* No cleanup, and no other thread, disturbs the handler of the only client.
Undisturbed(c) == Conns = {c} /\ \A s \in Sessions : state[s] = "open"

\* What has patterns is intercepted, but for the session whose Fetch.enable is under way;
\* Fetch.disable tells the browser what the patterns say.
Intercepting ==
    \A c \in Conns : Undisturbed(c) =>
        LET h == Handler(c) IN
        /\ \A s \in Sessions : fetchPatterns[s] # NoPatterns =>
              switch[Context[s]] \/ (pc[h] \in {"enableCall", "unset"} /\ s = cur[h])
        /\ pc[h] = "setCall" => on[h] = FetchInterceptionEnabled

------------------------------------------------------------------------------
(* Cleaning is kept.                                                        *)

LEMMA CleaningInit == Init => Cleaning
  BY ThreadFacts DEF Init, Cleaning, CleanupPCs

\* What Cleaning says of the threads, and of the pages.
CleanThread(p) ==
    /\ pc[p] \in {"idle", "next"} => cur[p] = NoSession
    /\ pc[p] \in CleanupPCs \ {"begin"} =>
          \/ cur[p] \in cleaned
          \/ /\ pc[p] \in {"check", "offCall", "offReply"} /\ cur[p] = NoSession
             /\ \E c \in Conns : p = Closer(c)
    /\ pc[p] = "next" => \E c \in Conns : p = Closer(c)
    /\ \A c \in Conns : p = Closer(c) /\ pc[p] # "idle" => c \in closed

CleanPages ==
    /\ Sessions \ sessions \subseteq cleaned
    /\ \A s \in Sessions : Owner[s] \in closed => state[s] # "open"

LEMMA CleaningParts == Cleaning <=> CleanPages /\ \A p \in Threads : CleanThread(p)
  BY ThreadFacts DEF Cleaning, CleanPages, CleanThread

\* A step of one thread, after which its own control is as Cleaning says.
LEMMA OneMoved ==
    ASSUME Cleaning, NEW p \in Threads, CleanThread(p)', CleanPages',
           cleaned \subseteq cleaned', closed \subseteq closed',
           \A q \in Threads : q # p => pc'[q] = pc[q] /\ cur'[q] = cur[q]
    PROVE  Cleaning'
  <1>1. \A q \in Threads : q # p => CleanThread(q)'
    BY CleaningParts DEF CleanThread
  <1> QED BY <1>1, ThreadFacts DEF Cleaning, CleanPages, CleanThread

LEMMA NobodyMoved ==
    ASSUME Cleaning, CleanPages', cleaned \subseteq cleaned', closed \subseteq closed',
           UNCHANGED <<pc, cur>>
    PROVE  Cleaning'
  <1>1. \A q \in Threads : CleanThread(q)'
    BY CleaningParts DEF CleanThread
  <1> QED BY <1>1, ThreadFacts DEF Cleaning, CleanPages, CleanThread

\* The pages are as Cleaning says unless one is closed or a session is removed.
LEMMA PagesKept ==
    ASSUME Cleaning, UNCHANGED <<sessions, closed>>, cleaned \subseteq cleaned',
           \A s \in Sessions : state'[s] = "open" => state[s] = "open"
    PROVE  CleanPages'
  BY DEF Cleaning, CleanPages

\* What the steps of a thread leave alone.
LEMMA GoingElse ==
    ASSUME Control, NEW p \in Threads, NEW l, Goto(p, l)
    PROVE  /\ pc'[p] = l /\ cur'[p] = cur[p]
           /\ \A q \in Threads : q # p => pc'[q] = pc[q] /\ cur'[q] = cur[q]
  BY DEF Goto, Control

LEMMA FinishingElse ==
    ASSUME Control, NEW p \in Threads, NEW l, Finish(p, l)
    PROVE  /\ pc'[p] = l /\ cur'[p] = NoSession
           /\ \A q \in Threads : q # p => pc'[q] = pc[q] /\ cur'[q] = cur[q]
  BY DEF Finish, Control

LEMMA FetchCleaning ==
    ASSUME Control, Cleaning, NEW c \in Conns, FetchStep(Handler(c)) PROVE Cleaning'
  <1> DEFINE p == Handler(c)
  <1>0. p \in Threads /\ \A d \in Conns : p # Closer(d)
    BY ThreadFacts
  <1> HIDE DEF p
  <1>1. UNCHANGED <<state, cleaned, sessions, closed>> /\ CleanPages'
    <2>1. UNCHANGED <<state, cleaned, sessions, closed>>
      BY DEF FetchStep, SetFetchPatterns, EnableCall, EnableReturns, ClearFetchPatterns, ReadEnabled,
             DisableCall, DisableReturns, RequestOwned, ActCall, ActReturns, BodyReturns, bridge
    <2> QED BY <2>1, PagesKept
  <1>2. \/ Finish(p, "idle")
        \/ \E l \in FetchPCs : Goto(p, l)
        \/ pc' = [pc EXCEPT ![p] = "setCall"] /\ cur' = cur
    BY DEF FetchStep, SetFetchPatterns, EnableCall, EnableReturns, ClearFetchPatterns, ReadEnabled,
           DisableCall, DisableReturns, RequestOwned, ActCall, ActReturns, BodyReturns, FetchPCs, p
  <1>3. FetchPCs \cap (CleanupPCs \cup {"idle", "next"}) = {} /\ "setCall" \in FetchPCs
        /\ "idle" \notin CleanupPCs
    BY DEF FetchPCs, CleanupPCs
  <1>4. /\ pc'[p] \in FetchPCs \/ (pc'[p] = "idle" /\ cur'[p] = NoSession)
        /\ \A q \in Threads : q # p => pc'[q] = pc[q] /\ cur'[q] = cur[q]
    <2>1. CASE Finish(p, "idle")
      BY <1>0, <2>1, FinishingElse
    <2>2. CASE \E l \in FetchPCs : Goto(p, l)
      BY <1>0, <2>2, GoingElse
    <2>3. CASE pc' = [pc EXCEPT ![p] = "setCall"] /\ cur' = cur
      BY <1>0, <1>3, <2>3 DEF Control
    <2> QED BY <1>2, <2>1, <2>2, <2>3
  <1>5. CleanThread(p)'
    BY <1>0, <1>3, <1>4 DEF CleanThread
  <1> QED BY <1>0, <1>1, <1>4, <1>5, OneMoved

LEMMA CleanupCleaning ==
    ASSUME Control, Bridge, Cleaning, NEW p \in Threads, CloseRecord(p) PROVE Cleaning'
  <1>0. CleanThread(p) /\ CleanPages
    BY CleaningParts
  <1> USE GoingElse, FinishingElse
  <1>1. CASE BeginCleanup(p)
    <2>1. cur[p] \in Sessions /\ UNCHANGED <<sessions, closed>>
      BY <1>1 DEF BeginCleanup, Control, PagePCs, CleanupPCs
    <2>2. CASE cur[p] \in cleaned
      <3>1. Finish(p, AfterClose(p)) /\ UNCHANGED <<state, cleaned>>
        BY <1>1, <2>2 DEF BeginCleanup
      <3>2. CleanThread(p)'
        <4>1. AfterClose(p) \in {"idle", "next"}
              /\ (AfterClose(p) = "next" => \E c \in Conns : p = Closer(c))
          BY DEF AfterClose, Threads, Closer, Reader
        <4> QED BY <1>0, <1>1, <2>1, <3>1, <4>1 DEF CleanThread, CleanupPCs, BeginCleanup
      <3> QED BY <2>1, <3>1, <3>2, OneMoved, PagesKept
    <2>3. CASE cur[p] \notin cleaned
      <3>1. /\ state' = [state EXCEPT ![cur[p]] = "closing"] /\ cleaned' = cleaned \cup {cur[p]}
            /\ \E l \in {"clearPatterns", "pageClose"} : Goto(p, l)
        BY <1>1, <2>3 DEF BeginCleanup
      <3>2. CleanThread(p)'
        BY <1>0, <1>1, <2>1, <3>1 DEF CleanThread, BeginCleanup
      <3>3. CleanPages'
        BY <2>1, <3>1, PagesKept DEF Bridge
      <3> QED BY <2>1, <3>1, <3>2, <3>3, OneMoved
    <2> QED BY <2>2, <2>3
  <1>2. ASSUME NEW l \in {"closeReply", "clearPatterns", "clearRequests", "check"},
               Goto(p, l), pc[p] \in {"pageClose", "closeReply", "clearPatterns", "clearRequests"},
               UNCHANGED <<state, cleaned, sessions, closed>>
        PROVE  Cleaning'
    <2>1. CleanThread(p)'
      BY <1>0, <1>2 DEF CleanThread, CleanupPCs
    <2> QED BY <1>2, <2>1, OneMoved, PagesKept
  <1>3. CASE PageClose(p) \/ PageCloseReturns(p) \/ ClearPatterns(p) \/ ClearRequests(p)
    BY <1>2, <1>3 DEF PageClose, PageCloseReturns, ClearPatterns, ClearRequests, bridge
  <1>4. CASE CheckUnused(p) \/ OffCall(p) \/ OffReturns(p)
    <2>1. /\ pc[p] \in {"check", "offCall", "offReply"}
          /\ UNCHANGED <<state, cleaned, sessions, closed>>
          /\ \/ cur[p] = NoSession /\ Finish(p, "idle")
             \/ cur[p] # NoSession /\ Goto(p, "drop")
             \/ \E l \in {"offCall", "offReply"} : Goto(p, l)
      BY <1>4 DEF CheckUnused, OffCall, OffReturns, AfterOff, bridge
    <2>2. CleanThread(p)'
      <3>1. CASE cur[p] = NoSession /\ Finish(p, "idle")
        BY <1>0, <2>1, <3>1 DEF CleanThread, CleanupPCs
      <3>2. CASE cur[p] # NoSession /\ Goto(p, "drop")
        BY <1>0, <2>1, <3>2 DEF CleanThread, CleanupPCs
      <3>3. ASSUME NEW l \in {"offCall", "offReply"}, Goto(p, l) PROVE CleanThread(p)'
        BY <1>0, <2>1, <3>3 DEF CleanThread, CleanupPCs
      <3> QED BY <2>1, <3>1, <3>2, <3>3
    <2> QED BY <2>1, <2>2, OneMoved, PagesKept
  <1>5. CASE Drop(p)
    <2>1. /\ cur[p] \in cleaned /\ Goto(p, "remove") /\ UNCHANGED <<state, cleaned, closed>>
          /\ sessions' = sessions \ {cur[p]} /\ pc[p] = "drop"
      BY <1>0, <1>5 DEF Drop, CleanThread, CleanupPCs
    <2>2. CleanThread(p)' /\ CleanPages'
      BY <1>0, <2>1 DEF CleanThread, CleanupPCs, CleanPages
    <2> QED BY <2>1, <2>2, OneMoved
  <1>6. CASE Remove(p)
    <2>1. /\ Finish(p, AfterClose(p)) /\ UNCHANGED <<cleaned, sessions, closed>>
          /\ state' = [state EXCEPT ![cur[p]] = "closed"] /\ pc[p] = "remove"
      BY <1>6 DEF Remove
    <2>2. CleanThread(p)'
      <3>1. AfterClose(p) \in {"idle", "next"}
            /\ (AfterClose(p) = "next" => \E c \in Conns : p = Closer(c))
        BY DEF AfterClose, Threads, Closer, Reader
      <3> QED BY <1>0, <2>1, <3>1 DEF CleanThread, CleanupPCs
    <2>3. CleanPages'
      BY <2>1, PagesKept DEF Bridge
    <2> QED BY <2>1, <2>2, <2>3, OneMoved
  <1> QED BY <1>1, <1>3, <1>4, <1>5, <1>6 DEF CloseRecord

LEMMA ClientCleaning ==
    ASSUME Control, Bridge, Cleaning,
           NEW c \in Conns, Command(c) \/ CloseConnection(c) \/ NextRecord(c)
    PROVE  Cleaning'
  <1> DEFINE h == Handler(c)  k == Closer(c)
  <1>0. /\ h \in Threads /\ k \in Threads /\ (\A d \in Conns : h # Closer(d))
        /\ \A d \in Conns : k = Closer(d) => d = c
    BY ThreadFacts
  <1> HIDE DEF h, k
  <1>1. CASE Command(c)
    <2>1. PICK s \in Sessions, l \in {"setPatterns", "clear", "begin", "owned", "bodyOwned"} :
             Start(c, s, l)
      BY <1>1 DEF Command, StartEnable, StartDisable, StartClose, StartRequest
    <2>2. pc' = [pc EXCEPT ![h] = l] /\ cur' = [cur EXCEPT ![h] = s]
      BY <2>1 DEF Start, h
    <2>3. UNCHANGED <<state, cleaned, sessions, closed>>
      BY <1>1 DEF Command, StartEnable, StartDisable, StartClose, StartRequest, bridge
    <2>4. CleanThread(h)'
      BY <1>0, <2>2 DEF CleanThread, CleanupPCs, Control
    <2> QED BY <1>0, <2>2, <2>3, <2>4, OneMoved, PagesKept DEF Control
  <1>2. CASE CloseConnection(c)
    <2>1. /\ c \notin closed /\ closed' = closed \cup {c} /\ Goto(k, "next")
          /\ state' = [s \in Sessions |-> IF SessionOwned(c, s) THEN "closing" ELSE state[s]]
          /\ UNCHANGED <<cleaned, sessions>>
      BY <1>2 DEF CloseConnection, k
    <2>2. pc[k] = "idle" /\ cur[k] = NoSession
      BY <1>0, <2>1 DEF Cleaning, k
    <2>3. CleanThread(k)'
      BY <1>0, <2>1, <2>2, GoingElse DEF CleanThread, CleanupPCs, k
    <2>4. CleanPages'
      BY <2>1 DEF Cleaning, CleanPages, SessionOwned
    <2> QED BY <1>0, <2>1, <2>3, <2>4, GoingElse, OneMoved
  <1>3. CASE NextRecord(c)
    <2>1. pc[k] = "next" /\ UNCHANGED <<state, cleaned, sessions, closed>>
      BY <1>3 DEF NextRecord, bridge, k
    <2>2. cur[k] = NoSession /\ c \in closed /\ k = Closer(c)
      BY <1>0, <2>1 DEF Cleaning, k
    <2>3. CASE Goto(k, "check")
      <3>1. CleanThread(k)'
        BY <1>0, <2>1, <2>2, <2>3, GoingElse DEF CleanThread, CleanupPCs
      <3> QED BY <1>0, <2>1, <2>3, <3>1, GoingElse, OneMoved, PagesKept
    <2>4. CASE \E s \in Sessions : pc' = [pc EXCEPT ![k] = "begin"] /\ cur' = [cur EXCEPT ![k] = s]
      <3>1. pc'[k] = "begin" /\ \A q \in Threads : q # k => pc'[q] = pc[q] /\ cur'[q] = cur[q]
        BY <1>0, <2>4 DEF Control
      <3>2. CleanThread(k)'
        BY <1>0, <2>1, <2>2, <3>1 DEF CleanThread, CleanupPCs
      <3> QED BY <1>0, <2>1, <3>1, <3>2, OneMoved, PagesKept
    <2> QED BY <1>3, <2>3, <2>4 DEF NextRecord, k
  <1> QED BY <1>1, <1>2, <1>3

LEMMA EventCleaning ==
    ASSUME Control, Bridge, Cleaning,
           \/ \E r \in Requests : TakeRequest(r) \/ TakeIntercepted(r)
           \/ \E s \in Sessions : TakeDetach(s)
           \/ NoteOwner \/ CheckEnabled \/ MatchPatterns \/ Announce
    PROVE  Cleaning'
  <1>0. Reader \in Threads /\ \A c \in Conns : Reader # Closer(c)
    BY ThreadFacts
  <1>1. UNCHANGED <<state, cleaned, sessions, closed>>
    BY DEF TakeRequest, TakeIntercepted, TakeDetach, NoteOwner, CheckEnabled, MatchPatterns, Announce,
           bridge
  <1>2. CASE UNCHANGED threads
    BY <1>1, <1>2, NobodyMoved, PagesKept DEF threads
  <1>3. ASSUME NEW l \in EventPCs \cup {"begin"}, NEW s,
               pc' = [pc EXCEPT ![Reader] = l], cur' = [cur EXCEPT ![Reader] = s]
        PROVE  Cleaning'
    <2>1. pc'[Reader] = l /\ \A q \in Threads : q # Reader => pc'[q] = pc[q] /\ cur'[q] = cur[q]
      BY <1>0, <1>3 DEF Control
    <2>2. CleanThread(Reader)'
      BY <1>0, <2>1 DEF CleanThread, CleanupPCs, EventPCs
    <2> QED BY <1>0, <1>1, <2>1, <2>2, OneMoved, PagesKept
  <1>4. CASE \E l \in EventPCs : Goto(Reader, l)
    <2>1. cur' = [cur EXCEPT ![Reader] = cur[Reader]]
      BY <1>0, <1>4 DEF Goto, Control
    <2> QED BY <1>3, <1>4, <2>1 DEF Goto
  <1>5. CASE Finish(Reader, "idle")
    <2>1. CleanThread(Reader)'
      BY <1>0, <1>5, FinishingElse DEF CleanThread, CleanupPCs
    <2> QED BY <1>0, <1>1, <1>5, <2>1, FinishingElse, OneMoved, PagesKept
  <1>6. CASE \/ \E r \in Requests : TakeRequest(r) \/ TakeIntercepted(r)
             \/ \E s \in Sessions : TakeDetach(s)
    BY <1>2, <1>3, <1>6 DEF TakeRequest, TakeIntercepted, TakeDetach, EventPCs
  <1>7. CASE NoteOwner \/ CheckEnabled \/ MatchPatterns \/ Announce
    BY <1>4, <1>5, <1>7 DEF NoteOwner, CheckEnabled, MatchPatterns, Announce, LetGo, EventPCs
  <1> QED BY <1>6, <1>7

LEMMA CleaningNext == Typed /\ Cleaning /\ [Next]_vars => Cleaning'
  <1> SUFFICES ASSUME Control, Bridge, Cleaning, [Next]_vars PROVE Cleaning'
    BY DEF Typed
  <1>1. CASE UNCHANGED <<state, cleaned, sessions, closed, pc, cur>>
    BY <1>1, NobodyMoved, PagesKept
  <1>2. CASE \/ \E r \in Requests : TakeFailure(r) \/ MakeRequest(r) \/ RequestFails(r)
             \/ \E s \in Sessions : PageDies(s)
             \/ \E r \in Requests, s \in Sessions \cup {NoSession} : Resume(r, s)
             \/ UNCHANGED vars
    BY <1>1, <1>2
       DEF TakeFailure, MakeRequest, RequestFails, PageDies, Resume, vars, bridge, threads
  <1> QED BY <1>2, Steps, FetchCleaning, CleanupCleaning, ClientCleaning, EventCleaning

------------------------------------------------------------------------------
(* What no step does.                                                       *)

\* No request begins or waits twice, and no page is open again.
LEMMA RequestLife ==
    ASSUME Typed, [Next]_vars, NEW q \in Requests
    PROVE  /\ request[q] # "none" => request'[q] # "none"
           /\ request'[q] = "held" => request[q] \in {"none", "held"}
           /\ request[q] = "gone" => request'[q] = "gone"
  <1> USE DEF Typed, World
  <1>0. CASE UNCHANGED request
    BY <1>0
  <1>1. ASSUME NEW r \in Requests, NEW s, Release(s, r)
        PROVE  /\ request[q] # "none" => request'[q] # "none"
               /\ request'[q] = "held" => request[q] \in {"none", "held"}
               /\ request[q] = "gone" => request'[q] = "gone"
    BY <1>1, RequestsAdvance
  <1>2. ASSUME NEW c \in Conns, FetchStep(Handler(c)) PROVE request' = request \/ ActCall(Handler(c))
    BY <1>2 DEF FetchStep, SetFetchPatterns, EnableCall, EnableReturns, ClearFetchPatterns, ReadEnabled,
                DisableCall, DisableReturns, RequestOwned, ActReturns, BodyReturns, browser
  <1>3. ASSUME NEW c \in Conns, ActCall(Handler(c)) PROVE rq[Handler(c)] \in Requests
    BY <1>3, ThreadFacts DEF ActCall, Control, RequestPCs
  <1>4. ASSUME NEW p \in Threads, CloseRecord(p) PROVE request' = request \/ Die(cur[p])
    BY <1>4 DEF CloseRecord, BeginCleanup, PageClose, PageCloseReturns, ClearPatterns, ClearRequests,
                CheckUnused, OffCall, OffReturns, Drop, Remove, browser
  <1>5. ASSUME NEW s, Die(s)
        PROVE  /\ request[q] # "none" => request'[q] # "none"
               /\ request'[q] = "held" => request[q] \in {"none", "held"}
               /\ request[q] = "gone" => request'[q] = "gone"
    BY <1>5 DEF Die
  <1>6. ASSUME NEW r \in Requests, MakeRequest(r) \/ RequestFails(r)
        PROVE  /\ request[q] # "none" => request'[q] # "none"
               /\ request'[q] = "held" => request[q] \in {"none", "held"}
               /\ request[q] = "gone" => request'[q] = "gone"
    BY <1>6 DEF MakeRequest, RequestFails
  <1>7. ASSUME NEW r \in Requests, NEW s \in Sessions \cup {NoSession}, Resume(r, s)
        PROVE  Release(s, r) \/ (request[r] = "held" /\ request' = [request EXCEPT ![r] = "released"])
    BY <1>7 DEF Resume
  <1>8. ASSUME NEW r \in Requests, request[r] = "held",
               request' = [request EXCEPT ![r] = "released"]
        PROVE  /\ request[q] # "none" => request'[q] # "none"
               /\ request'[q] = "held" => request[q] \in {"none", "held"}
               /\ request[q] = "gone" => request'[q] = "gone"
    BY <1>8
  <1>9. CASE \/ \E c \in Conns : Command(c) \/ CloseConnection(c) \/ NextRecord(c)
             \/ \E r \in Requests : TakeRequest(r) \/ TakeIntercepted(r) \/ TakeFailure(r)
             \/ \E s \in Sessions : TakeDetach(s)
             \/ NoteOwner \/ CheckEnabled \/ MatchPatterns \/ Announce \/ UNCHANGED vars
    BY <1>0, <1>9
       DEF Command, StartEnable, StartDisable, StartClose, StartRequest, CloseConnection, NextRecord,
           TakeRequest, TakeIntercepted, TakeFailure, TakeDetach, NoteOwner, CheckEnabled,
           MatchPatterns, Announce, browser, vars
  <1>10. ASSUME NEW c \in Conns, FetchStep(Handler(c))
         PROVE  /\ request[q] # "none" => request'[q] # "none"
                /\ request'[q] = "held" => request[q] \in {"none", "held"}
                /\ request[q] = "gone" => request'[q] = "gone"
    <2>1. CASE ActCall(Handler(c))
      BY <1>0, <1>1, <1>3, <2>1 DEF ActCall
    <2> QED BY <1>0, <1>2, <1>10, <2>1
  <1>11. ASSUME NEW p \in Threads, CloseRecord(p)
         PROVE  /\ request[q] # "none" => request'[q] # "none"
                /\ request'[q] = "held" => request[q] \in {"none", "held"}
                /\ request[q] = "gone" => request'[q] = "gone"
    BY <1>0, <1>4, <1>5, <1>11
  <1>12. ASSUME NEW r \in Requests, NEW s \in Sessions \cup {NoSession}, Resume(r, s)
         PROVE  /\ request[q] # "none" => request'[q] # "none"
                /\ request'[q] = "held" => request[q] \in {"none", "held"}
                /\ request[q] = "gone" => request'[q] = "gone"
    BY <1>1, <1>7, <1>8, <1>12
  <1>13. ASSUME NEW s \in Sessions, PageDies(s) PROVE Die(s)
    BY <1>13 DEF PageDies
  <1> QED BY Steps, <1>5, <1>6, <1>9, <1>10, <1>11, <1>12, <1>13

LEMMA StateLife ==
    ASSUME Typed, [Next]_vars, NEW s \in Sessions, state'[s] = "open" PROVE state[s] = "open"
  <1> USE DEF Typed, Bridge
  <1>1. CASE UNCHANGED state
    BY <1>1
  <1>2. ASSUME NEW p \in Threads, CloseRecord(p)
        PROVE  \/ UNCHANGED state
               \/ \E t, l : l # "open" /\ state' = [state EXCEPT ![t] = l]
    BY <1>2 DEF CloseRecord, BeginCleanup, PageClose, PageCloseReturns, ClearPatterns, ClearRequests,
                CheckUnused, OffCall, OffReturns, Drop, Remove, bridge
  <1>3. ASSUME NEW p \in Threads, CloseRecord(p) PROVE state[s] = "open"
    BY <1>2, <1>3
  <1>4. ASSUME NEW c \in Conns, CloseConnection(c) PROVE state[s] = "open"
    BY <1>4 DEF CloseConnection
  <1>5. ASSUME NEW c \in Conns, Command(c) \/ FetchStep(Handler(c)) \/ NextRecord(c)
        PROVE  UNCHANGED state
    BY <1>5 DEF Command, StartEnable, StartDisable, StartClose, StartRequest, NextRecord, FetchStep,
                SetFetchPatterns, EnableCall, EnableReturns, ClearFetchPatterns, ReadEnabled,
                DisableCall, DisableReturns, RequestOwned, ActCall, ActReturns, BodyReturns, bridge
  <1>6. CASE \/ \E r \in Requests : TakeRequest(r) \/ TakeIntercepted(r) \/ TakeFailure(r)
             \/ \E t \in Sessions : TakeDetach(t) \/ PageDies(t)
             \/ NoteOwner \/ CheckEnabled \/ MatchPatterns \/ Announce \/ UNCHANGED vars
             \/ \E r \in Requests, t \in Sessions \cup {NoSession} : Resume(r, t)
             \/ \E r \in Requests : MakeRequest(r) \/ RequestFails(r)
    BY <1>1, <1>6
       DEF TakeRequest, TakeIntercepted, TakeFailure, TakeDetach, NoteOwner, CheckEnabled, PageDies,
           MatchPatterns, Announce, Resume, MakeRequest, RequestFails, bridge, vars
  <1> QED BY Steps, <1>1, <1>3, <1>4, <1>5, <1>6

\* What the read loop has in hand changes at its own steps only.
LEMMA ReaderMoves ==
    ASSUME Control, [Next]_vars
    PROVE  \/ pc'[Reader] = pc[Reader] /\ cur'[Reader] = cur[Reader] /\ rq'[Reader] = rq[Reader]
           \/ pc'[Reader] \notin EventPCs
           \/ \E r \in Requests : TakeRequest(r) \/ TakeIntercepted(r)
           \/ NoteOwner \/ CheckEnabled \/ MatchPatterns
  <1> DEFINE Still == pc'[Reader] = pc[Reader] /\ cur'[Reader] = cur[Reader]
                      /\ rq'[Reader] = rq[Reader]
  <1>0. Reader \in Threads
    BY ThreadFacts
  <1>1. ASSUME NEW p \in Threads, NEW l,
               Goto(p, l) \/ Finish(p, l) PROVE Still \/ pc'[Reader] = l
    BY <1>0, <1>1 DEF Goto, Finish, Control
  <1>2. ASSUME NEW p \in Threads, NEW l, p # Reader,
               Goto(p, l) \/ Finish(p, l) PROVE Still
    BY <1>0, <1>2 DEF Goto, Finish, Control
  <1>3. CASE UNCHANGED threads
    BY <1>3 DEF threads
  <1>4. ASSUME NEW p \in Threads, CloseRecord(p) PROVE Still \/ pc'[Reader] \notin EventPCs
    <2>1. AfterClose(p) \notin EventPCs
      BY DEF AfterClose, EventPCs
    <2>2. \E l : l \notin EventPCs /\ (Goto(p, l) \/ Finish(p, l))
      BY <1>4, <2>1
         DEF CloseRecord, BeginCleanup, PageClose, PageCloseReturns, ClearPatterns, ClearRequests,
             CheckUnused, OffCall, OffReturns, Drop, Remove, AfterOff, EventPCs
    <2> QED BY <1>1, <2>2
  <1>5. ASSUME NEW c \in Conns, Command(c) PROVE Still
    <2>1. Handler(c) \in Threads /\ Handler(c) # Reader
      BY ThreadFacts
    <2>2. \E l, s, r : /\ pc' = [pc EXCEPT ![Handler(c)] = l] /\ cur' = [cur EXCEPT ![Handler(c)] = s]
                       /\ rq' = rq \/ rq' = [rq EXCEPT ![Handler(c)] = r]
      BY <1>5 DEF Command, StartEnable, StartDisable, StartClose, StartRequest, Start
    <2> QED BY <1>0, <2>1, <2>2 DEF Control
  <1>6. ASSUME NEW c \in Conns, FetchStep(Handler(c)) PROVE Still
    <2>1. Handler(c) \in Threads /\ Handler(c) # Reader
      BY ThreadFacts
    <2>2. CASE ReadEnabled(Handler(c))
      BY <1>0, <2>1, <2>2 DEF ReadEnabled, Control
    <2>3. CASE ~ReadEnabled(Handler(c))
      <3>1. \E l : Goto(Handler(c), l) \/ Finish(Handler(c), l)
        BY <1>6, <2>3
           DEF FetchStep, SetFetchPatterns, EnableCall, EnableReturns, ClearFetchPatterns,
               DisableCall, DisableReturns, RequestOwned, ActCall, ActReturns, BodyReturns
      <3> QED BY <1>2, <2>1, <3>1
    <2> QED BY <2>2, <2>3
  <1>7. ASSUME NEW c \in Conns, CloseConnection(c) \/ NextRecord(c) PROVE Still
    <2>1. Closer(c) \in Threads /\ Closer(c) # Reader
      BY ThreadFacts
    <2>2. CASE \E l : Goto(Closer(c), l)
      BY <1>2, <2>1, <2>2
    <2>3. CASE \E l, s : /\ pc' = [pc EXCEPT ![Closer(c)] = l] /\ cur' = [cur EXCEPT ![Closer(c)] = s]
                         /\ rq' = rq
      BY <1>0, <2>1, <2>3 DEF Control
    <2> QED BY <1>7, <2>2, <2>3 DEF CloseConnection, NextRecord
  <1>8. CASE Announce \/ \E s \in Sessions : TakeDetach(s)
    <2>1. pc'[Reader] \in {"idle", "begin"}
      BY <1>0, <1>8 DEF Announce, TakeDetach, Finish, Control
    <2> QED BY <2>1 DEF EventPCs
  <1>9. CASE \/ \E r \in Requests : TakeFailure(r) \/ MakeRequest(r) \/ RequestFails(r)
             \/ \E s \in Sessions : PageDies(s)
             \/ \E r \in Requests, s \in Sessions \cup {NoSession} : Resume(r, s)
             \/ UNCHANGED vars
    BY <1>3, <1>9 DEF TakeFailure, MakeRequest, RequestFails, PageDies, Resume, vars
  <1> QED BY Steps, <1>4, <1>5, <1>6, <1>7, <1>8, <1>9

\* Nobody owns a request but the session of its page; and the owner of a request is
\* forgotten when the request does not wait or its page is not open.
LEMMA OwnerLife ==
    ASSUME Typed, Cleaning, Reading, Owned, [Next]_vars, NEW r \in Requests
    PROVE  \/ requestOwners'[r] = requestOwners[r]
           \/ requestOwners'[r] = Origin[r]
           \/ requestOwners'[r] = NoSession /\ ~(request[r] = "held" /\ state[Origin[r]] = "open")
  <1> USE DEF Typed, Bridge
  <1>0. CASE UNCHANGED requestOwners
    BY <1>0
  <1>1. ASSUME NEW c \in Conns, FetchStep(Handler(c))
        PROVE  UNCHANGED requestOwners \/ BodyReturns(Handler(c))
    BY <1>1 DEF FetchStep, SetFetchPatterns, EnableCall, EnableReturns, ClearFetchPatterns, ReadEnabled,
                DisableCall, DisableReturns, RequestOwned, ActCall, ActReturns, bridge
  <1>2. ASSUME NEW c \in Conns, BodyReturns(Handler(c))
        PROVE  \/ requestOwners'[r] = requestOwners[r]
               \/ requestOwners'[r] = NoSession /\ request[r] \in {"free", "released"}
    BY <1>2 DEF BodyReturns
  <1>3. ASSUME NEW p \in Threads, CloseRecord(p) PROVE UNCHANGED requestOwners \/ ClearRequests(p)
    BY <1>3 DEF CloseRecord, BeginCleanup, PageClose, PageCloseReturns, ClearPatterns,
                CheckUnused, OffCall, OffReturns, Drop, Remove, bridge
  <1>4. ASSUME NEW p \in Threads, ClearRequests(p)
        PROVE  \/ requestOwners'[r] = requestOwners[r]
               \/ requestOwners'[r] = NoSession /\ state[Origin[r]] # "open"
    <2>1. cur[p] \in cleaned /\ state[cur[p]] # "open"
      BY <1>4 DEF ClearRequests, Cleaning, CleanupPCs
    <2>2. requestOwners[r] \in {NoSession, Origin[r]}
      BY DEF Owned
    <2>3. cur[p] # NoSession
      BY <2>1, FetchAssumption
    <2> QED BY <1>4, <2>1, <2>2, <2>3 DEF ClearRequests, RequestsOf
  <1>5. ASSUME NEW q \in Requests, TakeFailure(q)
        PROVE  \/ requestOwners'[r] = requestOwners[r]
               \/ requestOwners'[r] = NoSession /\ request[r] = "gone"
    BY <1>5 DEF TakeFailure, Owned
  <1>6. CASE NoteOwner
    <2>1. cur[Reader] = Origin[rq[Reader]]
      BY <1>6 DEF NoteOwner, Reading, EventPCs
    <2> QED BY <1>6, <2>1 DEF NoteOwner
  <1>7. CASE \/ \E c \in Conns : Command(c) \/ CloseConnection(c) \/ NextRecord(c)
             \/ \E q \in Requests : TakeRequest(q) \/ TakeIntercepted(q)
             \/ \E s \in Sessions : TakeDetach(s) \/ PageDies(s)
             \/ CheckEnabled \/ MatchPatterns \/ Announce \/ UNCHANGED vars
             \/ \E q \in Requests, s \in Sessions \cup {NoSession} : Resume(q, s)
             \/ \E q \in Requests : MakeRequest(q) \/ RequestFails(q)
    BY <1>0, <1>7
       DEF Command, StartEnable, StartDisable, StartClose, StartRequest, CloseConnection, NextRecord,
           TakeRequest, TakeIntercepted, TakeDetach, PageDies, CheckEnabled, MatchPatterns, Announce,
           Resume, MakeRequest, RequestFails, bridge, vars
  <1> QED BY Steps, <1>0, <1>1, <1>2, <1>3, <1>4, <1>5, <1>6, <1>7

\* So who is to own a waiting request still does after a step.
LEMMA KeptStays ==
    ASSUME Typed, Cleaning, Reading, Owned, [Next]_vars,
           NEW r \in Requests, request[r] # "none", Kept(r)
    PROVE  Kept(r)'
  <1>1. Origin[r] \in Sessions
    BY FetchAssumption
  <1>2. /\ request'[r] = "held" => request[r] = "held"
        /\ state'[Origin[r]] = "open" => state[Origin[r]] = "open"
    BY <1>1, RequestLife, StateLife
  <1> QED BY <1>2, OwnerLife DEF Kept

\* What is announced was in the read loop's hand.
LEMMA PausedLife ==
    ASSUME [Next]_vars
    PROVE  paused' = paused \/ (Announce /\ paused' \subseteq paused \cup {rq[Reader]})
  <1>1. CASE Announce
    BY <1>1 DEF Announce
  <1>2. CASE UNCHANGED history
    BY <1>2 DEF history
  <1>3. ASSUME NEW c \in Conns, Command(c) \/ FetchStep(Handler(c)) PROVE paused' = paused
    BY <1>3 DEF Command, StartEnable, StartDisable, StartClose, StartRequest, FetchStep,
                SetFetchPatterns, EnableCall, EnableReturns, ClearFetchPatterns, ReadEnabled,
                DisableCall, DisableReturns, RequestOwned, ActCall, ActReturns, BodyReturns, history
  <1>4. ASSUME NEW p \in Threads, CloseRecord(p) PROVE paused' = paused
    BY <1>4 DEF CloseRecord, BeginCleanup, PageClose, PageCloseReturns, ClearPatterns, ClearRequests,
                CheckUnused, OffCall, OffReturns, Drop, Remove, history
  <1>5. CASE \/ \E c \in Conns : CloseConnection(c) \/ NextRecord(c)
             \/ \E r \in Requests : TakeRequest(r) \/ TakeIntercepted(r) \/ TakeFailure(r)
             \/ \E s \in Sessions : TakeDetach(s) \/ PageDies(s)
             \/ NoteOwner \/ CheckEnabled \/ MatchPatterns \/ UNCHANGED vars
             \/ \E r \in Requests, s \in Sessions \cup {NoSession} : Resume(r, s)
             \/ \E r \in Requests : MakeRequest(r) \/ RequestFails(r)
    BY <1>5 DEF CloseConnection, NextRecord, TakeRequest, TakeIntercepted, TakeFailure, TakeDetach,
                PageDies, NoteOwner, CheckEnabled, MatchPatterns, Resume, MakeRequest, RequestFails,
                history, vars
  <1> QED BY Steps, <1>1, <1>3, <1>4, <1>5

\* Events are of requests that were made, failures of those that are gone.
LEMMA NewsLife ==
    ASSUME Typed, [Next]_vars, NEW r \in Requests
    PROVE  /\ r \in news' => r \in news \/ request'[r] # "none"
           /\ r \in failures' => r \in failures \/ request'[r] = "gone"
  <1> USE DEF Typed, World
  <1>0. CASE UNCHANGED <<news, failures>>
    BY <1>0
  <1>1. ASSUME NEW c \in Conns, Command(c) \/ FetchStep(Handler(c)) PROVE UNCHANGED <<news, failures>>
    BY <1>1 DEF Command, StartEnable, StartDisable, StartClose, StartRequest, FetchStep,
                SetFetchPatterns, EnableCall, EnableReturns, ClearFetchPatterns, ReadEnabled,
                DisableCall, DisableReturns, RequestOwned, ActCall, ActReturns, BodyReturns, browser
  <1>2. ASSUME NEW p \in Threads, CloseRecord(p) PROVE UNCHANGED <<news, failures>>
    BY <1>2 DEF CloseRecord, BeginCleanup, PageClose, PageCloseReturns, ClearPatterns, ClearRequests,
                CheckUnused, OffCall, OffReturns, Drop, Remove, browser
  <1>3. ASSUME NEW q \in Requests, TakeRequest(q) \/ TakeIntercepted(q) \/ TakeFailure(q)
        PROVE  news' \subseteq news /\ failures' \subseteq failures
    BY <1>3 DEF TakeRequest, TakeIntercepted, TakeFailure
  <1>4. ASSUME NEW q \in Requests, MakeRequest(q)
        PROVE  news' = news \cup {q} /\ failures' = failures /\ request'[q] # "none"
    BY <1>4 DEF MakeRequest
  <1>5. ASSUME NEW q \in Requests, RequestFails(q)
        PROVE  failures' = failures \cup {q} /\ news' = news /\ request'[q] = "gone"
    BY <1>5 DEF RequestFails
  <1>6. CASE \/ \E c \in Conns : CloseConnection(c) \/ NextRecord(c)
             \/ \E s \in Sessions : TakeDetach(s) \/ PageDies(s)
             \/ NoteOwner \/ CheckEnabled \/ MatchPatterns \/ Announce \/ UNCHANGED vars
             \/ \E q \in Requests, s \in Sessions \cup {NoSession} : Resume(q, s)
    BY <1>0, <1>6 DEF CloseConnection, NextRecord, TakeDetach, PageDies, NoteOwner, CheckEnabled,
                MatchPatterns, Announce, Resume, browser, vars
  <1> QED BY Steps, <1>0, <1>1, <1>2, <1>3, <1>4, <1>5, <1>6

------------------------------------------------------------------------------
(* Requests put before a client: the steps.                                 *)

\* The read loop goes to its next question about the same request.
LEMMA ReaderGoes ==
    ASSUME Control, NEW l, Goto(Reader, l)
    PROVE  pc'[Reader] = l /\ cur'[Reader] = cur[Reader] /\ rq'[Reader] = rq[Reader]
  BY ThreadFacts DEF Control, Goto

LEMMA ReaderEnds ==
    ASSUME Control, Finish(Reader, "idle") PROVE pc'[Reader] \notin EventPCs
  BY ThreadFacts DEF Control, Finish, EventPCs

LEMMA ReaderTakes ==
    ASSUME Control, NEW r \in Requests, TakeRequest(r) \/ TakeIntercepted(r)
    PROVE  \/ UNCHANGED threads
           \/ /\ rq'[Reader] = r /\ r \in news
              /\ \/ pc'[Reader] = "note" /\ cur'[Reader] = Origin[r]
                 \/ pc'[Reader] = "enabled" /\ cur'[Reader] = NoSession
  <1>1. Reader \in Threads /\ Origin[r] # NoSession
    BY ThreadFacts, FetchAssumption
  <1>2. CASE TakeRequest(r)
    BY <1>1, <1>2 DEF Control, TakeRequest, Resolved
  <1>3. CASE TakeIntercepted(r)
    BY <1>1, <1>3 DEF Control, TakeIntercepted, Resolved, ForFrame
  <1> QED BY <1>2, <1>3

\* Interception is asked for in the name of a session.
LEMMA EnabledIsOrigin ==
    ASSUME Typed, Reading, pc[Reader] = "enabled", FetchEnabledForSession(cur[Reader])
    PROVE  cur[Reader] = Origin[rq[Reader]] /\ fetchPatterns[Origin[rq[Reader]]] # NoPatterns
  BY FetchAssumption DEF Reading, EventPCs, FetchEnabledForSession

LEMMA ReadingNext == ASSUME Typed, Reading, Owned, [Next]_vars PROVE Reading'
  <1>0. Control /\ Control'
    BY TypedNext DEF Typed
  <1>1. pc'[Reader] \in EventPCs => rq'[Reader] \in Requests
    BY <1>0, ThreadFacts DEF Control, RequestPCs
  <1>2. CASE /\ cur'[Reader] = cur[Reader] /\ rq'[Reader] = rq[Reader] /\ pc[Reader] \in EventPCs
             /\ pc'[Reader] = "enabled" /\ cur[Reader] = NoSession => pc[Reader] = "enabled"
             /\ pc'[Reader] # "enabled" => cur[Reader] # NoSession
    BY <1>1, <1>2, RequestLife, FetchAssumption DEF Reading
  <1>3. CASE pc'[Reader] = pc[Reader] /\ cur'[Reader] = cur[Reader] /\ rq'[Reader] = rq[Reader]
    BY <1>1, <1>3, RequestLife DEF Reading
  <1>4. CASE pc'[Reader] \notin EventPCs
    BY <1>4 DEF Reading
  <1>5. ASSUME NEW r \in Requests, TakeRequest(r) \/ TakeIntercepted(r) PROVE Reading'
    <2>1. request[r] # "none" => request'[r] # "none"
      BY RequestLife
    <2>2. r \in news => request[r] # "none"
      BY DEF Owned
    <2> QED BY <1>0, <1>3, <1>5, <2>1, <2>2, ReaderTakes DEF Reading, threads
  <1>6. CASE NoteOwner
    <2>1. /\ pc[Reader] = "note" /\ \E l \in {"match", "enabled"} : Goto(Reader, l)
          /\ cur[Reader] # NoSession
      BY <1>6, FetchAssumption, <1>0, ThreadFacts
         DEF NoteOwner, Reading, EventPCs, Control, RequestPCs
    <2> QED BY <1>0, <1>2, <2>1, ReaderGoes DEF EventPCs
  <1>7. CASE CheckEnabled
    <2>1. CASE Goto(Reader, "match") /\ FetchEnabledForSession(cur[Reader])
      BY <1>0, <1>2, <1>7, <2>1, ReaderGoes, FetchAssumption
         DEF CheckEnabled, EventPCs, FetchEnabledForSession
    <2> QED BY <1>0, <1>4, <1>7, <2>1, ReaderEnds DEF CheckEnabled, LetGo
  <1>8. CASE MatchPatterns
    <2>1. CASE Goto(Reader, "announce")
      <3>1. rq[Reader] \in Requests /\ Origin[rq[Reader]] # NoSession
        BY <1>0, <1>8, ThreadFacts, FetchAssumption DEF MatchPatterns, Control, RequestPCs, EventPCs
      <3> QED BY <1>0, <1>2, <1>8, <2>1, <3>1, ReaderGoes DEF MatchPatterns, EventPCs, Reading
    <2> QED BY <1>0, <1>4, <1>8, <2>1, ReaderEnds DEF MatchPatterns, LetGo
  <1> QED BY <1>0, <1>3, <1>4, <1>5, <1>6, <1>7, <1>8, ReaderMoves

LEMMA PatternsLife ==
    ASSUME Typed, [Next]_vars
    PROVE  /\ asked \subseteq asked' /\ byFrame \subseteq byFrame'
           /\ \A r \in Requests : fetchPatterns'[Origin[r]] # NoPatterns =>
                 fetchPatterns[Origin[r]] # NoPatterns \/ r \in asked'
  <1> USE DEF Typed, Bridge
  <1>0. CASE UNCHANGED <<fetchPatterns, asked>> /\ byFrame \subseteq byFrame'
    BY <1>0
  <1>1. ASSUME NEW p, SetFetchPatterns(p)
        PROVE  /\ asked \subseteq asked' /\ byFrame \subseteq byFrame'
               /\ \A r \in Requests : fetchPatterns'[Origin[r]] # NoPatterns =>
                     fetchPatterns[Origin[r]] # NoPatterns \/ r \in asked'
    BY <1>1, FetchAssumption DEF SetFetchPatterns, browser
  <1>2. ASSUME NEW p, ClearFetchPatterns(p) \/ ClearPatterns(p)
        PROVE  /\ asked \subseteq asked' /\ byFrame \subseteq byFrame'
               /\ \A r \in Requests : fetchPatterns'[Origin[r]] # NoPatterns =>
                     fetchPatterns[Origin[r]] # NoPatterns \/ r \in asked'
    BY <1>2, FetchAssumption DEF ClearFetchPatterns, ClearPatterns, browser, history
  <1>3. ASSUME NEW c \in Conns, Command(c) \/ FetchStep(Handler(c)) \/ CloseConnection(c) \/ NextRecord(c)
        PROVE  \/ UNCHANGED <<fetchPatterns, asked>> /\ byFrame \subseteq byFrame'
               \/ \E p : SetFetchPatterns(p) \/ ClearFetchPatterns(p)
    BY <1>3 DEF Command, StartEnable, StartDisable, StartClose, StartRequest, FetchStep,
                CloseConnection, NextRecord, EnableCall, EnableReturns, ReadEnabled,
                DisableCall, DisableReturns, RequestOwned, ActCall, ActReturns, BodyReturns,
                bridge, browser, history
  <1>4. ASSUME NEW p \in Threads, CloseRecord(p)
        PROVE  \/ UNCHANGED <<fetchPatterns, asked>> /\ byFrame \subseteq byFrame'
               \/ ClearPatterns(p)
    BY <1>4 DEF CloseRecord, BeginCleanup, PageClose, PageCloseReturns, ClearRequests,
                CheckUnused, OffCall, OffReturns, Drop, Remove, bridge, browser, history
  <1>5. CASE \/ \E r \in Requests : TakeRequest(r) \/ TakeIntercepted(r) \/ TakeFailure(r)
             \/ \E s \in Sessions : TakeDetach(s) \/ PageDies(s)
             \/ NoteOwner \/ CheckEnabled \/ MatchPatterns \/ Announce \/ UNCHANGED vars
             \/ \E r \in Requests, s \in Sessions \cup {NoSession} : Resume(r, s)
             \/ \E r \in Requests : MakeRequest(r) \/ RequestFails(r)
    <2>1. UNCHANGED <<fetchPatterns, asked>>
      BY <1>5 DEF TakeRequest, TakeIntercepted, TakeFailure, TakeDetach, PageDies, NoteOwner,
                  CheckEnabled, MatchPatterns, Announce, Resume, MakeRequest, RequestFails, bridge,
                  history, vars
    <2>2. byFrame \subseteq byFrame'
      BY <1>5 DEF TakeRequest, TakeIntercepted, TakeFailure, TakeDetach, PageDies, NoteOwner,
                  CheckEnabled, MatchPatterns, Announce, Resume, MakeRequest, RequestFails, browser,
                  vars
    <2> QED BY <1>0, <2>1, <2>2
  <1> QED BY Steps, <1>0, <1>1, <1>2, <1>3, <1>4, <1>5

LEMMA AskedNext == ASSUME Typed, Reading, Asked, [Next]_vars PROVE Asked'
  <1>0. Control /\ \A q \in asked \cup byFrame : q \in asked' \cup byFrame'
    BY PatternsLife DEF Typed
  <1>1. \A r \in Requests : fetchPatterns'[Origin[r]] # NoPatterns => r \in asked'
    BY <1>0, PatternsLife DEF Asked
  <1>2. paused' \subseteq asked' \cup byFrame'
    <2>1. Announce => rq[Reader] \in asked \cup byFrame
      BY DEF Announce, Asked
    <2> QED BY <1>0, <2>1, PausedLife DEF Asked
  <1>3. pc'[Reader] \in {"match", "announce"} => rq'[Reader] \in asked' \cup byFrame'
    <2> SUFFICES ASSUME pc'[Reader] \in {"match", "announce"}
                 PROVE  rq'[Reader] \in asked' \cup byFrame'
      OBVIOUS
    <2>0. pc'[Reader] \in EventPCs
      BY DEF EventPCs
    <2>1. CASE pc'[Reader] = pc[Reader] /\ rq'[Reader] = rq[Reader]
      BY <1>0, <2>1 DEF Asked
    <2>2. ASSUME NEW r \in Requests, TakeRequest(r) \/ TakeIntercepted(r)
          PROVE  rq'[Reader] \in asked' \cup byFrame'
      BY <1>0, <2>1, <2>2, ReaderTakes DEF threads
    <2>3. CASE NoteOwner
      <3>1. CASE rq[Reader] \in byFrame /\ Goto(Reader, "match")
        BY <1>0, <3>1, ReaderGoes
      <3>2. CASE Goto(Reader, "enabled")
        BY <1>0, <3>2, ReaderGoes
      <3> QED BY <2>3, <3>1, <3>2 DEF NoteOwner
    <2>4. CASE CheckEnabled
      <3>1. CASE Goto(Reader, "match") /\ FetchEnabledForSession(cur[Reader])
        <4>1. rq[Reader] \in Requests
          BY <1>0, <2>4, ThreadFacts DEF CheckEnabled, Control, RequestPCs, EventPCs
        <4>2. rq[Reader] \in asked
          BY <2>4, <3>1, <4>1, EnabledIsOrigin DEF CheckEnabled, Asked
        <4> QED BY <1>0, <3>1, <4>2, ReaderGoes
      <3> QED BY <1>0, <2>0, <2>4, <3>1, ReaderEnds DEF CheckEnabled, LetGo
    <2>5. CASE MatchPatterns
      <3>1. CASE Goto(Reader, "announce")
        BY <1>0, <2>5, <3>1, ReaderGoes DEF MatchPatterns, Asked
      <3> QED BY <1>0, <2>0, <2>5, <3>1, ReaderEnds DEF MatchPatterns, LetGo
    <2> QED BY <1>0, <2>0, <2>1, <2>2, <2>3, <2>4, <2>5, ReaderMoves
  <1> QED BY <1>1, <1>2, <1>3 DEF Asked

LEMMA OwnedNext == ASSUME Typed, Cleaning, Reading, Owned, [Next]_vars PROVE Owned'
  <1>0. Control /\ Control' /\ Bridge'
    BY TypedNext DEF Typed
  <1>1. ASSUME NEW r \in Requests
        PROVE  /\ requestOwners'[r] \in {NoSession, Origin[r]}
               /\ r \in news' => request'[r] # "none"
               /\ r \in failures' => request'[r] = "gone"
    BY OwnerLife, NewsLife, RequestLife DEF Owned
  <1>2. ASSUME pc[Reader] \in EventPCs
        PROVE  rq[Reader] \in Requests /\ request[rq[Reader]] # "none"
    BY <1>0, <1>2, ThreadFacts DEF Control, RequestPCs, Reading
  <1>3. ASSUME NEW r \in paused' PROVE request'[r] # "none" /\ Kept(r)'
    <2>1. r \in Requests
      BY <1>0 DEF Bridge
    <2>2. request[r] # "none" /\ Kept(r)
      <3>1. CASE r \in paused
        BY <2>1, <3>1 DEF Owned
      <3>2. CASE Announce /\ r = rq[Reader]
        <4>1. cur[Reader] # NoSession
          BY <2>1, <3>2, FetchAssumption DEF Announce, Reading, EventPCs
        <4> QED BY <1>2, <3>2, <4>1 DEF Announce, EventPCs, Owned
      <3> QED BY <3>1, <3>2, PausedLife
    <2> QED BY <2>1, <2>2, KeptStays, RequestLife
  <1>4. ASSUME pc'[Reader] \in EventPCs \ {"note"}, cur'[Reader] # NoSession PROVE Kept(rq[Reader])'
    <2>1. CASE /\ pc[Reader] \in EventPCs \ {"note"}
               /\ cur'[Reader] = cur[Reader] /\ rq'[Reader] = rq[Reader]
      <3>1. Kept(rq[Reader])
        BY <1>4, <2>1 DEF Owned
      <3> QED BY <1>2, <2>1, <3>1, KeptStays DEF Kept
    <2>2. ASSUME NEW r \in Requests, TakeRequest(r) \/ TakeIntercepted(r)
          PROVE  UNCHANGED threads
      BY <1>0, <1>4, <2>2, ReaderTakes
    <2>3. CASE NoteOwner
      <3>1. /\ pc[Reader] = "note" /\ cur[Reader] = Origin[rq[Reader]] /\ rq[Reader] \in Requests
            /\ requestOwners' = [requestOwners EXCEPT ![rq[Reader]] = cur[Reader]]
            /\ \E l : Goto(Reader, l)
        BY <1>2, <2>3 DEF NoteOwner, Reading, EventPCs
      <3>2. requestOwners'[rq[Reader]] = Origin[rq[Reader]] /\ rq'[Reader] = rq[Reader]
        BY <1>0, <3>1, ReaderGoes DEF Typed, Bridge
      <3> QED BY <3>2 DEF Kept
    <2>4. CASE CheckEnabled \/ MatchPatterns
      <3>1. \/ Finish(Reader, "idle")
            \/ pc[Reader] \in EventPCs \ {"note"} /\ \E l : Goto(Reader, l)
        BY <2>4 DEF CheckEnabled, MatchPatterns, LetGo, EventPCs
      <3> QED BY <1>0, <1>4, <2>1, <3>1, ReaderGoes, ReaderEnds
    <2>5. CASE pc'[Reader] = pc[Reader] /\ cur'[Reader] = cur[Reader] /\ rq'[Reader] = rq[Reader]
      BY <1>4, <2>1, <2>5
    <2> QED BY <1>0, <1>4, <2>2, <2>3, <2>4, <2>5, ReaderMoves DEF threads
  <1> QED BY <1>1, <1>3, <1>4 DEF Owned, Kept

RequestsSafe == Typed /\ Cleaning /\ Reading /\ Asked /\ Owned

LEMMA SafeInit == Init => RequestsSafe
  <1>1. Init => Reading /\ Asked /\ Owned
    BY ThreadFacts, FetchAssumption DEF Init, Reading, Asked, Owned, Kept, EventPCs
  <1> QED BY <1>1, TypedInit, CleaningInit DEF RequestsSafe

LEMMA SafeNext == RequestsSafe /\ [Next]_vars => RequestsSafe'
  BY TypedNext, CleaningNext, ReadingNext, AskedNext, OwnedNext DEF RequestsSafe

\* Only a client that enabled Fetch for a page is told of its paused requests, though the
\* browser stops those of a whole context: the read loop asks for the patterns of the
\* page's session, which SetFetchPatterns alone can have put there.
THEOREM AskedBefore == Spec => []OnlyEnabledArePaused
  <1>1. RequestsSafe => OnlyEnabledArePaused
    BY DEF RequestsSafe, Asked, OnlyEnabledArePaused
  <1> QED BY <1>1, SafeInit, SafeNext, PTL DEF Spec

\* A client can answer a request it was told of while the request waits and its page is
\* open: requestOwners forgets the request only when it waits no more, or with its page,
\* whose cleanup touches the requests of its own session.
THEOREM PausedAnswerable == Spec => []AnswerableWhilePaused
  <1>1. RequestsSafe => AnswerableWhilePaused
    BY DEF RequestsSafe, Typed, Bridge, Owned, Kept, AnswerableWhilePaused
  <1> QED BY <1>1, SafeInit, SafeNext, PTL DEF Spec

------------------------------------------------------------------------------
(* The only client: the steps.                                              *)

LEMMA InterceptingInit == Init => Intercepting
  BY ThreadFacts DEF Init, Intercepting

LEMMA AloneFacts ==
    ASSUME Typed, Cleaning, NEW c \in Conns, Undisturbed(c), Sessions # {}
    PROVE  /\ cleaned = {} /\ sessions = Sessions /\ c \notin closed /\ closed = {}
           /\ \A s \in Sessions : CallContext(s) = Context[s] /\ Owner[s] = c
           /\ \A p \in Threads : pc[p] \notin CleanupPCs \ {"begin"}
           /\ pc[Closer(c)] = "idle"
  <1>1. cleaned = {} /\ sessions = Sessions
    BY DEF Typed, Bridge, Cleaning, Undisturbed
  <1>2. \A s \in Sessions : CallContext(s) = Context[s] /\ Owner[s] = c
    BY <1>1, FetchAssumption DEF CallContext, Undisturbed
  <1>3. c \notin closed /\ closed = {}
    BY <1>2 DEF Typed, Bridge, Cleaning, Undisturbed
  <1>4. \A p \in Threads : pc[p] \notin CleanupPCs \ {"begin"}
    BY <1>1, <1>3 DEF Cleaning, Undisturbed, CleanupPCs
  <1>5. pc[Closer(c)] = "idle"
    BY <1>3 DEF Cleaning
  <1> QED BY <1>1, <1>2, <1>3, <1>4, <1>5

\* What Intercepting says of the handler h of the only client.
LitFor(h) ==
    /\ \A s \in Sessions : fetchPatterns[s] # NoPatterns =>
          switch[Context[s]] \/ (pc[h] \in {"enableCall", "unset"} /\ s = cur[h])
    /\ pc[h] = "setCall" => on[h] = FetchInterceptionEnabled

LEMMA FetchIntercepting ==
    ASSUME Typed, Cleaning, NEW c \in Conns, Undisturbed(c), Sessions # {},
           LitFor(Handler(c)), FetchStep(Handler(c))
    PROVE  LitFor(Handler(c))'
  <1> DEFINE h == Handler(c)
  <1> SUFFICES LitFor(h)'
    OBVIOUS
  <1>0. h \in Threads /\ LitFor(h)
    BY ThreadFacts
  <1> HIDE DEF h
  <1>1. /\ pc \in [Threads -> PCs] /\ cur \in [Threads -> Sessions \cup {NoSession}]
        /\ on \in [Threads -> BOOLEAN] /\ switch \in [Contexts -> BOOLEAN]
        /\ fetchPatterns \in [Sessions -> PatternSets \cup {NoPatterns}]
        /\ \A s \in Sessions : CallContext(s) = Context[s] /\ Context[s] \in Contexts
        /\ pc[h] \in FetchPCs => cur[h] \in Sessions
    BY <1>0, AloneFacts, FetchAssumption, PCFacts DEF Typed, Control, World, Bridge
  <1>2. ASSUME NEW l, Goto(h, l) PROVE pc'[h] = l /\ UNCHANGED <<cur, on>>
    BY <1>0, <1>1, <1>2 DEF Goto
  <1>3. ASSUME Finish(h, "idle") PROVE pc'[h] = "idle"
    BY <1>0, <1>1, <1>3 DEF Finish
  <1> USE <1>0, <1>1 DEF LitFor, FetchPCs
  <1>4. CASE SetFetchPatterns(h)
    BY <1>2, <1>4 DEF SetFetchPatterns, browser
  <1>5. CASE EnableCall(h)
    BY <1>2, <1>5 DEF EnableCall, bridge
  <1>6. CASE EnableReturns(h)
    BY <1>2, <1>3, <1>6 DEF EnableReturns, bridge, browser
  <1>7. CASE ClearFetchPatterns(h)
    BY <1>2, <1>3, <1>7 DEF ClearFetchPatterns, browser
  <1>8. CASE ReadEnabled(h)
    <2>1. /\ pc[h] = "readOn" /\ pc'[h] = "setCall" /\ on'[h] = FetchInterceptionEnabled
          /\ UNCHANGED <<fetchPatterns, switch>>
      BY <1>8 DEF ReadEnabled, SwitchOnDisable, FetchInterceptionEnabled, bridge, browser
    <2> QED BY <2>1 DEF FetchInterceptionEnabled
  <1>9. CASE DisableCall(h)
    <2>1. /\ pc[h] = "setCall" /\ pc'[h] = "setReply" /\ UNCHANGED fetchPatterns
          /\ \/ switch' = [switch EXCEPT ![Context[cur[h]]] = on[h]]
             \/ UNCHANGED switch
          /\ on[h] = FetchInterceptionEnabled
      BY <1>2, <1>9 DEF DisableCall, SetSwitch, bridge
    <2> QED BY <2>1 DEF FetchInterceptionEnabled
  <1>10. CASE DisableReturns(h) \/ RequestOwned(h) \/ ActCall(h) \/ ActReturns(h) \/ BodyReturns(h)
    <2>1. /\ UNCHANGED <<fetchPatterns, switch>>
          /\ pc'[h] \notin {"enableCall", "unset", "setCall"}
          /\ pc[h] \notin {"enableCall", "unset", "setCall"}
      BY <1>2, <1>3, <1>10
         DEF DisableReturns, RequestOwned, ActCall, ActReturns, BodyReturns, bridge, browser
    <2> QED BY <2>1
  <1> QED BY <1>4, <1>5, <1>6, <1>7, <1>8, <1>9, <1>10 DEF FetchStep, h

LEMMA InterceptingNext == ASSUME Typed, Cleaning, Intercepting, [Next]_vars PROVE Intercepting'
  <1> SUFFICES ASSUME NEW c \in Conns, Undisturbed(c)' PROVE LitFor(Handler(c))'
    BY DEF Intercepting, LitFor
  <1> DEFINE h == Handler(c)
  <1>0. h \in Threads /\ Reader \in Threads /\ h # Reader /\ Control /\ Control'
    BY ThreadFacts, TypedNext DEF Typed
  <1>1. CASE Sessions = {}
    <2>1. pc'[h] # "setCall"
      BY <1>0, <1>1 DEF Control, PagePCs, FetchPCs
    <2> QED BY <1>1, <2>1 DEF LitFor
  <1>2. CASE Sessions # {}
    <2> SUFFICES LitFor(h)'
      OBVIOUS
    <2>0. Undisturbed(c) /\ LitFor(h) /\ Conns = {c}
      BY StateLife DEF Undisturbed, Intercepting, LitFor
    <2> HIDE DEF h
    <2>1. ASSUME UNCHANGED <<fetchPatterns, switch>>,
                 pc'[h] = pc[h], cur'[h] = cur[h], on'[h] = on[h]
          PROVE  LitFor(h)'
      BY <2>0, <2>1 DEF LitFor, FetchInterceptionEnabled
    <2>2. CASE Command(c)
      <3>1. /\ pc[h] = "idle"
            /\ \E l \in {"setPatterns", "clear", "begin", "owned", "bodyOwned"} :
                  pc' = [pc EXCEPT ![h] = l]
            /\ UNCHANGED <<fetchPatterns, switch>>
        BY <2>2 DEF Command, StartEnable, StartDisable, StartClose, StartRequest, Start, bridge,
                    browser, h
      <3>2. pc'[h] \in {"setPatterns", "clear", "begin", "owned", "bodyOwned"}
        BY <1>0, <3>1 DEF Control
      <3> QED BY <2>0, <3>1, <3>2 DEF LitFor
    <2>3. CASE FetchStep(Handler(c))
      BY <1>2, <2>0, <2>3, FetchIntercepting DEF h
    <2>4. ASSUME NEW p \in Threads, CloseRecord(p) PROVE FALSE
      <3>1. BeginCleanup(p)
        BY <1>2, <2>0, <2>4, AloneFacts
           DEF CloseRecord, PageClose, PageCloseReturns, ClearPatterns, ClearRequests,
               CheckUnused, OffCall, OffReturns, Drop, Remove, CleanupPCs
      <3>2. cur[p] \in Sessions /\ cur[p] \notin cleaned
        BY <1>0, <1>2, <2>0, <3>1, AloneFacts DEF BeginCleanup, Control, PagePCs, CleanupPCs
      <3>3. state'[cur[p]] = "closing"
        BY <3>1, <3>2 DEF BeginCleanup, Typed, Bridge
      <3> QED BY <3>2, <3>3 DEF Undisturbed
    <2>5. ~CloseConnection(c) /\ ~NextRecord(c)
      <3>1. PICK s \in Sessions : TRUE
        BY <1>2
      <3>2. Owner[s] = c /\ state[s] = "open" /\ state'[s] = "open" /\ pc[Closer(c)] = "idle"
        BY <1>2, <2>0, AloneFacts DEF Undisturbed
      <3> QED BY <3>2 DEF CloseConnection, NextRecord, SessionOwned
    <2>6. CASE \/ \E r \in Requests : TakeRequest(r) \/ TakeIntercepted(r)
               \/ \E s \in Sessions : TakeDetach(s)
               \/ NoteOwner \/ CheckEnabled \/ MatchPatterns \/ Announce
      <3>1. UNCHANGED <<fetchPatterns, switch>>
        BY <2>6 DEF TakeRequest, TakeIntercepted, TakeDetach, NoteOwner, CheckEnabled, MatchPatterns,
                    Announce, bridge, browser
      <3>2. pc'[h] = pc[h] /\ cur'[h] = cur[h] /\ on'[h] = on[h]
        <4>1. ASSUME NEW l, Goto(Reader, l) \/ Finish(Reader, l)
              PROVE  pc'[h] = pc[h] /\ cur'[h] = cur[h] /\ on'[h] = on[h]
          BY <1>0, <4>1 DEF Goto, Finish, Control
        <4>2. ASSUME NEW r \in Requests, TakeRequest(r) \/ TakeIntercepted(r)
              PROVE  pc'[h] = pc[h] /\ cur'[h] = cur[h] /\ on'[h] = on[h]
          BY <1>0, <4>2 DEF TakeRequest, TakeIntercepted, threads, Control
        <4>3. ASSUME NEW s \in Sessions, TakeDetach(s)
              PROVE  pc'[h] = pc[h] /\ cur'[h] = cur[h] /\ on'[h] = on[h]
          BY <1>0, <4>3 DEF TakeDetach, Control
        <4> QED BY <2>6, <4>1, <4>2, <4>3
                DEF NoteOwner, CheckEnabled, MatchPatterns, Announce, LetGo
      <3> QED BY <2>1, <3>1, <3>2
    <2>7. CASE \/ \E r \in Requests : TakeFailure(r) \/ MakeRequest(r) \/ RequestFails(r)
               \/ \E s \in Sessions : PageDies(s)
               \/ \E r \in Requests, s \in Sessions \cup {NoSession} : Resume(r, s)
               \/ UNCHANGED vars
      <3>1. UNCHANGED <<fetchPatterns, switch, pc, cur, on>>
        BY <2>7 DEF TakeFailure, MakeRequest, RequestFails, PageDies, Resume, vars, bridge, browser,
                    threads
      <3> QED BY <2>1, <3>1
    <2> QED BY Steps, <2>0, <2>2, <2>3, <2>4, <2>5, <2>6, <2>7 DEF h
  <1> QED BY <1>1, <1>2

\* With one client, whose pages are open and who waits for no answer, every context with a
\* session that has patterns is intercepted: Fetch.disable of one page, or a Fetch.enable
\* that failed, leaves the switch on while another session still wants it.
THEOREM SoleIntercepts == Spec => []SoleClientIntercepts
  <1> DEFINE Inv == Typed /\ Cleaning /\ Intercepting
  <1>1. Inv => SoleClientIntercepts
    <2> SUFFICES ASSUME Typed, Intercepting, Cardinality(Conns) = 1,
                        \A s \in Sessions : state[s] = "open",
                        \A c \in Conns : pc[Handler(c)] = "idle",
                        NEW s \in Sessions, fetchPatterns[s] # NoPatterns
                 PROVE  switch[Context[s]]
      BY DEF SoleClientIntercepts
    <2>1. PICK c : Conns = {c}
      <3>1. IsFiniteSet(Conns)
        BY FetchAssumption
      <3> QED BY <3>1, FS_Singleton
    <2> QED BY <2>1 DEF Intercepting, Undisturbed
  <1>2. Init => Inv
    BY TypedInit, CleaningInit, InterceptingInit
  <1>3. Inv /\ [Next]_vars => Inv'
    BY TypedNext, CleaningNext, InterceptingNext
  <1> QED BY <1>1, <1>2, <1>3, PTL DEF Spec
==============================================================================
