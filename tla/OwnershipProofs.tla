--------------------------- MODULE OwnershipProofs ---------------------------
(***************************************************************************)
(* Theorems about page ownership and the end of a page, for every set of   *)
(* connections and of pages, every opener relation and both kinds of       *)
(* backend:                                                                *)
(*   TypeCorrect     every variable keeps its type                         *)
(*   OwnersAreLive   no page or claim of a client outlives its connection  *)
(*   LeaseHolds      the registry implements Lease when no page is a popup *)
(*   ClosersFound    a closing record has one who removes it               *)
(*   NothingStays    nothing is left behind of a closed page               *)
(*   EventsInOrder   the events of a page are sent once and in order       *)
(***************************************************************************)
EXTENDS Ownership, FiniteSetTheorems, TLAPS

------------------------------------------------------------------------------
(* Threads and program counters.                                            *)

LEMMA ThreadFacts ==
    /\ Reader \in Threads
    /\ \A c \in Conns : Handler(c) \in Threads /\ Closer(c) \in Threads
    /\ \A c \in Conns : Handler(c) # Reader /\ Closer(c) # Reader
  BY DEF Reader, Threads, Handler, Closer

LEMMA HandlersAreNotClosers == \A c, d \in Conns : Handler(c) # Closer(d)
  BY DEF Handler, Closer

\* The program counters at which a thread has a page in hand.
HasPage == {"reply", "claim", "found", "waiting", "navigate", "attachTo"}
             \cup ClosePCs \cup PublishPCs \cup AttachPCs

LEMMA PcFacts ==
    /\ HasPage \subseteq PCs
    /\ {"idle", "snapshot", "next", "newPage", "finish"} \subseteq PCs \ HasPage
  BY DEF HasPage, PCs, CreatePCs, ClosePCs, PublishPCs, AttachPCs

------------------------------------------------------------------------------
(* Type correctness.  The threads and the rest are typed apart.             *)

CurOK == \A p \in Threads : pc[p] \in HasPage => cur[p] \in Targets

Control ==
    /\ pc \in [Threads -> PCs]
    /\ op \in [Threads -> Ops]
    /\ cur \in [Threads -> Targets \cup {NoTarget}]
    /\ own \in [Threads -> Conns \cup {NoConn}]
    /\ todo \in [Threads -> SUBSET Targets]
    /\ CurOK

Data ==
    /\ closed \subseteq Conns /\ discover \subseteq Conns /\ autoAttach \subseteq Conns
    /\ pending \subseteq Conns
    /\ claim \in [Targets -> Conns \cup {NoConn}]
    /\ cancelledTargets \subseteq Targets
    /\ state \in [Targets -> {"none", "open", "closing", "closed"}]
    /\ owner \in [Targets -> Conns \cup {NoConn}]
    /\ cancelled \subseteq Targets /\ cleaned \subseteq Targets
    /\ sessions \subseteq Targets /\ pairs \subseteq Targets
    /\ parked \subseteq Targets /\ attachedRoot \subseteq Targets
    /\ ghosts \subseteq Targets
    /\ page \in [Targets -> {"absent", "live", "dead"}]
    /\ told \in [Targets -> {"none", "attached", "detached"}]
    /\ createdBy \in [Targets -> Conns \cup {NoConn}]
    /\ sent \in [Targets -> SUBSET Kinds]
    /\ bare \subseteq Conns /\ late \subseteq Targets

Typed == Control /\ Data

LEMMA TypedTypeOK == Typed => TypeOK
  BY DEF Typed, Control, Data, TypeOK

LEMMA TypedInit == Init => Typed
  <1> SUFFICES ASSUME Init PROVE Control /\ Data
    BY DEF Typed
  <1>1. Control
    BY PcFacts DEF Init, Control, CurOK, Ops
  <1>2. Data
    BY DEF Init, Data, Kinds
  <1> QED BY <1>1, <1>2

LEMMA PageInHand ==
    ASSUME Typed, NEW p \in Threads, pc[p] \in HasPage PROVE cur[p] \in Targets
  BY DEF Typed, Control, CurOK

LEMMA OwnerType ==
    ASSUME Typed, NEW x PROVE OwnerForTarget(x) \in Conns \cup {NoConn}
  BY DEF Typed, Data, OwnerForTarget, ConnectionClosed

LEMMA GotoTyped ==
    ASSUME Typed, NEW p \in Threads, NEW l \in PCs, Goto(p, l),
           l \in HasPage => pc[p] \in HasPage
    PROVE  Control'
  BY DEF Typed, Control, CurOK, Goto

LEMMA LeaveTyped ==
    ASSUME Typed, NEW p \in Threads, NEW l \in {"idle", "next", "finish", "navigate"},
           Leave(p, l), pc[p] \in HasPage \cup {"next", "finish"},
           l = "navigate" => pc[p] \in HasPage
    PROVE  Control'
  BY PcFacts DEF Typed, Control, CurOK, Leave, Ops, HasPage

LEMMA StartTyped ==
    ASSUME Typed, NEW p \in Threads, NEW o \in Ops, NEW l \in PCs,
           NEW t \in Targets \cup {NoTarget}, l \in HasPage => t \in Targets,
           Start(p, o, l, t), own' \in [Threads -> Conns \cup {NoConn}], UNCHANGED todo \/
           todo' \in [Threads -> SUBSET Targets]
    PROVE  Control'
  BY DEF Typed, Control, CurOK, Start

\* Threads that stand still.
LEMMA IdleTyped == ASSUME Typed, UNCHANGED threads PROVE Control'
  BY DEF Typed, Control, CurOK, threads

\* A thread moves on with its page and another connection in hand.
LEMMA OwnTyped ==
    ASSUME Typed, NEW p \in Threads, NEW l \in HasPage, NEW c \in Conns \cup {NoConn},
           pc[p] \in HasPage, pc' = [pc EXCEPT ![p] = l], own' = [own EXCEPT ![p] = c],
           UNCHANGED <<op, cur, todo>>
    PROVE  Control'
  BY PcFacts DEF Typed, Control, CurOK

LEMMA AfterCloseChoices == \A p \in Threads : AfterClose(p) \in {"finish", "next", "idle"}
  BY DEF AfterClose

LEMMA AfterPublishChoices == \A p \in Threads : AfterPublish(p) \in {"navigate", "next", "idle"}
  BY DEF AfterPublish

------------------------------------------------------------------------------
(* Each action keeps the types: first those that threads share.             *)

LEMMA PublishTyped ==
    ASSUME Typed, NEW p \in Threads, Publish(p) PROVE Typed'
  <1> USE ThreadFacts
  <1>0. cur[p] \in Targets /\ pc[p] \in HasPage
    BY PageInHand DEF Publish, PubOwner, PubDiscover, PubCreated, PubAuto, PubLookup, PubSend,
       HasPage, PublishPCs
  <1>1. CASE PubOwner(p)
    <2>1. Control'
      BY <1>0, <1>1, OwnTyped, LeaveTyped, AfterPublishChoices
         DEF PubOwner, HasPage, PublishPCs, Typed, Data
    <2>2. Data'
      BY <1>0, <1>1 DEF PubOwner, Typed, Data, connState, claimVars, recVars, browser, history
    <2> QED BY <2>1, <2>2 DEF Typed
  <1>2. CASE PubDiscover(p)
    <2>1. Control'
      BY <1>0, <1>2, GotoTyped, PcFacts DEF PubDiscover, HasPage, PublishPCs
    <2>2. Data'
      BY <1>2 DEF PubDiscover, Typed, Data, connState, claimVars, recVars, bridge, browser, history
    <2> QED BY <2>1, <2>2 DEF Typed
  <1>3. CASE PubCreated(p)
    <2>1. Control'
      BY <1>0, <1>3, GotoTyped, PcFacts DEF PubCreated, HasPage, PublishPCs
    <2>2. Data'
      BY <1>0, <1>3 DEF PubCreated, Send, Kinds, Typed, Data, connState, claimVars, recVars,
                        bridge, browser
    <2> QED BY <2>1, <2>2 DEF Typed
  <1>4. CASE PubAuto(p)
    <2>1. Control'
      BY <1>0, <1>4, GotoTyped, LeaveTyped, AfterPublishChoices, PcFacts
         DEF PubAuto, HasPage, PublishPCs
    <2>2. Data'
      BY <1>0, <1>4 DEF PubAuto, Typed, Data, connState, claimVars, recVars, browser, history
    <2> QED BY <2>1, <2>2 DEF Typed
  <1>5. CASE PubLookup(p)
    <2>1. Control'
      BY <1>0, <1>5, OwnTyped, LeaveTyped, AfterPublishChoices, OwnerType
         DEF PubLookup, HasPage, PublishPCs
    <2>2. Data'
      BY <1>5 DEF PubLookup, Typed, Data, connState, claimVars, recVars, bridge, browser, history
    <2> QED BY <2>1, <2>2 DEF Typed
  <1>6. CASE PubSend(p)
    <2>1. Control'
      BY <1>0, <1>6, LeaveTyped, AfterPublishChoices DEF PubSend
    <2>2. Data'
      BY <1>0, <1>6 DEF PubSend, Send, Kinds, Typed, Data, connState, claimVars, recVars,
                        bridge, browser
    <2> QED BY <2>1, <2>2 DEF Typed
  <1> QED BY <1>1, <1>2, <1>3, <1>4, <1>5, <1>6 DEF Publish

LEMMA CloseTyped ==
    ASSUME Typed, NEW p \in Threads, CloseRecord(p) PROVE Typed'
  <1>0. cur[p] \in Targets /\ pc[p] \in HasPage
    BY PageInHand DEF CloseRecord, Details, BeginCleanup, PageClose, PageCloseReturns, Announce,
       Drop, Remove, HasPage, ClosePCs
  <1>1. CASE Details(p)
    <2>1. Control'
      BY <1>0, <1>1, OwnTyped DEF Details, HasPage, ClosePCs, Typed, Data
    <2>2. Data'
      BY <1>1 DEF Details, Typed, Data, connState, claimVars, recVars, bridge, browser, history
    <2> QED BY <2>1, <2>2 DEF Typed
  <1>2. CASE BeginCleanup(p)
    <2>1. Control'
      BY <1>0, <1>2, GotoTyped, LeaveTyped, AfterCloseChoices, PcFacts
         DEF BeginCleanup, CleanupStart, HasPage, ClosePCs
    <2>2. Data'
      BY <1>0, <1>2 DEF BeginCleanup, Typed, Data, connState, claimVars, bridge, browser, history
    <2> QED BY <2>1, <2>2 DEF Typed
  <1>3. CASE PageClose(p)
    <2>1. Control'
      BY <1>0, <1>3, GotoTyped, PcFacts DEF PageClose, HasPage, ClosePCs
    <2>2. Data'
      BY <1>0, <1>3 DEF PageClose, Typed, Data, connState, claimVars, recVars, bridge, history
    <2> QED BY <2>1, <2>2 DEF Typed
  <1>4. CASE PageCloseReturns(p)
    <2>1. Control'
      BY <1>0, <1>4, GotoTyped, PcFacts DEF PageCloseReturns, HasPage, ClosePCs
    <2>2. Data'
      BY <1>0, <1>4 DEF PageCloseReturns, Typed, Data, connState, claimVars, recVars, bridge, browser,
                  history
    <2> QED BY <2>1, <2>2 DEF Typed
  <1>5. CASE Announce(p)
    <2>1. Control'
      BY <1>0, <1>5, GotoTyped, PcFacts DEF Announce, HasPage, ClosePCs
    <2>2. Data'
      BY <1>0, <1>5 DEF Announce, Send, Kinds, Typed, Data, connState, claimVars, recVars, browser
    <2> QED BY <2>1, <2>2 DEF Typed
  <1>6. CASE Drop(p)
    <2>1. Control'
      BY <1>0, <1>6, GotoTyped, PcFacts DEF Drop, HasPage, ClosePCs
    <2>2. Data'
      BY <1>6 DEF Drop, Unparked, Typed, Data, connState, claimVars, recVars, browser, history
    <2> QED BY <2>1, <2>2 DEF Typed
  <1>7. CASE Remove(p)
    <2>1. Control'
      BY <1>0, <1>7, LeaveTyped, AfterCloseChoices DEF Remove
    <2>2. Data'
      BY <1>0, <1>7 DEF Remove, Typed, Data, connState, claimVars, bridge, browser, history
    <2> QED BY <2>1, <2>2 DEF Typed
  <1> QED BY <1>1, <1>2, <1>3, <1>4, <1>5, <1>6, <1>7 DEF CloseRecord

LEMMA NextOfTyped ==
    ASSUME Typed, NEW p \in Threads, NextOf(p) PROVE Typed'
  <1>1. Control'
    <2>1. CASE todo[p] = {} /\ Leave(p, "idle")
      BY <2>1, LeaveTyped DEF NextOf
    <2>2. CASE \E t \in todo[p] :
                  /\ todo' = [todo EXCEPT ![p] = @ \ {t}]
                  /\ cur'  = [cur EXCEPT ![p] = t]
                  /\ pc'   = [pc EXCEPT ![p] = Visit(p, t)]
                  /\ UNCHANGED <<op, own>>
      <3> PICK t \in todo[p] :
                  /\ todo' = [todo EXCEPT ![p] = @ \ {t}]
                  /\ cur'  = [cur EXCEPT ![p] = t]
                  /\ pc'   = [pc EXCEPT ![p] = Visit(p, t)]
                  /\ UNCHANGED <<op, own>>
        BY <2>2
      <3>1. t \in Targets
        BY DEF Typed, Control
      <3>2. Visit(p, t) \in PCs
        BY DEF Visit, PCs, ClosePCs, PublishPCs
      <3> QED BY <3>1, <3>2 DEF Typed, Control, CurOK
    <2> QED BY <2>1, <2>2 DEF NextOf
  <1>2. Data'
    BY DEF NextOf, Typed, Data, connState, claimVars, recVars, bridge, browser, history
  <1> QED BY <1>1, <1>2 DEF Typed

LEMMA CreateTyped ==
    ASSUME Typed, NEW c \in Conns, CreateStep(c) PROVE Typed'
  <1> DEFINE p == Handler(c)
  <1>0. p \in Threads
    BY ThreadFacts
  <1>00. pc[p] \in HasPage => cur[p] \in Targets
    BY <1>0, PageInHand
  <1> HIDE DEF p
  <1>1. CASE NewPage(c)
    <2>1. Control'
      BY <1>0, <1>1, PcFacts DEF NewPage, p, Typed, Control, CurOK, HasPage
    <2>2. Data'
      BY <1>1 DEF NewPage, Typed, Data, connState, claimVars, recVars, bridge, history
    <2> QED BY <2>1, <2>2 DEF Typed
  <1>2. CASE NewPageReturns(c)
    <2>0. pc[p] \in HasPage
      BY <1>2 DEF NewPageReturns, HasPage, p
    <2>1. Control'
      BY <1>0, <1>2, <2>0, GotoTyped, PcFacts DEF NewPageReturns, HasPage, p
    <2>2. Data'
      BY <1>00, <1>2, <2>0
         DEF NewPageReturns, p, Typed, Data, connState, claimVars, recVars, bridge, browser
    <2> QED BY <2>1, <2>2 DEF Typed
  <1>3. CASE ClaimTarget(c)
    <2>0. pc[p] \in HasPage
      BY <1>3 DEF ClaimTarget, HasPage, p
    <2>1. Control'
      BY <1>0, <1>3, <2>0, GotoTyped, PcFacts DEF ClaimTarget, HasPage, p
    <2>2. Data'
      <3>1. CASE Registered(cur[p])
        BY <1>00, <1>3, <2>0, <3>1
           DEF ClaimTarget, p, Typed, Data, connState, bridge, browser, history
      <3>2. CASE ~Registered(cur[p])
        BY <1>00, <1>3, <2>0, <3>2
           DEF ClaimTarget, p, Typed, Data, connState, bridge, browser, history
      <3> QED BY <3>1, <3>2
    <2> QED BY <2>1, <2>2 DEF Typed
  <1>4. CASE Found(c)
    <2>0. pc[p] \in HasPage
      BY <1>4 DEF Found, HasPage, p
    <2>1. Control'
      BY <1>0, <1>4, <2>0, GotoTyped, PcFacts
         DEF Found, FoundNext, HasPage, ClosePCs, PublishPCs, p
    <2>2. Data'
      BY <1>4 DEF Found, Typed, Data, connState, claimVars, recVars, bridge, browser, history
    <2> QED BY <2>1, <2>2 DEF Typed
  <1>5. ASSUME NEW t \in Targets, CancelTarget(p, t, "finish"),
               UNCHANGED <<connState, bridge, browser, history>>
        PROVE  Data'
    BY <1>5 DEF CancelTarget, Typed, Data, connState, bridge, browser, history
  <1>6. ASSUME NEW t \in Targets, CancelTarget(p, t, "finish"), pc[p] \in HasPage
        PROVE  Control'
    BY <1>0, <1>6, GotoTyped, PcFacts DEF CancelTarget, HasPage, ClosePCs
  <1>7. CASE Waiting(c)
    <2>0. pc[p] \in HasPage
      BY <1>7 DEF Waiting, HasPage, p
    <2>1. CASE CancelTarget(p, cur[p], "finish")
      BY <1>00, <1>5, <1>6, <1>7, <2>0, <2>1 DEF Waiting, Typed
    <2>2. CASE Goto(p, "navigate") /\ UNCHANGED <<claimVars, recVars>>
      <3>1. Control'
        BY <1>0, <2>0, <2>2, GotoTyped, PcFacts DEF HasPage
      <3>2. Data'
        BY <1>7, <2>2
           DEF Waiting, Typed, Data, connState, claimVars, recVars, bridge, browser, history
      <3> QED BY <3>1, <3>2 DEF Typed
    <2> QED BY <1>7, <2>1, <2>2 DEF Waiting, p
  <1>8. CASE Navigate(c)
    <2>0. pc[p] \in HasPage
      BY <1>8 DEF Navigate, HasPage, p
    <2>1. CASE CancelTarget(p, cur[p], "finish")
      BY <1>00, <1>5, <1>6, <1>8, <2>0, <2>1 DEF Navigate, Typed
    <2>2. CASE Goto(p, "finish") /\ UNCHANGED <<claimVars, recVars>>
      <3>1. Control'
        BY <1>0, <2>0, <2>2, GotoTyped, PcFacts
      <3>2. Data'
        BY <1>8, <2>2
           DEF Navigate, Typed, Data, connState, claimVars, recVars, bridge, browser, history
      <3> QED BY <3>1, <3>2 DEF Typed
    <2> QED BY <1>8, <2>1, <2>2 DEF Navigate, p
  <1>9. CASE FinishCreate(c)
    <2>1. Control'
      BY <1>0, <1>9, LeaveTyped DEF FinishCreate, p
    <2>2. Data'
      BY <1>9 DEF FinishCreate, Typed, Data, connState, recVars, bridge, browser, history
    <2> QED BY <2>1, <2>2 DEF Typed
  <1> QED BY <1>1, <1>2, <1>3, <1>4, <1>7, <1>8, <1>9 DEF CreateStep

\* Commands, and the other steps of a handler.
LEMMA CommandTyped ==
    ASSUME Typed, NEW c \in Conns, Command(c) PROVE Typed'
  <1> USE ThreadFacts DEF Typed
  <1>0. UNCHANGED own => own' \in [Threads -> Conns \cup {NoConn}]
    BY DEF Control
  <1>1. CASE StartCreate(c)
    <2>1. Control'
      BY <1>0, <1>1, StartTyped, PcFacts DEF StartCreate, PCs, CreatePCs, Ops
    <2>2. Data'
      BY <1>1 DEF StartCreate, Data, connState, recVars, bridge, browser, history
    <2> QED BY <2>1, <2>2
  <1>2. ASSUME NEW t \in Targets, CloseTarget(c, t) PROVE Typed'
    <2>1. Control'
      BY <1>0, <1>2, StartTyped, PcFacts DEF CloseTarget, PCs, ClosePCs, Ops
    <2>2. Data'
      BY <1>2 DEF CloseTarget, Data, connState, claimVars, recVars, bridge, browser, history
    <2> QED BY <2>1, <2>2
  <1>3. ASSUME NEW t \in Targets, AttachToTarget(c, t) PROVE Typed'
    <2>1. Control'
      BY <1>0, <1>3, StartTyped, PcFacts DEF AttachToTarget, PCs, Ops
    <2>2. Data'
      BY <1>3 DEF AttachToTarget, Data, connState, claimVars, recVars, bridge, browser, history
    <2> QED BY <2>1, <2>2
  <1>4. ASSUME NEW on \in BOOLEAN, SetAutoAttach(c, on) PROVE Typed'
    <2>1. Control'
      BY <1>0, <1>4, StartTyped, PcFacts DEF SetAutoAttach, PCs, Ops
    <2>2. Data'
      BY <1>4 DEF SetAutoAttach, Data, claimVars, recVars, bridge, browser
    <2> QED BY <2>1, <2>2
  <1>5. ASSUME NEW on \in BOOLEAN, SetDiscover(c, on) PROVE Typed'
    <2>1. Control'
      BY <1>0, <1>5, StartTyped, PcFacts DEF SetDiscover, PCs, Ops
    <2>2. Data'
      BY <1>5 DEF SetDiscover, Data, claimVars, recVars, bridge, browser
    <2> QED BY <2>1, <2>2
  <1> QED BY <1>1, <1>2, <1>3, <1>4, <1>5 DEF Command

LEMMA HandlerTyped ==
    ASSUME Typed, NEW c \in Conns, Snapshot(c) \/ AttachSession(c) PROVE Typed'
  <1> DEFINE p == Handler(c)
  <1>0. p \in Threads
    BY ThreadFacts
  <1> HIDE DEF p
  <1>1. CASE Snapshot(c)
    <2>1. Control'
      BY <1>0, <1>1, PcFacts DEF Snapshot, p, OwnedPairs, Typed, Control, Data, CurOK
    <2>2. Data'
      BY <1>1 DEF Snapshot, Typed, Data, connState, claimVars, recVars, bridge, browser, history
    <2> QED BY <2>1, <2>2 DEF Typed
  <1>2. CASE AttachSession(c)
    <2>0. pc[p] \in HasPage
      BY <1>2 DEF AttachSession, p, HasPage
    <2>1. Control'
      BY <1>0, <1>2, <2>0, GotoTyped, LeaveTyped, PcFacts
         DEF AttachSession, p, HasPage, PublishPCs
    <2>2. Data'
      BY <1>0, <1>2, <2>0, PageInHand
         DEF AttachSession, p, Typed, Data, connState, claimVars, recVars, browser, history
    <2> QED BY <2>1, <2>2 DEF Typed
  <1> QED BY <1>1, <1>2

LEMMA DisconnectTyped ==
    ASSUME Typed, NEW c \in Conns, CloseConnection(c) PROVE Typed'
  <1>0. OwnedPairs(c) \subseteq Targets
    BY DEF OwnedPairs
  <1>1. Control'
    BY <1>0, ThreadFacts, StartTyped, PcFacts DEF CloseConnection, Typed, Control, Ops
  <1>2. Data'
    BY DEF CloseConnection, ClaimsOf, Typed, Data, bridge, browser, history
  <1> QED BY <1>1, <1>2 DEF Typed

LEMMA ReaderTyped ==
    ASSUME Typed, ReaderStep PROVE Typed'
  <1> USE ThreadFacts
  <1>0. pc[Reader] \in HasPage => cur[Reader] \in Targets
    BY PageInHand
  <1>1. ASSUME NEW t \in Targets, AttachedToTarget(t) PROVE Typed'
    <2>1. own' \in [Threads -> Conns \cup {NoConn}]
      BY <1>1, OwnerType DEF AttachedToTarget, Typed, Control
    <2>2. Control'
      BY <1>1, <2>1, StartTyped, PcFacts DEF AttachedToTarget, PCs, AttachPCs, Ops
    <2>3. Data'
      BY <1>1 DEF AttachedToTarget, Typed, Data, connState, claimVars, recVars, history
    <2> QED BY <2>2, <2>3 DEF Typed
  <1>2. ASSUME NEW t \in Targets, DetachedFromTarget(t) PROVE Typed'
    <2>1. Control'
      <3>1. CASE UNCHANGED threads
        BY <3>1, IdleTyped
      <3>2. CASE Start(Reader, "detach", "details", t) /\ UNCHANGED <<own, todo>>
        <4>1. own' \in [Threads -> Conns \cup {NoConn}]
          BY <3>2 DEF Typed, Control
        <4> QED BY <3>2, <4>1, StartTyped, PcFacts DEF PCs, ClosePCs, Ops
      <3> QED BY <1>2, <3>1, <3>2 DEF DetachedFromTarget
    <2>2. Data'
      BY <1>2 DEF DetachedFromTarget, Typed, Data, connState, claimVars, recVars, bridge, history
    <2> QED BY <2>1, <2>2 DEF Typed
  <1>3. CASE RegisterPair
    <2>0. pc[Reader] \in HasPage
      BY <1>3 DEF RegisterPair, HasPage, AttachPCs
    <2>1. Control'
      BY <1>3, <2>0, OwnTyped DEF RegisterPair, HasPage, AttachPCs
    <2>2. own[Reader] \in Conns \cup {NoConn}
      BY DEF Typed, Control
    <2>3. Data'
      BY <1>0, <1>3, <2>0, <2>2
         DEF RegisterPair, Typed, Data, connState, bridge, browser, history
    <2> QED BY <2>1, <2>3 DEF Typed
  <1>4. CASE Settle
    <2>0. pc[Reader] \in HasPage
      BY <1>4 DEF Settle, HasPage, AttachPCs
    <2>1. Control'
      BY <1>4, <2>0, GotoTyped, PcFacts DEF Settle, HasPage, AttachPCs, ClosePCs, PublishPCs
    <2>2. Data'
      BY <1>0, <1>4, <2>0
         DEF Settle, Typed, Data, connState, claimVars, recVars, browser, history
    <2> QED BY <2>1, <2>2 DEF Typed
  <1>5. CASE Park
    <2>0. pc[Reader] \in HasPage
      BY <1>5 DEF Park, HasPage, AttachPCs
    <2>1. Control'
      BY <1>5, <2>0, LeaveTyped DEF Park
    <2>2. Data'
      BY <1>0, <1>5, <2>0
         DEF Park, Typed, Data, connState, claimVars, recVars, browser, history
    <2> QED BY <2>1, <2>2 DEF Typed
  <1> QED BY <1>1, <1>2, <1>3, <1>4, <1>5, PublishTyped, CloseTyped DEF ReaderStep

\* The timer of a claim, and the browser.
LEMMA WorldTyped ==
    ASSUME Typed, NEW t \in Targets, ExpireClaim(t) \/ PopupOpens(t) \/ PageDies(t)
    PROVE  Typed'
  <1>1. Control'
    BY IdleTyped DEF ExpireClaim, PopupOpens, PageDies
  <1>2. Data'
    BY DEF ExpireClaim, PopupOpens, PageDies, Typed, Data, connState, claimVars, recVars, bridge,
           browser, history
  <1> QED BY <1>1, <1>2 DEF Typed

LEMMA TypedNext == Typed /\ [Next]_vars => Typed'
  <1> SUFFICES ASSUME Typed, [Next]_vars PROVE Typed'
    OBVIOUS
  <1>1. ASSUME NEW c \in Conns, HandlerStep(c) PROVE Typed'
    BY <1>1, ThreadFacts, CreateTyped, HandlerTyped, NextOfTyped, PublishTyped, CloseTyped
       DEF HandlerStep
  <1>2. ASSUME NEW c \in Conns, CloserStep(c) PROVE Typed'
    BY <1>2, ThreadFacts, NextOfTyped, CloseTyped DEF CloserStep
  <1>3. CASE UNCHANGED vars
    <2>1. Control'
      BY <1>3, IdleTyped DEF vars
    <2>2. Data'
      BY <1>3 DEF vars, Typed, Data, connState, claimVars, recVars, bridge, browser, history
    <2> QED BY <2>1, <2>2 DEF Typed
  <1> QED BY <1>1, <1>2, <1>3, CommandTyped, DisconnectTyped, ReaderTyped, WorldTyped DEF Next

\* In every behaviour of the program each variable keeps its type: no thread
\* ever has "no target" in hand where the code dereferences a record or a pair
\* (CurOK, the strengthening the induction needs).
THEOREM TypeCorrect == Spec => []TypeOK
  <1>1. Spec => []Typed
    BY TypedInit, TypedNext, PTL DEF Spec
  <1> QED BY <1>1, TypedTypeOK, PTL

------------------------------------------------------------------------------
(* No owner outlives its connection.  OwnerLive is not inductive: between    *)
(* the attach event and registerPair the read loop holds the opener's owner. *)

ReaderOwn ==
    pc[Reader] = "register" /\ Opener[cur[Reader]] = NoTarget => own[Reader] = NoConn

Held == Typed /\ OwnerLive /\ ReaderOwn

LEMMA HeldInit == Init => Held
  <1> SUFFICES ASSUME Init PROVE OwnerLive /\ ReaderOwn
    BY TypedInit DEF Held
  <1> QED BY ThreadFacts, OwnershipAssumption DEF Init, OwnerLive, ReaderOwn

\* The registry is as it was; the read loop too, or not about to register a page.
ReaderStill ==
    pc'[Reader] = pc[Reader] /\ cur'[Reader] = cur[Reader] /\ own'[Reader] = own[Reader]

LEMMA HeldQuiet ==
    ASSUME Held, Typed', closed' = closed, state' = state, owner' = owner, claim' = claim,
           pc'[Reader] # "register" \/ ReaderStill
    PROVE  Held'
  <1>1. OwnerLive'
    BY DEF Held, OwnerLive
  <1>2. ReaderOwn'
    BY DEF Held, ReaderOwn, ReaderStill
  <1> QED BY <1>1, <1>2 DEF Held

LEMMA HeldCreate == ASSUME Held, Typed', NEW c \in Conns, CreateStep(c) PROVE Held'
  <1> DEFINE p == Handler(c)
  <1>0. p \in Threads /\ p # Reader /\ Reader \in Threads
    BY ThreadFacts
  <1>1. \A l : Goto(p, l) => ReaderStill
    BY <1>0 DEF ReaderStill, Goto, Held, Typed, Control
  <1> HIDE DEF p
  <1>2. CASE NewPage(c)
    BY <1>0, <1>2, HeldQuiet DEF ReaderStill, NewPage, p, connState, claimVars, recVars, Held, Typed, Control
  <1>3. CASE NewPageReturns(c)
    BY <1>1, <1>3, HeldQuiet DEF NewPageReturns, p, connState, claimVars, recVars
  <1>4. CASE ClaimTarget(c)
    <2>1. OwnerLive'
      BY <1>4, OwnershipAssumption DEF ClaimTarget, connState, Held, OwnerLive, Typed, Data
    <2>2. ReaderOwn'
      BY <1>1, <1>4 DEF ReaderStill, ClaimTarget, p, Held, ReaderOwn
    <2> QED BY <2>1, <2>2 DEF Held
  <1>5. CASE Found(c)
    BY <1>1, <1>5, HeldQuiet DEF Found, p, connState, claimVars, recVars
  <1>6. ASSUME NEW t, CancelTarget(p, t, "finish"), UNCHANGED connState PROVE Held'
    <2>1. OwnerLive'
      BY <1>6, OwnershipAssumption
         DEF CancelTarget, connState, Held, OwnerLive, Typed, Data
    <2>2. ReaderOwn'
      BY <1>1, <1>6 DEF ReaderStill, CancelTarget, Held, ReaderOwn
    <2> QED BY <2>1, <2>2 DEF Held
  <1>7. CASE Waiting(c)
    BY <1>1, <1>6, <1>7, HeldQuiet DEF Waiting, p, connState, claimVars, recVars
  <1>8. CASE Navigate(c)
    BY <1>1, <1>6, <1>8, HeldQuiet DEF Navigate, p, connState, claimVars, recVars
  <1>9. CASE FinishCreate(c)
    BY <1>0, <1>9, HeldQuiet
       DEF ReaderStill, FinishCreate, Leave, p, connState, recVars, Held, Typed, Control
  <1> QED BY <1>2, <1>3, <1>4, <1>5, <1>7, <1>8, <1>9 DEF CreateStep

LEMMA HeldCommand == ASSUME Held, Typed', NEW c \in Conns, Command(c) PROVE Held'
  <1>1. ReaderStill
    BY ThreadFacts DEF ReaderStill, Command, StartCreate, CloseTarget, AttachToTarget, SetAutoAttach,
       SetDiscover, Start, Held, Typed, Control
  <1>2. closed' = closed /\ state' = state /\ owner' = owner /\ claim' = claim
    BY DEF Command, StartCreate, CloseTarget, AttachToTarget, SetAutoAttach, SetDiscover, connState,
       claimVars, recVars
  <1> QED BY <1>1, <1>2, HeldQuiet

LEMMA HeldHandler ==
    ASSUME Held, Typed', NEW c \in Conns, Snapshot(c) \/ AttachSession(c) PROVE Held'
  <1>1. ReaderStill
    BY ThreadFacts DEF ReaderStill, Snapshot, AttachSession, Leave, Goto, Held, Typed, Control
  <1>2. closed' = closed /\ state' = state /\ owner' = owner /\ claim' = claim
    BY DEF Snapshot, AttachSession, connState, claimVars, recVars
  <1> QED BY <1>1, <1>2, HeldQuiet

LEMMA HeldPublish == ASSUME Held, Typed', NEW p \in Threads, Publish(p) PROVE Held'
  <1>1. pc'[p] # "register" /\ (p # Reader => ReaderStill)
    BY ThreadFacts, AfterPublishChoices
       DEF Publish, PubOwner, PubDiscover, PubCreated, PubAuto, PubLookup, PubSend, Leave, Goto,
           ReaderStill, Held, Typed, Control
  <1>2. closed' = closed /\ state' = state /\ owner' = owner /\ claim' = claim
    BY DEF Publish, PubOwner, PubDiscover, PubCreated, PubAuto, PubLookup, PubSend, connState,
           claimVars, recVars
  <1> QED BY <1>1, <1>2, HeldQuiet

LEMMA HeldClose == ASSUME Held, Typed', NEW p \in Threads, CloseRecord(p) PROVE Held'
  <1>1. pc'[p] # "register" /\ (p # Reader => ReaderStill)
    BY ThreadFacts, AfterCloseChoices
       DEF CloseRecord, Details, BeginCleanup, CleanupStart, PageClose, PageCloseReturns, Announce,
           Drop, Remove, Leave, Goto, ReaderStill, Held, Typed, Control
  <1>2. ReaderOwn'
    BY <1>1 DEF ReaderStill, Held, ReaderOwn
  <1>3. OwnerLive'
    BY DEF CloseRecord, Details, BeginCleanup, PageClose, PageCloseReturns, Announce,
           Drop, Remove, connState, claimVars, recVars, Held, OwnerLive, Typed, Data
  <1> QED BY <1>2, <1>3 DEF Held

LEMMA HeldNextOf == ASSUME Held, Typed', NEW p \in Threads, NextOf(p) PROVE Held'
  <1>1. pc'[p] # "register" /\ (p # Reader => ReaderStill)
    BY ThreadFacts DEF ReaderStill, NextOf, Visit, Leave, Held, Typed, Control
  <1>2. closed' = closed /\ state' = state /\ owner' = owner /\ claim' = claim
    BY DEF NextOf, connState, claimVars, recVars
  <1> QED BY <1>1, <1>2, HeldQuiet

LEMMA HeldReader ==
    ASSUME Held, Typed', ReaderStep PROVE Held'
  <1> USE ThreadFacts
  <1>1. ASSUME NEW t \in Targets, AttachedToTarget(t) PROVE Held'
    <2>1. Opener[t] = NoTarget => OwnerForTarget(Opener[t]) = NoConn
      BY OwnershipAssumption DEF OwnerForTarget
    <2>2. ReaderOwn'
      BY <1>1, <2>1 DEF AttachedToTarget, Start, ReaderOwn, Held, Typed, Control
    <2>3. OwnerLive'
      BY <1>1 DEF AttachedToTarget, connState, claimVars, recVars, Held, OwnerLive
    <2> QED BY <2>2, <2>3 DEF Held
  <1>2. ASSUME NEW t \in Targets, DetachedFromTarget(t) PROVE Held'
    <2>1. pc'[Reader] # "register"
      BY <1>2 DEF DetachedFromTarget, Start, threads, Held, Typed, Control
    <2> QED BY <1>2, <2>1, HeldQuiet DEF DetachedFromTarget, connState, claimVars, recVars
  <1>3. CASE RegisterPair
    <2>0. cur[Reader] \in Targets
      BY <1>3, PageInHand DEF RegisterPair, Held, HasPage, AttachPCs
    <2>1. ReaderOwn'
      BY <1>3 DEF RegisterPair, ReaderOwn, Held, Typed, Control
    <2>2. OwnerLive'
      BY <1>3, <2>0, OwnershipAssumption
         DEF RegisterPair, CancelledAtAttach, ConnectionClosed, connState, Held, OwnerLive, ReaderOwn,
             Typed, Data
    <2> QED BY <2>1, <2>2 DEF Held
  <1>4. CASE Settle
    <2>1. pc'[Reader] # "register"
      BY <1>4 DEF Settle, Goto, Held, Typed, Control
    <2> QED BY <1>4, <2>1, HeldQuiet DEF Settle, connState, claimVars, recVars
  <1>5. CASE Park
    <2>1. pc'[Reader] # "register"
      BY <1>5 DEF Park, Leave, Held, Typed, Control
    <2> QED BY <1>5, <2>1, HeldQuiet DEF Park, connState, claimVars, recVars
  <1> QED BY <1>1, <1>2, <1>3, <1>4, <1>5, HeldPublish, HeldClose DEF ReaderStep

LEMMA HeldDisconnect == ASSUME Held, Typed', NEW c \in Conns, CloseConnection(c) PROVE Held'
  <1>1. ReaderOwn'
    BY ThreadFacts DEF CloseConnection, Start, ReaderOwn, Held, Typed, Control
  <1>2. OwnerLive'
    BY OwnershipAssumption
       DEF CloseConnection, OwnedPairs, ClaimsOf, OwnerLive, Held, Typed, Data
  <1> QED BY <1>1, <1>2 DEF Held

LEMMA HeldNext == Held /\ [Next]_vars => Held'
  <1> SUFFICES ASSUME Held, [Next]_vars PROVE Held'
    OBVIOUS
  <1>0. Typed'
    BY TypedNext DEF Held
  <1>1. ASSUME NEW c \in Conns, HandlerStep(c) PROVE Held'
    BY <1>0, <1>1, ThreadFacts, HeldCreate, HeldHandler, HeldNextOf, HeldPublish, HeldClose
       DEF HandlerStep
  <1>2. ASSUME NEW c \in Conns, CloserStep(c) PROVE Held'
    BY <1>0, <1>2, ThreadFacts, HeldNextOf, HeldClose DEF CloserStep
  <1>3. ASSUME NEW t \in Targets, ExpireClaim(t) PROVE Held'
    BY <1>0, <1>3, OwnershipAssumption
       DEF ExpireClaim, connState, recVars, threads, Held, OwnerLive, ReaderOwn, Typed, Data
  <1>4. ASSUME NEW t \in Targets, PopupOpens(t) \/ PageDies(t) PROVE Held'
    BY <1>0, <1>4, HeldQuiet DEF ReaderStill, PopupOpens, PageDies, threads, connState, claimVars, recVars
  <1>5. CASE UNCHANGED vars
    BY <1>0, <1>5, HeldQuiet DEF ReaderStill, vars, threads, connState, claimVars, recVars
  <1> QED BY <1>0, <1>1, <1>2, <1>3, <1>4, <1>5, HeldCommand, HeldDisconnect, HeldReader DEF Next

\* In every behaviour, with any number of clients and pages, no claim and no
\* open page that a client asked for belongs to a connection whose close hook
\* has run (ownership.go: claimTarget, registerPair, closeConnection).
THEOREM OwnersAreLive == Spec => []OwnerLive
  <1>1. Spec => []Held
    BY HeldInit, HeldNext, PTL DEF Spec
  <1> QED BY <1>1, PTL DEF Held

------------------------------------------------------------------------------
(* Without popups the registry implements Lease.  What the steps of Lease    *)
(* need to know is how far the record of the page in hand has come.          *)

CleanPCs == {"pageClose", "closeReply", "announce", "drop", "remove"}
KnownPCs == {"details", "begin", "found", "settle"}

\* What the counter of thread p says about the record of the page in its hand.
Tracks(p) ==
    /\ pc[p] \in KnownPCs => state[cur[p]] # "none"
    /\ pc[p] \in CleanPCs => state[cur[p]] \in {"closing", "closed"}
    /\ pc[p] = "snapshot" => op[p] # "disconnect"
    /\ op[p] = "disconnect" => \A t \in todo[p] : state[t] # "none"
    /\ pc[p] = "register" =>
          p = Reader /\ state[cur[p]] = "none" /\ told[cur[p]] # "none"

ToldFirst == \A t \in Targets : told[t] = "none" => state[t] = "none"

Tracked == (\A p \in Threads : Tracks(p)) /\ ToldFirst

\* Steps other than RegisterPair make no record and undo no cleanup.
Stable ==
    \A t \in Targets :
        /\ (state[t] = "none") <=> (state'[t] = "none")
        /\ state[t] \in {"closing", "closed"} => state'[t] \in {"closing", "closed"}
        /\ told[t] # "none" => told'[t] # "none"

Alone(p) ==
    \A q \in Threads \ {p} :
        pc'[q] = pc[q] /\ op'[q] = op[q] /\ cur'[q] = cur[q] /\ todo'[q] = todo[q]

LEMMA StillStable == ASSUME UNCHANGED <<state, told>> PROVE Stable
  BY DEF Stable

LEMMA TrackedInit == Init => Tracked
  <1> SUFFICES ASSUME Init PROVE Tracked
    OBVIOUS
  <1>1. ToldFirst
    BY DEF Init, ToldFirst
  <1>2. ASSUME NEW p \in Threads PROVE Tracks(p)
    BY DEF Init, Tracks, KnownPCs, CleanPCs
  <1> QED BY <1>1, <1>2 DEF Tracked

LEMMA TrackedStep ==
    ASSUME Typed, Tracked, Stable, NEW p \in Threads, Alone(p), Tracks(p)'
    PROVE  Tracked'
  <1>1. ToldFirst'
    BY DEF Tracked, ToldFirst, Stable
  <1>2. ASSUME NEW q \in Threads, q # p PROVE Tracks(q)'
    <2>1. Tracks(q) /\ pc'[q] = pc[q] /\ op'[q] = op[q] /\ cur'[q] = cur[q] /\ todo'[q] = todo[q]
      BY <1>2 DEF Tracked, Alone
    <2>2. pc[q] \in HasPage => cur[q] \in Targets
      BY PageInHand
    <2>3. KnownPCs \cup CleanPCs \cup {"register"} \subseteq HasPage
      BY DEF KnownPCs, CleanPCs, HasPage, ClosePCs, AttachPCs
    <2>4. todo[q] \subseteq Targets
      BY DEF Typed, Control
    <2> QED BY <2>1, <2>2, <2>3, <2>4 DEF Tracks, Stable
  <1> QED BY <1>1, <1>2 DEF Tracked

\* Thread p goes on without a record to keep track of.
LEMMA MoveOn ==
    ASSUME Typed, Tracked, Stable, NEW p \in Threads, Alone(p),
           pc'[p] \notin KnownPCs \cup CleanPCs \cup {"snapshot", "register"},
           (op'[p] = op[p] /\ todo'[p] \subseteq todo[p]) \/ op'[p] # "disconnect"
    PROVE  Tracked'
  <1>1. todo[p] \subseteq Targets /\ Tracks(p)
    BY DEF Typed, Control, Tracked
  <1>2. Tracks(p)'
    BY <1>1 DEF Tracks, Stable
  <1> QED BY <1>2, TrackedStep

\* Thread p takes up a page that has a record, or goes on with its cleanup.
LEMMA TakeUp ==
    ASSUME Typed, Tracked, Stable, NEW p \in Threads, Alone(p),
           (op'[p] = op[p] /\ todo'[p] \subseteq todo[p]) \/ op'[p] # "disconnect",
           \/ pc'[p] \in KnownPCs /\ state'[cur'[p]] # "none"
           \/ pc'[p] \in CleanPCs /\ state'[cur'[p]] \in {"closing", "closed"}
    PROVE  Tracked'
  <1>1. todo[p] \subseteq Targets /\ Tracks(p)
    BY DEF Typed, Control, Tracked
  <1>2. Tracks(p)'
    BY <1>1 DEF Tracks, Stable, KnownPCs, CleanPCs
  <1> QED BY <1>2, TrackedStep

LEMMA GotoAlone ==
    ASSUME Typed, NEW p \in Threads, NEW l, Goto(p, l)
    PROVE  Alone(p) /\ pc'[p] = l /\ op'[p] = op[p] /\ cur'[p] = cur[p] /\ todo'[p] = todo[p]
  BY DEF Goto, Alone, Typed, Control

LEMMA LeaveAlone ==
    ASSUME Typed, NEW p \in Threads, NEW l, Leave(p, l)
    PROVE  Alone(p) /\ pc'[p] = l /\ todo'[p] = todo[p] /\ (op'[p] = op[p] \/ op'[p] = "none")
  BY DEF Leave, Alone, Typed, Control

LEMMA StartAlone ==
    ASSUME Typed, NEW p \in Threads, NEW o, NEW l, NEW t, Start(p, o, l, t), UNCHANGED todo
    PROVE  Alone(p) /\ pc'[p] = l /\ op'[p] = o /\ cur'[p] = t
  BY DEF Start, Alone, Typed, Control

LEMMA TrackedPublish == ASSUME Typed, Tracked, NEW p \in Threads, Publish(p) PROVE Tracked'
  <1>1. Stable
    BY StillStable DEF Publish, PubOwner, PubDiscover, PubCreated, PubAuto, PubLookup, PubSend,
       recVars, browser
  <1>2. PublishPCs \cup {"navigate", "next", "idle"}
           \subseteq PCs \ (KnownPCs \cup CleanPCs \cup {"snapshot", "register"})
    BY DEF PCs, CreatePCs, ClosePCs, PublishPCs, AttachPCs, KnownPCs, CleanPCs
  <1>3. ASSUME NEW l \in PublishPCs, Goto(p, l) PROVE Tracked'
    BY <1>1, <1>2, <1>3, GotoAlone, MoveOn
  <1>4. ASSUME Leave(p, AfterPublish(p)) PROVE Tracked'
    BY <1>1, <1>2, <1>4, LeaveAlone, MoveOn, AfterPublishChoices
  <1>5. ASSUME NEW l \in PublishPCs, pc' = [pc EXCEPT ![p] = l], UNCHANGED <<op, cur, todo>>
        PROVE  Tracked'
    <2>1. Alone(p) /\ pc'[p] = l /\ op'[p] = op[p] /\ todo'[p] = todo[p]
      BY <1>5 DEF Alone, Typed, Control
    <2> QED BY <1>1, <1>2, <2>1, MoveOn
  <1> QED BY <1>3, <1>4, <1>5
          DEF Publish, PubOwner, PubDiscover, PubCreated, PubAuto, PubLookup, PubSend, PublishPCs

LEMMA TrackedClose == ASSUME Typed, Tracked, NEW p \in Threads, CloseRecord(p) PROVE Tracked'
  <1>0. Tracks(p)
    BY DEF Tracked
  <1>00. cur[p] \in Targets
    BY PageInHand DEF CloseRecord, Details, BeginCleanup, PageClose, PageCloseReturns, Announce,
       Drop, Remove, HasPage, ClosePCs
  <1>1. ASSUME Stable, NEW l \in CleanPCs, Goto(p, l), state'[cur[p]] \in {"closing", "closed"}
        PROVE  Tracked'
    BY <1>1, GotoAlone, TakeUp
  <1>2. ASSUME Stable, Leave(p, AfterClose(p)) PROVE Tracked'
    BY <1>2, LeaveAlone, MoveOn, AfterCloseChoices DEF KnownPCs, CleanPCs
  <1>3. CASE Details(p)
    <2>1. Stable
      BY <1>3, StillStable DEF Details, recVars, browser
    <2>2. Alone(p) /\ pc'[p] = "begin" /\ op'[p] = op[p] /\ todo'[p] = todo[p] /\ cur'[p] = cur[p]
      BY <1>3 DEF Details, Alone, Typed, Control
    <2>3. state'[cur[p]] # "none"
      BY <1>0, <1>3 DEF Details, Tracks, KnownPCs, recVars
    <2> QED BY <2>1, <2>2, <2>3, TakeUp DEF KnownPCs
  <1>4. CASE BeginCleanup(p)
    <2>1. state[cur[p]] # "none"
      BY <1>0, <1>4 DEF BeginCleanup, Tracks, KnownPCs
    <2>2. CASE CleanupRefused(cur[p])
      BY <1>2, <1>4, <2>2, StillStable DEF BeginCleanup, browser
    <2>3. CASE ~CleanupRefused(cur[p])
      <3>1. Stable /\ state'[cur[p]] = "closing"
        BY <1>00, <1>4, <2>1, <2>3 DEF BeginCleanup, Stable, browser, Typed, Data
      <3> QED BY <1>1, <1>4, <2>3, <3>1 DEF BeginCleanup, CleanupStart, CleanPCs
    <2> QED BY <2>2, <2>3
  <1>5. ASSUME PageClose(p) \/ PageCloseReturns(p) \/ Announce(p) \/ Drop(p)
        PROVE  Tracked'
    <2>1. Stable /\ state' = state
      BY <1>5, StillStable DEF PageClose, PageCloseReturns, Announce, Drop, recVars, browser, Stable
    <2>2. state[cur[p]] \in {"closing", "closed"}
      BY <1>0, <1>5 DEF PageClose, PageCloseReturns, Announce, Drop, Tracks, CleanPCs
    <2>3. \E l \in CleanPCs : Goto(p, l)
      BY <1>5 DEF PageClose, PageCloseReturns, Announce, Drop, CleanPCs
    <2> QED BY <1>1, <2>1, <2>2, <2>3
  <1>6. CASE Remove(p)
    <2>1. state[cur[p]] \in {"closing", "closed"}
      BY <1>0, <1>6 DEF Remove, Tracks, CleanPCs
    <2>2. Stable
      BY <1>00, <1>6, <2>1 DEF Remove, Stable, browser, Typed, Data
    <2> QED BY <1>2, <1>6, <2>2 DEF Remove
  <1> QED BY <1>3, <1>4, <1>5, <1>6 DEF CloseRecord

LEMMA TrackedNextOf == ASSUME Typed, Tracked, NEW p \in Threads, NextOf(p) PROVE Tracked'
  <1>0. Tracks(p)
    BY DEF Tracked
  <1>1. Stable /\ state' = state
    BY StillStable DEF NextOf, recVars, browser
  <1>2. CASE Leave(p, "idle")
    BY <1>1, <1>2, LeaveAlone, MoveOn DEF KnownPCs, CleanPCs
  <1>3. ASSUME NEW t \in todo[p],
               todo' = [todo EXCEPT ![p] = @ \ {t}],
               cur'  = [cur EXCEPT ![p] = t],
               pc'   = [pc EXCEPT ![p] = Visit(p, t)],
               UNCHANGED op
        PROVE  Tracked'
    <2>1. Alone(p) /\ pc'[p] = Visit(p, t) /\ op'[p] = op[p] /\ cur'[p] = t
                   /\ todo'[p] \subseteq todo[p]
      BY <1>3 DEF Alone, Typed, Control
    <2>2. CASE op[p] = "disconnect"
      <3>1. state[t] # "none" /\ pc'[p] = "details"
        BY <1>0, <2>1, <2>2 DEF Tracks, Visit
      <3> QED BY <1>1, <2>1, <3>1, TakeUp DEF KnownPCs
    <2>3. CASE op[p] # "disconnect"
      <3>1. Visit(p, t) \in {"pubOwner", "pubLookup", "next"}
        BY <2>3 DEF Visit
      <3> QED BY <1>1, <2>1, <3>1, MoveOn DEF KnownPCs, CleanPCs
    <2> QED BY <2>2, <2>3
  <1> QED BY <1>2, <1>3 DEF NextOf

\* The other counters: no record is tracked there.
LoosePCs ==
    {"idle", "next", "newPage", "reply", "claim", "waiting", "navigate", "finish", "attachTo", "park"}
        \cup PublishPCs

LEMMA LooseCounters == LoosePCs \cap (KnownPCs \cup CleanPCs \cup {"snapshot", "register"}) = {}
  BY DEF LoosePCs, KnownPCs, CleanPCs, PublishPCs

LEMMA TrackedCreate == ASSUME Typed, Tracked, NEW c \in Conns, CreateStep(c) PROVE Tracked'
  <1> DEFINE p == Handler(c)
  <1>0. p \in Threads
    BY ThreadFacts
  <1>00. Tracks(p) /\ (pc[p] \in HasPage => cur[p] \in Targets)
    BY <1>0, PageInHand DEF Tracked
  <1> HIDE DEF p
  <1>1. ASSUME Stable, NEW l \in LoosePCs, Goto(p, l) PROVE Tracked'
    BY <1>0, <1>1, GotoAlone, MoveOn, LooseCounters
  <1>2. ASSUME Stable, NEW l \in KnownPCs, Goto(p, l), state'[cur[p]] # "none" PROVE Tracked'
    BY <1>0, <1>2, GotoAlone, TakeUp
  <1>3. CASE NewPage(c)
    <2>1. Stable
      BY <1>3, StillStable DEF NewPage, recVars
    <2>2. Alone(p) /\ pc'[p] \in {"reply", "finish"} /\ op'[p] = op[p] /\ todo'[p] = todo[p]
      BY <1>0, <1>3 DEF NewPage, p, Alone, Typed, Control
    <2> QED BY <1>0, <2>1, <2>2, MoveOn, LooseCounters DEF LoosePCs
  <1>4. CASE NewPageReturns(c)
    BY <1>1, <1>4, StillStable DEF NewPageReturns, p, recVars, browser, LoosePCs
  <1>5. CASE ClaimTarget(c)
    <2>0. cur[p] \in Targets
      BY <1>00, <1>5 DEF ClaimTarget, p, HasPage
    <2>1. CASE Registered(cur[p])
      <3>1. Stable /\ state'[cur[p]] # "none" /\ Goto(p, "found")
        BY <1>5, <2>0, <2>1 DEF ClaimTarget, p, Registered, Stable, browser, Typed, Data
      <3> QED BY <1>2, <3>1 DEF KnownPCs
    <2>2. CASE ~Registered(cur[p])
      <3>1. Stable /\ Goto(p, "waiting")
        BY <1>5, <2>2, StillStable DEF ClaimTarget, p, browser
      <3> QED BY <1>1, <3>1 DEF LoosePCs
    <2> QED BY <2>1, <2>2
  <1>6. CASE Found(c)
    <2>1. Stable /\ state'[cur[p]] # "none"
      BY <1>00, <1>6, StillStable DEF Found, p, Tracks, KnownPCs, recVars, browser
    <2>2. FoundNext(c, cur[p]) \in {"details", "pubOwner", "navigate"}
      BY DEF FoundNext
    <2>3. Goto(p, FoundNext(c, cur[p]))
      BY <1>6 DEF Found, p
    <2> QED BY <1>1, <1>2, <2>1, <2>2, <2>3 DEF LoosePCs, KnownPCs, PublishPCs
  <1>7. ASSUME cur[p] \in Targets, CancelTarget(p, cur[p], "finish"), UNCHANGED browser
        PROVE  Tracked'
    <2>1. CASE Registered(cur[p])
      <3>1. Stable /\ state'[cur[p]] # "none" /\ Goto(p, "details")
        BY <1>7, <2>1 DEF CancelTarget, Registered, Stable, browser, Typed, Data
      <3> QED BY <1>2, <3>1 DEF KnownPCs
    <2>2. CASE ~Registered(cur[p])
      <3>1. Stable /\ Goto(p, "finish")
        BY <1>7, <2>2, StillStable DEF CancelTarget, browser
      <3> QED BY <1>1, <3>1 DEF LoosePCs
    <2> QED BY <2>1, <2>2
  <1>8. ASSUME NEW l \in {"navigate", "finish"}, Goto(p, l), UNCHANGED <<recVars, browser>>
        PROVE  Tracked'
    BY <1>1, <1>8, StillStable DEF LoosePCs, recVars, browser
  <1>9. CASE Waiting(c)
    BY <1>00, <1>7, <1>8, <1>9 DEF Waiting, p, HasPage
  <1>10. CASE Navigate(c)
    BY <1>00, <1>7, <1>8, <1>10 DEF Navigate, p, HasPage
  <1>11. CASE FinishCreate(c)
    BY <1>0, <1>11, StillStable, LeaveAlone, MoveOn, LooseCounters
       DEF FinishCreate, p, recVars, browser, LoosePCs
  <1> QED BY <1>3, <1>4, <1>5, <1>6, <1>9, <1>10, <1>11 DEF CreateStep

LEMMA TrackedCommand == ASSUME Typed, Tracked, NEW c \in Conns, Command(c) PROVE Tracked'
  <1> DEFINE p == Handler(c)
  <1>0. p \in Threads
    BY ThreadFacts
  <1> HIDE DEF p
  <1>1. Stable
    BY StillStable DEF Command, StartCreate, CloseTarget, AttachToTarget, SetAutoAttach, SetDiscover,
       recVars, browser
  <1>2. ASSUME NEW o \in Ops \ {"disconnect"}, NEW l \in LoosePCs, NEW t, Start(p, o, l, t),
               UNCHANGED todo
        PROVE  Tracked'
    BY <1>0, <1>1, <1>2, StartAlone, MoveOn, LooseCounters
  <1>3. ASSUME NEW o \in Ops \ {"disconnect"}, Start(p, o, "snapshot", NoTarget), UNCHANGED todo
        PROVE  Tracked'
    <2>1. Alone(p) /\ pc'[p] = "snapshot" /\ op'[p] = o
      BY <1>0, <1>3, StartAlone
    <2>2. Tracks(p)'
      BY <2>1 DEF Tracks, KnownPCs, CleanPCs
    <2> QED BY <1>0, <1>1, <2>1, <2>2, TrackedStep
  <1>4. CASE StartCreate(c)
    BY <1>2, <1>4 DEF StartCreate, p, Ops, LoosePCs
  <1>5. ASSUME NEW t \in Targets, CloseTarget(c, t) PROVE Tracked'
    <2>1. Alone(p) /\ pc'[p] = "details" /\ op'[p] = "close" /\ cur'[p] = t
      BY <1>0, <1>5, StartAlone DEF CloseTarget, p
    <2>2. state'[t] # "none"
      BY <1>5, OwnershipAssumption DEF CloseTarget, OwnerForTarget, recVars
    <2> QED BY <1>0, <1>1, <2>1, <2>2, TakeUp DEF KnownPCs
  <1>6. ASSUME NEW t \in Targets, AttachToTarget(c, t) PROVE Tracked'
    BY <1>2, <1>6 DEF AttachToTarget, p, Ops, LoosePCs
  <1>7. ASSUME NEW on \in BOOLEAN, SetAutoAttach(c, on) \/ SetDiscover(c, on) PROVE Tracked'
    BY <1>2, <1>3, <1>7 DEF SetAutoAttach, SetDiscover, p, Ops, LoosePCs
  <1> QED BY <1>4, <1>5, <1>6, <1>7 DEF Command

LEMMA TrackedHandler ==
    ASSUME Typed, Tracked, NEW c \in Conns, Snapshot(c) \/ AttachSession(c) PROVE Tracked'
  <1> DEFINE p == Handler(c)
  <1>0. p \in Threads /\ Tracks(p)
    BY ThreadFacts DEF Tracked
  <1> HIDE DEF p
  <1>1. Stable
    BY StillStable DEF Snapshot, AttachSession, recVars, browser
  <1>2. CASE Snapshot(c)
    <2>1. Alone(p) /\ pc'[p] = "next" /\ op'[p] = op[p] /\ op[p] # "disconnect"
      BY <1>0, <1>2 DEF Snapshot, p, Tracks, Alone, Typed, Control
    <2> QED BY <1>0, <1>1, <2>1, MoveOn, LooseCounters DEF LoosePCs
  <1>3. CASE AttachSession(c)
    <2>1. CASE Leave(p, "idle")
      BY <1>0, <1>1, <2>1, LeaveAlone, MoveOn, LooseCounters DEF LoosePCs
    <2>2. CASE Goto(p, "pubLookup")
      BY <1>0, <1>1, <2>2, GotoAlone, MoveOn, LooseCounters DEF LoosePCs, PublishPCs
    <2> QED BY <1>3, <2>1, <2>2 DEF AttachSession, p
  <1> QED BY <1>2, <1>3

LEMMA TrackedReader == ASSUME Typed, Tracked, ReaderStep PROVE Tracked'
  <1> USE ThreadFacts
  <1>0. Tracks(Reader) /\ (pc[Reader] \in HasPage => cur[Reader] \in Targets)
    BY PageInHand DEF Tracked
  <1>1. ASSUME NEW t \in Targets, AttachedToTarget(t) PROVE Tracked'
    <2>1. Alone(Reader) /\ pc'[Reader] = "register" /\ op'[Reader] = "attach" /\ cur'[Reader] = t
      BY <1>1, StartAlone DEF AttachedToTarget
    <2>2. Stable
      BY <1>1 DEF AttachedToTarget, Stable, recVars, Typed, Data
    <2>3. state'[t] = "none" /\ told'[t] = "attached"
      BY <1>1 DEF AttachedToTarget, recVars, Tracked, ToldFirst, Typed, Data
    <2>4. Tracks(Reader)'
      BY <2>1, <2>3 DEF Tracks, KnownPCs, CleanPCs
    <2> QED BY <2>1, <2>2, <2>4, TrackedStep
  <1>2. ASSUME NEW t \in Targets, DetachedFromTarget(t) PROVE Tracked'
    <2>1. Stable
      BY <1>2 DEF DetachedFromTarget, Stable, recVars, Typed, Data
    <2>2. CASE Start(Reader, "detach", "details", t) /\ UNCHANGED todo /\ Registered(t)
      <3>1. Alone(Reader) /\ pc'[Reader] = "details" /\ op'[Reader] = "detach" /\ cur'[Reader] = t
        BY <2>2, StartAlone
      <3>2. state'[t] # "none"
        BY <1>2, <2>2 DEF DetachedFromTarget, Registered, recVars
      <3> QED BY <2>1, <3>1, <3>2, TakeUp DEF KnownPCs
    <2>3. CASE UNCHANGED threads
      <3>1. Alone(Reader) /\ Tracks(Reader)'
        BY <1>0, <1>2, <2>3 DEF DetachedFromTarget, recVars, threads, Alone, Tracks, KnownPCs, CleanPCs
      <3> QED BY <2>1, <3>1, TrackedStep
    <2> QED BY <1>2, <2>2, <2>3 DEF DetachedFromTarget
  <1>3. CASE RegisterPair
    <2> DEFINE t == cur[Reader]
    <2>0. t \in Targets /\ state[t] = "none" /\ told[t] # "none"
      BY <1>0, <1>3 DEF RegisterPair, Tracks, HasPage, AttachPCs
    <2> HIDE DEF t
    <2>1. /\ state' = [state EXCEPT ![t] = state'[t]] /\ state'[t] \in {"open", "closing"}
          /\ told' = told
      BY <1>3, <2>0 DEF RegisterPair, t, browser, Typed, Data
    <2>2. /\ pc'[Reader] = "settle" /\ cur' = cur /\ op' = op /\ todo' = todo
          /\ Alone(Reader)
      BY <1>3 DEF RegisterPair, Alone, Typed, Control
    <2>3. ToldFirst'
      BY <2>0, <2>1 DEF Tracked, ToldFirst, Typed, Data
    <2>4. \A u \in Targets : state[u] # "none" => state'[u] = state[u]
      BY <2>0, <2>1 DEF Typed, Data
    <2>5. Tracks(Reader)'
      <3>1. todo[Reader] \subseteq Targets
        BY DEF Typed, Control
      <3>2. state'[t] # "none"
        BY <2>1
      <3> QED BY <1>0, <2>2, <2>4, <3>1, <3>2 DEF Tracks, KnownPCs, CleanPCs, t
    <2>6. ASSUME NEW q \in Threads, q # Reader PROVE Tracks(q)'
      <3>1. Tracks(q) /\ pc'[q] = pc[q]
        BY <2>2, <2>6 DEF Tracked, Alone
      <3>2. pc[q] \in HasPage => cur[q] \in Targets
        BY PageInHand
      <3>3. KnownPCs \cup CleanPCs \subseteq HasPage
        BY DEF KnownPCs, CleanPCs, HasPage, ClosePCs, AttachPCs
      <3>4. todo[q] \subseteq Targets
        BY DEF Typed, Control
      <3> QED BY <2>2, <2>4, <2>6, <3>1, <3>2, <3>3, <3>4 DEF Tracks
    <2> QED BY <2>3, <2>5, <2>6 DEF Tracked
  <1>4. CASE Settle
    <2>1. Stable /\ state'[cur[Reader]] # "none"
      BY <1>0, <1>4, StillStable DEF Settle, Tracks, KnownPCs, recVars, browser
    <2>2. CASE Goto(Reader, "details")
      BY <2>1, <2>2, GotoAlone, TakeUp DEF KnownPCs
    <2>3. ASSUME NEW l \in {"pubOwner", "park"}, Goto(Reader, l) PROVE Tracked'
      BY <2>1, <2>3, GotoAlone, MoveOn, LooseCounters DEF LoosePCs, PublishPCs
    <2> QED BY <1>4, <2>2, <2>3 DEF Settle
  <1>5. CASE Park
    BY <1>5, StillStable, LeaveAlone, MoveOn, LooseCounters DEF Park, recVars, browser, LoosePCs
  <1> QED BY <1>1, <1>2, <1>3, <1>4, <1>5, TrackedPublish, TrackedClose DEF ReaderStep

LEMMA TrackedDisconnect == ASSUME Typed, Tracked, NEW c \in Conns, CloseConnection(c) PROVE Tracked'
  <1> DEFINE p == Closer(c)
  <1>0. p \in Threads
    BY ThreadFacts
  <1> HIDE DEF p
  <1>1. Alone(p) /\ pc'[p] = "next" /\ op'[p] = "disconnect" /\ todo'[p] = OwnedPairs(c)
    BY <1>0 DEF CloseConnection, p, Start, Alone, Typed, Control
  <1>2. Stable
    BY DEF CloseConnection, OwnedPairs, Stable, browser, Typed, Data
  <1>3. \A t \in OwnedPairs(c) : state'[t] # "none"
    BY DEF CloseConnection, OwnedPairs, Typed, Data
  <1>4. Tracks(p)'
    BY <1>1, <1>3 DEF Tracks, KnownPCs, CleanPCs
  <1> QED BY <1>0, <1>1, <1>2, <1>4, TrackedStep

LEMMA TrackedWorld ==
    ASSUME Typed, Tracked, UNCHANGED <<threads, state, told>> PROVE Tracked'
  <1>1. ASSUME NEW p \in Threads PROVE Tracks(p)'
    BY DEF Tracked, Tracks, threads
  <1> QED BY <1>1 DEF Tracked, ToldFirst

LEMMA TrackedNext == Typed /\ Tracked /\ [Next]_vars => Tracked'
  <1> SUFFICES ASSUME Typed, Tracked, [Next]_vars PROVE Tracked'
    OBVIOUS
  <1>1. ASSUME NEW c \in Conns, HandlerStep(c) PROVE Tracked'
    BY <1>1, ThreadFacts, TrackedCreate, TrackedHandler, TrackedNextOf, TrackedPublish, TrackedClose
       DEF HandlerStep
  <1>2. ASSUME NEW c \in Conns, CloserStep(c) PROVE Tracked'
    BY <1>2, ThreadFacts, TrackedNextOf, TrackedClose DEF CloserStep
  <1>3. ASSUME NEW t \in Targets, ExpireClaim(t) \/ PopupOpens(t) \/ PageDies(t) PROVE Tracked'
    BY <1>3, TrackedWorld DEF ExpireClaim, PopupOpens, PageDies, recVars, browser
  <1>4. CASE UNCHANGED vars
    BY <1>4, TrackedWorld DEF vars, recVars, browser
  <1> QED BY <1>1, <1>2, <1>3, <1>4, TrackedCommand, TrackedDisconnect, TrackedReader DEF Next

------------------------------------------------------------------------------
(* The steps of Lease.                                                      *)

Leased == Held /\ Tracked

LEMMA LeaseStill == UNCHANGED <<state, owner, closed>> => [L!Next]_(L!lease)
  BY DEF L!lease

LEMMA LeaseCreate == ASSUME Leased, NEW c \in Conns, CreateStep(c) PROVE [L!Next]_(L!lease)
  <1> DEFINE p == Handler(c)
             t == cur[p]
  <1>0. p \in Threads /\ (pc[p] \in HasPage => t \in Targets)
    BY ThreadFacts, PageInHand DEF Leased, Held
  <1> HIDE DEF p, t
  <1>1. ASSUME state[t] = "open", state' = [state EXCEPT ![t] = "closing"], UNCHANGED <<owner, closed>>,
               t \in Targets
        PROVE  [L!Next]_(L!lease)
    BY <1>1 DEF L!Next, L!Release
  <1>2. CASE ClaimTarget(c)
    <2>0. t \in Targets /\ closed' = closed
      BY <1>0, <1>2 DEF ClaimTarget, p, HasPage, connState
    <2>1. CASE Registered(t) /\ c \in closed
      <3>1. state' = [state EXCEPT ![t] = "closing"] /\ owner' = owner
        BY <1>2, <2>1 DEF ClaimTarget, p, t
      <3>2. CASE state[t] = "open"
        BY <1>1, <2>0, <3>1, <3>2
      <3>3. CASE state[t] = "closing"
        <4>1. state' = state
          BY <2>0, <3>1, <3>3 DEF Leased, Held, Typed, Data
        <4> QED BY <2>0, <3>1, <4>1, LeaseStill
      <3> QED BY <2>1, <3>2, <3>3 DEF Registered
    <2>2. CASE Registered(t) /\ c \notin closed
      <3>1. CASE owner[t] = NoConn /\ state[t] = "open"
        <4>1. owner' = [owner EXCEPT ![t] = c] /\ state' = state
          BY <1>2, <2>2, <3>1 DEF ClaimTarget, p, t
        <4> QED BY <2>0, <2>2, <3>1, <4>1 DEF L!Next, L!Grant
      <3>2. CASE ~(owner[t] = NoConn /\ state[t] = "open")
        BY <1>2, <2>0, <2>2, <3>2, LeaseStill DEF ClaimTarget, p, t
      <3> QED BY <3>1, <3>2
    <2>3. CASE ~Registered(t)
      BY <1>2, <2>0, <2>3, LeaseStill DEF ClaimTarget, p, t
    <2> QED BY <2>1, <2>2, <2>3
  <1>3. ASSUME CancelTarget(p, t, "finish"), UNCHANGED connState, t \in Targets
        PROVE  [L!Next]_(L!lease)
    <2>1. CASE state[t] = "open"
      BY <1>1, <1>3, <2>1 DEF CancelTarget, Registered, connState
    <2>2. CASE state[t] # "open"
      <3>1. state' = state /\ owner' = owner
        BY <1>3, <2>2 DEF CancelTarget, Registered, Leased, Held, Typed, Data
      <3> QED BY <1>3, <3>1, LeaseStill DEF connState
    <2> QED BY <2>1, <2>2
  <1>4. CASE Waiting(c)
    BY <1>0, <1>3, <1>4, LeaseStill DEF Waiting, p, t, HasPage, recVars, connState
  <1>5. CASE Navigate(c)
    BY <1>0, <1>3, <1>5, LeaseStill DEF Navigate, p, t, HasPage, recVars, connState
  <1>6. CASE NewPage(c) \/ NewPageReturns(c) \/ Found(c) \/ FinishCreate(c)
    BY <1>6, LeaseStill DEF NewPage, NewPageReturns, Found, FinishCreate, recVars, connState
  <1> QED BY <1>2, <1>4, <1>5, <1>6 DEF CreateStep

LEMMA LeaseClose ==
    ASSUME Leased, NEW p \in Threads, CloseRecord(p) PROVE [L!Next]_(L!lease)
  <1>0. Tracks(p) /\ Typed
    BY DEF Leased, Held, Tracked
  <1>00. pc[p] \in ClosePCs => cur[p] \in Targets
    BY <1>0, PageInHand DEF HasPage
  <1>1. CASE BeginCleanup(p)
    <2>1. cur[p] \in Targets /\ state[cur[p]] # "none"
      BY <1>0, <1>00, <1>1 DEF BeginCleanup, Tracks, KnownPCs, ClosePCs
    <2>2. CASE CleanupRefused(cur[p])
      BY <1>1, <2>2, LeaseStill DEF BeginCleanup, connState
    <2>3. CASE ~CleanupRefused(cur[p])
      <3>1. /\ state' = [state EXCEPT ![cur[p]] = "closing"] /\ UNCHANGED <<owner, closed>>
            /\ state[cur[p]] \in {"open", "closing"}
        BY <1>0, <1>1, <2>1, <2>3 DEF BeginCleanup, CleanupRefused, connState, Typed, Data
      <3>2. CASE state[cur[p]] = "open"
        BY <2>1, <3>1, <3>2 DEF L!Next, L!Release
      <3>3. CASE state[cur[p]] = "closing"
        <4>1. state' = state
          BY <1>0, <2>1, <3>1, <3>3 DEF Typed, Data
        <4> QED BY <3>1, <4>1, LeaseStill
      <3> QED BY <3>1, <3>2, <3>3
    <2> QED BY <2>2, <2>3
  <1>2. CASE Remove(p)
    <2>1. /\ cur[p] \in Targets /\ state[cur[p]] \in {"closing", "closed"}
          /\ state' = [state EXCEPT ![cur[p]] = "closed"] /\ UNCHANGED <<owner, closed>>
      BY <1>0, <1>00, <1>2 DEF Remove, Tracks, CleanPCs, ClosePCs, connState
    <2>2. CASE state[cur[p]] = "closing"
      BY <2>1, <2>2 DEF L!Next, L!Finish
    <2>3. CASE state[cur[p]] = "closed"
      <3>1. state' = state
        BY <1>0, <2>1, <2>3 DEF Typed, Data
      <3> QED BY <2>1, <3>1, LeaseStill
    <2> QED BY <2>1, <2>2, <2>3
  <1>3. CASE Details(p) \/ PageClose(p) \/ PageCloseReturns(p) \/ Announce(p) \/ Drop(p)
    BY <1>3, LeaseStill DEF Details, PageClose, PageCloseReturns, Announce, Drop, recVars, connState
  <1> QED BY <1>1, <1>2, <1>3 DEF CloseRecord

\* Without popups the owner of a new record is the live owner of its claim, or none.
LEMMA LeaseRegister ==
    ASSUME Leased, \A t \in Targets : Opener[t] = NoTarget, RegisterPair
    PROVE  [L!Next]_(L!lease)
  <1> DEFINE t == cur[Reader]
             c == IF CancelledAtAttach(t) THEN NoConn
                  ELSE IF claim[t] # NoConn THEN claim[t] ELSE own[Reader]
  <1>1. t \in Targets /\ state[t] = "none" /\ pc[Reader] = "register"
    BY ThreadFacts, PageInHand
       DEF RegisterPair, Leased, Held, Tracked, Tracks, HasPage, AttachPCs
  <1>2. own[Reader] = NoConn
    BY <1>1 DEF Leased, Held, ReaderOwn
  <1>3. claim[t] \in Conns \cup {NoConn} /\ claim[t] \notin closed /\ NoConn \notin closed
    BY <1>1, OwnershipAssumption DEF Leased, Held, OwnerLive, Typed, Data
  <1>4. c \in (Conns \cup {NoConn}) \ closed
    BY <1>2, <1>3
  <1>5. /\ owner' = [owner EXCEPT ![t] = c] /\ closed' = closed
        /\ state' = [state EXCEPT ![t] = IF CancelledAtAttach(t) THEN "closing" ELSE "open"]
    BY DEF RegisterPair, connState
  <1>6. CancelledAtAttach(t) => c = NoConn
    OBVIOUS
  <1> HIDE DEF t, c
  <1> QED BY <1>1, <1>4, <1>5, <1>6 DEF L!Next, L!Appear

LEMMA LeaseNext ==
    ASSUME Leased, \A t \in Targets : Opener[t] = NoTarget, [Next]_vars PROVE [L!Next]_(L!lease)
  <1>1. ASSUME NEW p \in Threads, Publish(p) \/ NextOf(p) PROVE [L!Next]_(L!lease)
    BY <1>1, LeaseStill DEF Publish, PubOwner, PubDiscover, PubCreated, PubAuto, PubLookup, PubSend,
       NextOf, recVars, connState
  <1>2. ASSUME NEW c \in Conns, HandlerStep(c) PROVE [L!Next]_(L!lease)
    BY <1>1, <1>2, ThreadFacts, LeaseCreate, LeaseClose, LeaseStill
       DEF HandlerStep, Snapshot, AttachSession, recVars, connState
  <1>3. ASSUME NEW c \in Conns, CloserStep(c) PROVE [L!Next]_(L!lease)
    BY <1>1, <1>3, ThreadFacts, LeaseClose DEF CloserStep
  <1>4. ASSUME NEW c \in Conns, Command(c) PROVE [L!Next]_(L!lease)
    BY <1>4, LeaseStill DEF Command, StartCreate, CloseTarget, AttachToTarget, SetAutoAttach, SetDiscover,
       recVars, connState
  <1>5. ASSUME NEW c \in Conns, CloseConnection(c) PROVE [L!Next]_(L!lease)
    BY <1>5 DEF CloseConnection, OwnedPairs, L!Next, L!Disconnect
  <1>6. CASE ReaderStep
    BY <1>1, <1>6, ThreadFacts, LeaseRegister, LeaseClose, LeaseStill
       DEF ReaderStep, AttachedToTarget, DetachedFromTarget, Settle, Park, recVars, connState
  <1>7. ASSUME NEW t \in Targets, ExpireClaim(t) \/ PopupOpens(t) \/ PageDies(t)
        PROVE  [L!Next]_(L!lease)
    BY <1>7, LeaseStill DEF ExpireClaim, PopupOpens, PageDies, recVars, connState
  <1>8. CASE UNCHANGED vars
    BY <1>8, LeaseStill DEF vars, recVars, connState
  <1> QED BY <1>2, <1>3, <1>4, <1>5, <1>6, <1>7, <1>8 DEF Next

\* When no page is a popup the registry implements Lease: whatever the order of
\* attach events, replies, timers and disconnects, a page has one owner over its
\* life, never one that is gone, and a record that is closing is neither opened
\* again nor given to anyone (ownership.go: claimTarget, registerPair,
\* beginCleanup, cancelTarget, remove, closeConnection).
THEOREM LeaseHolds == ASSUME \A t \in Targets : Opener[t] = NoTarget PROVE Spec => LeaseSpec
  <1>1. Init => L!Init
    BY DEF Init, L!Init
  <1>2. Init => Leased
    BY HeldInit, TrackedInit DEF Leased
  <1>3. Leased /\ [Next]_vars => Leased'
    BY HeldNext, TrackedNext DEF Leased, Held
  <1>4. Leased /\ [Next]_vars => [L!Next]_(L!lease)
    BY LeaseNext
  <1> QED BY <1>1, <1>2, <1>3, <1>4, PTL DEF Spec, LeaseSpec, L!Spec
------------------------------------------------------------------------------
(* A closing record has a closer.  The property is not inductive: that a     *)
(* thread turned away by beginCleanup leaves the record to someone needs     *)
(* the one cleaner of every record whose cleanup began, and that a record    *)
(* closeConnection queued is not dropped from the queue needs Queued.        *)

\* A thread past beginCleanup works on a record that is marked, and closing.
Marked == \A p \in Threads : pc[p] \in CleanPCs => cur[p] \in cleaned /\ state[cur[p]] = "closing"

\* One thread alone cleans a record up.
OneCleaner ==
    \A p, q \in Threads : pc[p] \in CleanPCs /\ pc[q] \in CleanPCs /\ cur[p] = cur[q] => p = q

\* A record whose cleanup began is removed, or about to be.
Cleaned ==
    \A t \in cleaned :
        \/ state[t] = "closed"
        \/ state[t] = "closing" /\ \E p \in Threads : cur[p] = t /\ pc[p] \in CleanPCs

\* The close hook is at its loop, or at one of the records of its loop.
Queued == \A p \in Threads : op[p] = "disconnect" => pc[p] \in {"next"} \cup ClosePCs

\* A record that is closing was handed to a thread.
Handed ==
    \A t \in Targets : state[t] = "closing" => t \in cleaned \/ \E p \in Threads : Closes(p, t)

Ending == Marked /\ OneCleaner /\ Cleaned /\ Queued /\ Handed

LEMMA CleanPCsClose ==
    /\ CleanPCs = ClosePCs \ {"details", "begin"}
    /\ CleanPCs \subseteq ClosePCs
    /\ ClosePCs \subseteq HasPage
  BY DEF CleanPCs, ClosePCs, HasPage

LEMMA EndingInit == Init => Ending
  BY DEF Init, Ending, Marked, OneCleaner, Cleaned, Queued, Handed, CleanPCs, ClosePCs

\* The thread that cleans t up is the only one past beginCleanup with it.
LEMMA EndingHasCloser == ASSUME Typed, Ending PROVE ClosingHasCloser
  <1> SUFFICES ASSUME NEW t \in Targets, state[t] = "closing"
               PROVE  IF t \in cleaned
                      THEN Cardinality({p \in Threads : cur[p] = t /\ pc[p] \in CleanPCs}) = 1
                      ELSE \E p \in Threads : Closes(p, t)
    BY CleanPCsClose DEF ClosingHasCloser
  <1>1. CASE t \in cleaned
    <2>1. PICK p \in Threads : cur[p] = t /\ pc[p] \in CleanPCs
      BY <1>1 DEF Ending, Cleaned
    <2>2. {q \in Threads : cur[q] = t /\ pc[q] \in CleanPCs} = {p}
      BY <2>1 DEF Ending, OneCleaner
    <2> QED BY <1>1, <2>2, FS_Singleton
  <1>2. CASE t \notin cleaned
    BY <1>2 DEF Ending, Handed
  <1> QED BY <1>1, <1>2

\* A step of p outside of the cleanup: it loses no record that is closing, and
\* takes the records it makes closing in hand.
LEMMA EndingStep ==
    ASSUME Typed, Ending, NEW p \in Threads, Alone(p),
           cleaned' = cleaned, cancelled \subseteq cancelled',
           pc[p] \notin CleanPCs, pc'[p] \notin CleanPCs,
           op'[p] = "disconnect" => pc'[p] \in {"next"} \cup ClosePCs,
           \A t \in Targets : \/ state'[t] = state[t]
                              \/ state[t] = "none" /\ state'[t] = "open"
                              \/ t \notin cleaned /\ state'[t] = "closing" /\ Closes(p, t)',
           \A t \in Targets : Closes(p, t) =>
                  Closes(p, t)' \/ t \in cleaned \/ state[t] = "closed"
    PROVE  Ending'
  <1>0. \A q \in Threads : pc[q] \in CleanPCs => cur[q] \in Targets
    BY PageInHand, CleanPCsClose
  <1>1. \A q \in Threads : pc'[q] \in CleanPCs =>
            q # p /\ pc'[q] = pc[q] /\ cur'[q] = cur[q] /\ pc[q] \in CleanPCs
    BY DEF Alone
  <1>2. \A q \in Threads : pc[q] \in CleanPCs => q # p /\ pc'[q] = pc[q] /\ cur'[q] = cur[q]
    BY DEF Alone
  <1>3. \A t \in cleaned : t \in Targets /\ state'[t] = state[t]
    BY DEF Typed, Data, Ending, Cleaned
  <1>4. Marked'
    BY <1>0, <1>1, <1>3 DEF Ending, Marked
  <1>5. OneCleaner'
    BY <1>1 DEF Ending, OneCleaner
  <1>6. Cleaned'
    BY <1>2, <1>3 DEF Ending, Cleaned
  <1>7. Queued'
    BY DEF Ending, Queued, Alone
  <1>8. ASSUME NEW q \in Threads, q # p, NEW t \in Targets, Closes(q, t) PROVE Closes(q, t)'
    BY <1>8 DEF Closes, Alone
  <1>9. Handed'
    BY <1>8 DEF Ending, Handed
  <1> QED BY <1>4, <1>5, <1>6, <1>7, <1>9 DEF Ending

\* A step outside of closeRecord and of the loop over the records of a closed
\* connection, which leaves the records alone.
LEMMA EndingQuiet ==
    ASSUME Typed, Ending, NEW p \in Threads, Alone(p),
           UNCHANGED <<state, cleaned, cancelled>>,
           pc[p] \notin {"found", "settle", "next"} \cup ClosePCs, pc'[p] \notin CleanPCs,
           op'[p] # "disconnect"
    PROVE  Ending'
  <1>1. \A t \in Targets : ~Closes(p, t)
    BY DEF Ending, Queued, Closes
  <1> QED BY <1>1, EndingStep, CleanPCsClose

\* The cleanup goes on.
LEMMA EndingGoesOn ==
    ASSUME Typed, Ending, NEW p \in Threads, NEW l \in CleanPCs, Goto(p, l), pc[p] \in CleanPCs,
           UNCHANGED <<state, cleaned, cancelled>>
    PROVE  Ending'
  <1>1. /\ Alone(p) /\ pc'[p] = l /\ cur' = cur /\ op' = op /\ todo' = todo
        /\ \A q \in Threads : pc'[q] \in CleanPCs <=> pc[q] \in CleanPCs
    BY GotoAlone DEF Goto, Typed, Control
  <1>2. Marked' /\ OneCleaner' /\ Cleaned'
    BY <1>1 DEF Ending, Marked, OneCleaner, Cleaned
  <1>3. Queued'
    BY <1>1, CleanPCsClose DEF Ending, Queued, Alone
  <1>4. \A q \in Threads, t \in Targets : Closes(q, t) => Closes(q, t)'
    BY <1>1, CleanPCsClose DEF Closes, Alone
  <1>5. Handed'
    BY <1>4 DEF Ending, Handed
  <1> QED BY <1>2, <1>3, <1>5 DEF Ending

\* Where a step of publishOwnedPair or emitEvent leads.
LEMMA PublishMoves ==
    ASSUME Typed, NEW p \in Threads, Publish(p)
    PROVE  /\ Alone(p) /\ pc'[p] \in PublishPCs \cup {"navigate", "next", "idle"}
           /\ op'[p] \in {op[p], "none"}
  <1>1. ASSUME NEW l \in PublishPCs, Goto(p, l)
        PROVE  Alone(p) /\ pc'[p] \in PublishPCs /\ op'[p] = op[p]
    BY <1>1, GotoAlone
  <1>2. ASSUME Leave(p, AfterPublish(p))
        PROVE  Alone(p) /\ pc'[p] \in {"navigate", "next", "idle"} /\ op'[p] \in {op[p], "none"}
    BY <1>2, LeaveAlone, AfterPublishChoices
  <1>3. ASSUME NEW l \in PublishPCs, pc' = [pc EXCEPT ![p] = l], UNCHANGED <<op, cur, todo>>
        PROVE  Alone(p) /\ pc'[p] \in PublishPCs /\ op'[p] = op[p]
    BY <1>3 DEF Alone, Typed, Control
  <1> QED BY <1>1, <1>2, <1>3
          DEF Publish, PubOwner, PubDiscover, PubCreated, PubAuto, PubLookup, PubSend, PublishPCs

LEMMA EndingPublish == ASSUME Typed, Ending, NEW p \in Threads, Publish(p) PROVE Ending'
  <1>1. pc[p] \in PublishPCs /\ UNCHANGED <<state, cleaned, cancelled>>
    BY DEF Publish, PubOwner, PubDiscover, PubCreated, PubAuto, PubLookup, PubSend, PublishPCs, recVars
  <1>2. op[p] # "disconnect"
    BY <1>1 DEF Ending, Queued, PublishPCs, ClosePCs
  <1>3. /\ Alone(p) /\ pc'[p] \in PublishPCs \cup {"navigate", "next", "idle"}
        /\ op'[p] \in {op[p], "none"}
    BY PublishMoves
  <1>4. (PublishPCs \cup {"navigate", "next", "idle"}) \cap CleanPCs = {}
        /\ PublishPCs \cap ({"found", "settle", "next"} \cup ClosePCs) = {}
    BY DEF PublishPCs, CleanPCs, ClosePCs
  <1> QED BY <1>1, <1>2, <1>3, <1>4, EndingQuiet

\* Back from closeRecord: the loop of a close hook goes on.
LEMMA ClosingLeaves ==
    ASSUME Typed, NEW p \in Threads, Leave(p, AfterClose(p))
    PROVE  /\ Alone(p) /\ pc'[p] = AfterClose(p) /\ todo'[p] = todo[p]
           /\ op'[p] = op[p] \/ (op'[p] = "none" /\ op[p] # "disconnect")
  <1>1. Alone(p) /\ pc'[p] = AfterClose(p) /\ todo'[p] = todo[p]
    BY LeaveAlone, AfterCloseChoices
  <1>2. op[p] = "disconnect" => AfterClose(p) = "next"
    BY DEF AfterClose
  <1>3. op'[p] = IF AfterClose(p) = "idle" THEN "none" ELSE op[p]
    BY DEF Leave, Typed, Control
  <1> QED BY <1>1, <1>2, <1>3

LEMMA EndingClose == ASSUME Typed, Tracked, Ending, NEW p \in Threads, CloseRecord(p) PROVE Ending'
  <1> DEFINE t == cur[p]
  <1>0. t \in Targets /\ pc[p] \in ClosePCs
    BY PageInHand, CleanPCsClose DEF CloseRecord, Details, BeginCleanup, PageClose, PageCloseReturns,
       Announce, Drop, Remove, ClosePCs
  <1> HIDE DEF t
  <1>1. CASE Details(p)
    <2>1. /\ Alone(p) /\ pc'[p] = "begin" /\ op'[p] = op[p] /\ todo'[p] = todo[p] /\ cur'[p] = cur[p]
          /\ UNCHANGED <<state, cleaned, cancelled>> /\ pc[p] = "details"
      BY <1>1 DEF Details, Alone, Typed, Control, recVars
    <2>2. \A u \in Targets : Closes(p, u) => Closes(p, u)'
      BY <2>1 DEF Closes, ClosePCs
    <2>3. pc'[p] \in ClosePCs \ CleanPCs /\ pc[p] \notin CleanPCs
      BY <2>1 DEF ClosePCs, CleanPCs
    <2> QED BY <2>1, <2>2, <2>3, EndingStep
  <1>2. CASE BeginCleanup(p) /\ CleanupRefused(t)
    <2>1. /\ UNCHANGED <<state, cleaned, cancelled>> /\ pc[p] = "begin"
          /\ Leave(p, AfterClose(p))
      BY <1>2 DEF BeginCleanup, t
    <2>2. /\ Alone(p) /\ pc'[p] = AfterClose(p) /\ todo'[p] = todo[p]
          /\ op'[p] = op[p] \/ (op'[p] = "none" /\ op[p] # "disconnect")
      BY <2>1, ClosingLeaves
    <2>3. op'[p] = "disconnect" => pc'[p] = "next"
      BY <2>2 DEF AfterClose
    <2>4. \A u \in Targets : Closes(p, u) => Closes(p, u)' \/ u \in cleaned \/ state[u] = "closed"
      BY <1>2, <2>1, <2>2 DEF Closes, CleanupRefused, t
    <2>5. pc'[p] \notin CleanPCs /\ pc[p] \notin CleanPCs
      BY <2>1, <2>2, AfterCloseChoices DEF CleanPCs
    <2> QED BY <2>1, <2>2, <2>3, <2>4, <2>5, EndingStep
  <1>3. CASE BeginCleanup(p) /\ ~CleanupRefused(t)
    <2>1. /\ t \notin cleaned /\ cleaned' = cleaned \cup {t} /\ cancelled' = cancelled
          /\ state' = [state EXCEPT ![t] = "closing"] /\ cur' = cur /\ op' = op /\ todo' = todo
          /\ pc' = [pc EXCEPT ![p] = CleanupStart(p)] /\ pc[p] = "begin"
      BY <1>3 DEF BeginCleanup, CleanupRefused, Goto, t
    <2>2. /\ pc'[p] \in CleanPCs /\ state'[t] = "closing" /\ pc[p] \notin CleanPCs
          /\ \A q \in Threads \ {p} : pc'[q] = pc[q]
          /\ \A u \in Targets \ {t} : state'[u] = state[u]
      BY <1>0, <2>1 DEF CleanupStart, CleanPCs, Typed, Control, Data
    <2>3. \A q \in Threads : pc[q] \in CleanPCs => cur[q] \in Targets \ {t}
      BY <2>1, PageInHand, CleanPCsClose DEF Ending, Marked
    <2>4. Marked'
      BY <2>1, <2>2, <2>3 DEF Ending, Marked, t
    <2>5. OneCleaner'
      BY <2>1, <2>2, <2>3 DEF Ending, OneCleaner, t
    <2>6. Cleaned'
      <3> SUFFICES ASSUME NEW u \in cleaned'
                   PROVE  state'[u] = "closed" \/ (state'[u] = "closing" /\
                              \E q \in Threads : cur'[q] = u /\ pc'[q] \in CleanPCs)
        BY DEF Cleaned
      <3>1. CASE u = t
        BY <2>1, <2>2, <3>1 DEF t
      <3>2. CASE u # t
        <4>1. u \in cleaned /\ state'[u] = state[u]
          BY <2>1, <2>2, <3>2 DEF Typed, Data
        <4>2. \A q \in Threads : pc[q] \in CleanPCs => pc'[q] \in CleanPCs /\ cur'[q] = cur[q]
          BY <2>1, <2>2
        <4> QED BY <4>1, <4>2 DEF Ending, Cleaned
      <3> QED BY <3>1, <3>2
    <2>7. Queued'
      BY <2>1, <2>2, CleanPCsClose DEF Ending, Queued
    <2>8. \A q \in Threads, u \in Targets : Closes(q, u) => Closes(q, u)'
      BY <2>1, <2>2, CleanPCsClose DEF Closes
    <2>9. Handed'
      BY <2>1, <2>2, <2>8 DEF Ending, Handed
    <2> QED BY <2>4, <2>5, <2>6, <2>7, <2>9 DEF Ending
  <1>4. CASE PageClose(p) \/ PageCloseReturns(p) \/ Announce(p) \/ Drop(p)
    <2>1. pc[p] \in CleanPCs /\ UNCHANGED <<state, cleaned, cancelled>> /\ \E l \in CleanPCs : Goto(p, l)
      BY <1>4 DEF PageClose, PageCloseReturns, Announce, Drop, recVars, CleanPCs
    <2> QED BY <2>1, EndingGoesOn
  <1>5. CASE Remove(p)
    <2>1. /\ pc[p] \in CleanPCs /\ UNCHANGED <<cleaned, cancelled>>
          /\ state' = [state EXCEPT ![t] = "closed"] /\ Leave(p, AfterClose(p))
      BY <1>5 DEF Remove, CleanPCs, t
    <2>2. /\ Alone(p) /\ pc'[p] = AfterClose(p) /\ todo'[p] = todo[p]
          /\ op'[p] = op[p] \/ (op'[p] = "none" /\ op[p] # "disconnect")
      BY <2>1, ClosingLeaves
    <2>3. pc'[p] \notin CleanPCs
      BY <2>2, AfterCloseChoices DEF CleanPCs
    <2>4. \A q \in Threads \ {p} : pc[q] \in CleanPCs => cur[q] # t
      BY <2>1 DEF Ending, OneCleaner, t
    <2>5. state'[t] = "closed" /\ \A u \in Targets \ {t} : state'[u] = state[u]
      BY <1>0, <2>1 DEF Typed, Data
    <2>6. \A q \in Threads : pc[q] \in CleanPCs => cur[q] \in Targets
      BY PageInHand, CleanPCsClose
    <2>7. Marked'
      BY <2>1, <2>2, <2>3, <2>4, <2>5, <2>6 DEF Ending, Marked, Alone
    <2>8. OneCleaner'
      BY <2>2, <2>3 DEF Ending, OneCleaner, Alone
    <2>9. Cleaned'
      <3> SUFFICES ASSUME NEW u \in cleaned, u # t
                   PROVE  state'[u] = "closed" \/ (state'[u] = "closing" /\
                              \E q \in Threads : cur'[q] = u /\ pc'[q] \in CleanPCs)
        BY <2>1, <2>5 DEF Cleaned
      <3>1. state'[u] = state[u]
        BY <2>5 DEF Typed, Data
      <3>2. \A q \in Threads : pc[q] \in CleanPCs /\ cur[q] = u => pc'[q] = pc[q] /\ cur'[q] = cur[q]
        BY <2>2 DEF Alone, t
      <3> QED BY <3>1, <3>2 DEF Ending, Cleaned
    <2>10. Queued'
      BY <2>2 DEF Ending, Queued, Alone, AfterClose
    <2>11. \A q \in Threads, u \in Targets \ {t} : Closes(q, u) => Closes(q, u)'
      BY <2>1, <2>2 DEF Closes, Alone, t, CleanPCs
    <2>12. Handed'
      BY <2>1, <2>5, <2>11 DEF Ending, Handed
    <2> QED BY <2>7, <2>8, <2>9, <2>10, <2>12 DEF Ending
  <1> QED BY <1>1, <1>2, <1>3, <1>4, <1>5 DEF CloseRecord

\* The close hook takes its records one by one.
LEMMA EndingNextOf == ASSUME Typed, Ending, NEW p \in Threads, NextOf(p) PROVE Ending'
  <1>1. UNCHANGED <<state, cleaned, cancelled>> /\ pc[p] = "next" /\ pc[p] \notin CleanPCs
    BY DEF NextOf, recVars, CleanPCs
  <1>2. CASE todo[p] = {} /\ Leave(p, "idle")
    <2>1. Alone(p) /\ pc'[p] = "idle" /\ op'[p] = "none"
      BY <1>2, LeaveAlone DEF Leave, Typed, Control
    <2>2. \A t \in Targets : ~Closes(p, t)
      BY <1>1, <1>2 DEF Closes, ClosePCs
    <2> QED BY <1>1, <2>1, <2>2, EndingStep DEF CleanPCs
  <1>3. ASSUME NEW t \in todo[p],
               todo' = [todo EXCEPT ![p] = @ \ {t}],
               cur'  = [cur EXCEPT ![p] = t],
               pc'   = [pc EXCEPT ![p] = Visit(p, t)],
               UNCHANGED op
        PROVE  Ending'
    <2>1. /\ Alone(p) /\ pc'[p] = Visit(p, t) /\ op'[p] = op[p] /\ cur'[p] = t
          /\ todo'[p] = todo[p] \ {t}
      BY <1>3 DEF Alone, Typed, Control
    <2>2. Visit(p, t) \in {"pubOwner", "details", "pubLookup", "next"}
          /\ (op[p] = "disconnect" => Visit(p, t) = "details")
      BY DEF Visit
    <2>3. \A u \in Targets : Closes(p, u) => Closes(p, u)'
      BY <1>1, <2>1, <2>2 DEF Closes, ClosePCs
    <2>4. pc'[p] \notin CleanPCs /\ (op'[p] = "disconnect" => pc'[p] \in ClosePCs)
      BY <2>1, <2>2 DEF CleanPCs, ClosePCs
    <2> QED BY <1>1, <2>1, <2>3, <2>4, EndingStep
  <1> QED BY <1>2, <1>3 DEF NextOf

\* createTarget: a record it finds cancelled, or cancels itself, it closes.
LEMMA EndingCreate == ASSUME Typed, Tracked, Ending, NEW c \in Conns, CreateStep(c) PROVE Ending'
  <1> DEFINE p == Handler(c)
             t == cur[p]
  <1>0. p \in Threads /\ (pc[p] \in HasPage => t \in Targets)
    BY ThreadFacts, PageInHand
  <1> HIDE DEF p, t
  <1>1. pc[p] \in CreatePCs /\ pc[p] \notin CleanPCs /\ op[p] # "disconnect"
    BY <1>0 DEF CreateStep, NewPage, NewPageReturns, ClaimTarget, Found, Waiting, Navigate, FinishCreate,
       CreatePCs, CleanPCs, ClosePCs, Ending, Queued, p
  <1>2. CreatePCs \cap ({"settle", "next"} \cup ClosePCs) = {}
    BY DEF CreatePCs, ClosePCs
  <1>3. \A u \in Targets : Closes(p, u) => pc[p] = "found" /\ u = t /\ t \in cancelled
    BY <1>1, <1>2 DEF Closes, t
  <1>4. ASSUME NEW l \in CreatePCs \cup {"details", "pubOwner"}, Goto(p, l)
        PROVE  /\ Alone(p) /\ pc'[p] = l /\ pc'[p] \notin CleanPCs /\ op'[p] # "disconnect"
               /\ cur'[p] = t
    BY <1>0, <1>1, <1>4, GotoAlone DEF CreatePCs, CleanPCs, t
  <1>5. CASE NewPage(c)
    <2>1. /\ Alone(p) /\ pc'[p] \in {"reply", "finish"} /\ op'[p] = op[p] /\ pc[p] = "newPage"
          /\ UNCHANGED <<state, cleaned, cancelled>>
      BY <1>0, <1>5 DEF NewPage, p, Alone, Typed, Control, recVars
    <2> QED BY <1>0, <1>1, <1>2, <2>1, EndingQuiet DEF CleanPCs
  <1>6. CASE NewPageReturns(c)
    <2>1. \/ Goto(p, "claim")
          \/ Goto(p, "finish")
      BY <1>6 DEF NewPageReturns, p
    <2>2. UNCHANGED <<state, cleaned, cancelled>> /\ pc[p] = "reply"
      BY <1>6 DEF NewPageReturns, recVars, p
    <2> QED BY <1>0, <1>1, <1>2, <1>4, <2>1, <2>2, EndingQuiet DEF CreatePCs
  <1>7. CASE ClaimTarget(c)
    <2>0. t \in Targets /\ pc[p] = "claim" /\ cleaned' = cleaned
      BY <1>0, <1>7 DEF ClaimTarget, p, HasPage
    <2>1. \A u \in Targets : ~Closes(p, u)
      BY <1>3, <2>0
    <2>2. CASE Registered(t) /\ c \in closed
      <3>1. /\ cancelled' = cancelled \cup {t} /\ state' = [state EXCEPT ![t] = "closing"]
            /\ Goto(p, "found")
        BY <1>7, <2>2 DEF ClaimTarget, p, t
      <3>2. (\A u \in Targets : u = t => Closes(p, u)') /\ pc'[p] = "found" /\ Alone(p) /\ op'[p] # "disconnect"
            /\ pc'[p] \notin CleanPCs
        BY <1>4, <3>1 DEF Closes, CreatePCs
      <3>3. t \in cleaned => state[t] = "closing"
        BY <2>2 DEF Ending, Cleaned, Registered
      <3>4. \A u \in Targets : \/ state'[u] = state[u]
                               \/ u \notin cleaned /\ state'[u] = "closing" /\ Closes(p, u)'
        BY <3>1, <3>2, <3>3, <2>0 DEF Typed, Data
      <3> QED BY <1>0, <1>1, <2>0, <2>1, <3>1, <3>2, <3>4, EndingStep
    <2>3. CASE ~(Registered(t) /\ c \in closed)
      <3>1. /\ UNCHANGED <<state, cancelled>> /\ (Goto(p, "found") \/ Goto(p, "waiting"))
        BY <1>7, <2>3 DEF ClaimTarget, p, t
      <3>2. Alone(p) /\ pc'[p] \notin CleanPCs /\ op'[p] # "disconnect"
        BY <1>4, <3>1 DEF CreatePCs
      <3> QED BY <1>0, <1>1, <2>0, <2>1, <3>1, <3>2, EndingStep
    <2> QED BY <2>2, <2>3
  <1>8. CASE Found(c)
    <2>1. /\ pc[p] = "found" /\ Goto(p, FoundNext(c, t)) /\ UNCHANGED <<state, cleaned, cancelled>>
          /\ FoundNext(c, t) \in {"details", "pubOwner", "navigate"}
          /\ (t \in cancelled => FoundNext(c, t) = "details")
      BY <1>8 DEF Found, FoundNext, p, t, recVars
    <2>2. /\ Alone(p) /\ pc'[p] = FoundNext(c, t) /\ op'[p] # "disconnect" /\ cur'[p] = t
          /\ pc'[p] \notin CleanPCs
      BY <1>4, <2>1 DEF CreatePCs
    <2>3. \A u \in Targets : Closes(p, u) => Closes(p, u)'
      BY <1>3, <2>1, <2>2 DEF Closes, ClosePCs
    <2> QED BY <1>0, <1>1, <2>1, <2>2, <2>3, EndingStep
  <1>9. ASSUME CancelTarget(p, t, "finish"), t \in Targets, pc[p] # "found" PROVE Ending'
    <2>1. \A u \in Targets : ~Closes(p, u)
      BY <1>3, <1>9
    <2>2. CASE Registered(t)
      <3>1. /\ cancelled' = cancelled \cup {t} /\ state' = [state EXCEPT ![t] = "closing"]
            /\ Goto(p, "details") /\ cleaned' = cleaned
        BY <1>9, <2>2 DEF CancelTarget
      <3>2. (\A u \in Targets : u = t => Closes(p, u)') /\ pc'[p] = "details" /\ Alone(p) /\ op'[p] # "disconnect"
            /\ pc'[p] \notin CleanPCs
        BY <1>4, <3>1 DEF Closes, ClosePCs
      <3>3. t \in cleaned => state[t] = "closing"
        BY <2>2 DEF Ending, Cleaned, Registered
      <3>4. \A u \in Targets : \/ state'[u] = state[u]
                               \/ u \notin cleaned /\ state'[u] = "closing" /\ Closes(p, u)'
        BY <1>9, <3>1, <3>2, <3>3 DEF Typed, Data
      <3> QED BY <1>0, <1>1, <2>1, <3>1, <3>2, <3>4, EndingStep
    <2>3. CASE ~Registered(t)
      <3>1. UNCHANGED <<state, cancelled, cleaned>> /\ Goto(p, "finish")
        BY <1>9, <2>3 DEF CancelTarget
      <3>2. Alone(p) /\ pc'[p] \notin CleanPCs /\ op'[p] # "disconnect"
        BY <1>4, <3>1 DEF CreatePCs
      <3> QED BY <1>0, <1>1, <2>1, <3>1, <3>2, EndingStep
    <2> QED BY <2>2, <2>3
  <1>10. ASSUME NEW l \in {"navigate", "finish"}, Goto(p, l), UNCHANGED recVars, pc[p] # "found"
         PROVE  Ending'
    <2>1. Alone(p) /\ pc'[p] \notin CleanPCs /\ op'[p] # "disconnect"
      BY <1>4, <1>10 DEF CreatePCs
    <2> QED BY <1>0, <1>1, <1>2, <1>10, <2>1, EndingQuiet DEF recVars
  <1>11. CASE Waiting(c)
    BY <1>0, <1>9, <1>10, <1>11 DEF Waiting, p, t, HasPage
  <1>12. CASE Navigate(c)
    BY <1>0, <1>9, <1>10, <1>12 DEF Navigate, p, t, HasPage
  <1>13. CASE FinishCreate(c)
    <2>1. Leave(p, "idle") /\ UNCHANGED <<state, cleaned, cancelled>> /\ pc[p] = "finish"
      BY <1>13 DEF FinishCreate, p, recVars
    <2>2. Alone(p) /\ pc'[p] = "idle" /\ op'[p] # "disconnect"
      BY <1>0, <1>1, <2>1, LeaveAlone
    <2> QED BY <1>0, <1>1, <1>2, <2>1, <2>2, EndingQuiet DEF CleanPCs
  <1> QED BY <1>5, <1>6, <1>7, <1>8, <1>11, <1>12, <1>13 DEF CreateStep

\* Commands, and the other steps of a handler.
LEMMA EndingCommand ==
    ASSUME Typed, Ending, NEW c \in Conns, Command(c) \/ Snapshot(c) \/ AttachSession(c) PROVE Ending'
  <1> DEFINE p == Handler(c)
  <1>0. p \in Threads
    BY ThreadFacts
  <1> HIDE DEF p
  <1>1. UNCHANGED <<state, cleaned, cancelled>>
    BY DEF Command, StartCreate, CloseTarget, AttachToTarget, SetAutoAttach, SetDiscover, Snapshot,
       AttachSession, recVars
  <1>2. ASSUME NEW o \in Ops \ {"disconnect"}, NEW l \in PCs \ CleanPCs, NEW t, Start(p, o, l, t),
               UNCHANGED todo
        PROVE  Ending'
    <2>1. Alone(p) /\ pc'[p] = l /\ op'[p] = o /\ pc[p] = "idle"
      BY <1>0, <1>2, StartAlone DEF Start
    <2> QED BY <1>0, <1>1, <2>1, EndingQuiet DEF ClosePCs
  <1>3. {"newPage", "details", "attachTo", "snapshot", "next", "pubLookup", "idle"} \subseteq PCs \ CleanPCs
    BY DEF PCs, CreatePCs, ClosePCs, PublishPCs, CleanPCs
  <1>4. {"create", "close", "attachTo", "autoAttach", "discover"} \subseteq Ops \ {"disconnect"}
    BY DEF Ops
  <1>5. CASE Command(c)
    BY <1>2, <1>3, <1>4, <1>5
       DEF Command, StartCreate, CloseTarget, AttachToTarget, SetAutoAttach, SetDiscover, p
  <1>6. CASE Snapshot(c)
    <2>1. Alone(p) /\ pc'[p] = "next" /\ op'[p] = op[p] /\ pc[p] = "snapshot"
      BY <1>0, <1>6 DEF Snapshot, p, Alone, Typed, Control
    <2>2. op[p] # "disconnect"
      BY <1>0, <2>1 DEF Ending, Queued, ClosePCs
    <2> QED BY <1>0, <1>1, <1>3, <2>1, <2>2, EndingQuiet DEF ClosePCs
  <1>7. CASE AttachSession(c)
    <2>1. pc[p] = "attachTo" /\ (Leave(p, "idle") \/ Goto(p, "pubLookup"))
      BY <1>7 DEF AttachSession, p
    <2>2. op[p] # "disconnect"
      BY <1>0, <2>1 DEF Ending, Queued, ClosePCs
    <2>3. Alone(p) /\ pc'[p] \in {"idle", "pubLookup"} /\ op'[p] # "disconnect"
      BY <1>0, <2>1, <2>2, GotoAlone, LeaveAlone
    <2> QED BY <1>0, <1>1, <1>3, <2>1, <2>3, EndingQuiet DEF ClosePCs
  <1> QED BY <1>5, <1>6, <1>7

\* The close hook takes its open records in hand in one step.
LEMMA EndingDisconnect == ASSUME Typed, Ending, NEW c \in Conns, CloseConnection(c) PROVE Ending'
  <1> DEFINE p == Closer(c)
  <1>0. p \in Threads
    BY ThreadFacts
  <1> HIDE DEF p
  <1>1. /\ Alone(p) /\ pc'[p] = "next" /\ op'[p] = "disconnect" /\ todo'[p] = OwnedPairs(c)
        /\ pc[p] = "idle" /\ UNCHANGED <<cleaned, cancelled>>
    BY <1>0 DEF CloseConnection, p, Start, Alone, Typed, Control
  <1>2. \A t \in Targets : ~Closes(p, t)
    BY <1>0, <1>1 DEF Ending, Queued, Closes, ClosePCs
  <1>3. \A t \in OwnedPairs(c) : t \notin cleaned /\ Closes(p, t)'
    BY <1>1 DEF Ending, Cleaned, OwnedPairs, Closes
  <1>4. \A t \in Targets : \/ state'[t] = state[t]
                           \/ t \notin cleaned /\ state'[t] = "closing" /\ Closes(p, t)'
    BY <1>3 DEF CloseConnection, Typed, Data
  <1> QED BY <1>0, <1>1, <1>2, <1>4, EndingStep DEF CleanPCs

\* The read loop: a record registered as cancelled it closes itself.
LEMMA EndingReader == ASSUME Typed, Tracked, Ending, ReaderStep PROVE Ending'
  <1>0. Reader \in Threads
    BY ThreadFacts
  <1>1. ASSUME NEW t \in Targets, AttachedToTarget(t) PROVE Ending'
    <2>1. /\ Alone(Reader) /\ pc'[Reader] = "register" /\ op'[Reader] = "attach" /\ pc[Reader] = "idle"
          /\ UNCHANGED <<state, cleaned, cancelled>>
      BY <1>0, <1>1, StartAlone DEF AttachedToTarget, Start, recVars
    <2> QED BY <1>0, <2>1, EndingQuiet DEF ClosePCs, CleanPCs
  <1>2. ASSUME NEW t \in Targets, DetachedFromTarget(t) PROVE Ending'
    <2>1. UNCHANGED <<state, cleaned, cancelled>> /\ pc[Reader] = "idle"
      BY <1>2 DEF DetachedFromTarget, recVars
    <2>2. CASE Start(Reader, "detach", "details", t) /\ UNCHANGED todo
      <3>1. Alone(Reader) /\ pc'[Reader] = "details" /\ op'[Reader] = "detach"
        BY <1>0, <2>2, StartAlone
      <3> QED BY <1>0, <2>1, <3>1, EndingQuiet DEF ClosePCs, CleanPCs
    <2>3. CASE UNCHANGED threads
      <3>1. Alone(Reader) /\ pc'[Reader] = "idle" /\ op'[Reader] = op[Reader]
        BY <2>1, <2>3 DEF threads, Alone
      <3>2. op[Reader] # "disconnect"
        BY <1>0, <2>1 DEF Ending, Queued, ClosePCs
      <3> QED BY <1>0, <2>1, <3>1, <3>2, EndingQuiet DEF ClosePCs, CleanPCs
    <2> QED BY <1>2, <2>2, <2>3 DEF DetachedFromTarget
  <1>3. CASE RegisterPair
    <2>1. pc[Reader] = "register" /\ cur[Reader] \in Targets
      BY <1>0, <1>3, PageInHand DEF RegisterPair, HasPage, AttachPCs
    <2> DEFINE t == cur[Reader]
    <2>2. /\ state[t] = "none" /\ op[Reader] # "disconnect"
      BY <1>0, <2>1 DEF Tracked, Tracks, Ending, Queued, ClosePCs
    <2>3. t \notin cleaned
      BY <2>2 DEF Ending, Cleaned
    <2>4. /\ Alone(Reader) /\ pc'[Reader] = "settle" /\ op' = op /\ cur' = cur
          /\ cleaned' = cleaned /\ cancelled \subseteq cancelled'
          /\ state' = [state EXCEPT ![t] = state'[t]]
          /\ state'[t] = "open" \/ (state'[t] = "closing" /\ t \in cancelled')
      BY <1>0, <1>3, <2>1 DEF RegisterPair, Alone, Typed, Control, Data
    <2>5. \A u \in Targets : u # t => state'[u] = state[u]
      BY <2>4 DEF Typed, Data
    <2>6. \A u \in Targets : u = t /\ u \in cancelled' => Closes(Reader, u)'
      BY <2>4 DEF Closes
    <2>7. \A u \in Targets : ~Closes(Reader, u)
      BY <2>1, <2>2 DEF Closes, ClosePCs
    <2> HIDE DEF t
    <2>8. \A u \in Targets : \/ state'[u] = state[u]
                             \/ state[u] = "none" /\ state'[u] = "open"
                             \/ u \notin cleaned /\ state'[u] = "closing" /\ Closes(Reader, u)'
      BY <2>2, <2>3, <2>4, <2>5, <2>6
    <2> QED BY <1>0, <2>1, <2>2, <2>4, <2>7, <2>8, EndingStep DEF CleanPCs
  <1>4. CASE Settle
    <2>1. /\ pc[Reader] = "settle" /\ UNCHANGED <<state, cleaned, cancelled>>
          /\ \E l \in {"details", "pubOwner", "park"} :
                Goto(Reader, l) /\ (cur[Reader] \in cancelled => l = "details")
      BY <1>4 DEF Settle, recVars
    <2>2. op[Reader] # "disconnect"
      BY <1>0, <2>1 DEF Ending, Queued, ClosePCs
    <2>3. /\ Alone(Reader) /\ pc'[Reader] \in {"details", "pubOwner", "park"} /\ op'[Reader] # "disconnect"
          /\ cur'[Reader] = cur[Reader]
          /\ (cur[Reader] \in cancelled => pc'[Reader] = "details")
      BY <1>0, <2>1, <2>2, GotoAlone
    <2>4. \A u \in Targets : Closes(Reader, u) => Closes(Reader, u)'
      BY <2>1, <2>2, <2>3 DEF Closes, ClosePCs
    <2> QED BY <1>0, <2>1, <2>3, <2>4, EndingStep DEF CleanPCs
  <1>5. CASE Park
    <2>1. /\ pc[Reader] = "park" /\ UNCHANGED <<state, cleaned, cancelled>> /\ Leave(Reader, "idle")
      BY <1>5 DEF Park, recVars
    <2>2. Alone(Reader) /\ pc'[Reader] = "idle" /\ op'[Reader] # "disconnect"
      BY <1>0, <2>1, LeaveAlone DEF Ending, Queued, ClosePCs
    <2> QED BY <1>0, <2>1, <2>2, EndingQuiet DEF ClosePCs, CleanPCs
  <1> QED BY <1>0, <1>1, <1>2, <1>3, <1>4, <1>5, EndingPublish, EndingClose DEF ReaderStep

LEMMA EndingWorld ==
    ASSUME Ending, UNCHANGED <<threads, state, cleaned, cancelled>> PROVE Ending'
  <1>1. \A p \in Threads, t \in Targets : Closes(p, t) => Closes(p, t)'
    BY DEF Closes, threads
  <1> QED BY <1>1 DEF Ending, Marked, OneCleaner, Cleaned, Queued, Handed, threads

LEMMA EndingNext == Typed /\ Tracked /\ Ending /\ [Next]_vars => Ending'
  <1> SUFFICES ASSUME Typed, Tracked, Ending, [Next]_vars PROVE Ending'
    OBVIOUS
  <1>1. ASSUME NEW c \in Conns, HandlerStep(c) PROVE Ending'
    BY <1>1, ThreadFacts, EndingCreate, EndingCommand, EndingNextOf, EndingPublish, EndingClose
       DEF HandlerStep
  <1>2. ASSUME NEW c \in Conns, CloserStep(c) PROVE Ending'
    BY <1>2, ThreadFacts, EndingNextOf, EndingClose DEF CloserStep
  <1>3. ASSUME NEW t \in Targets, ExpireClaim(t) \/ PopupOpens(t) \/ PageDies(t) PROVE Ending'
    BY <1>3, EndingWorld DEF ExpireClaim, PopupOpens, PageDies, recVars
  <1>4. CASE UNCHANGED vars
    BY <1>4, EndingWorld DEF vars, recVars
  <1> QED BY <1>1, <1>2, <1>3, <1>4, EndingCommand, EndingDisconnect, EndingReader DEF Next

\* In every behaviour, with any number of clients and pages, a record that is
\* closing is in the hands of a goroutine that will remove it, and of one alone
\* once its cleanup has begun: whoever beginCleanup turns away leaves the record
\* to another, and no record closeConnection, cancelTarget, claimTarget or
\* registerPair marks is forgotten.
THEOREM ClosersFound == Spec => []ClosingHasCloser
  <1>1. Init => Typed /\ Tracked /\ Ending
    BY TypedInit, TrackedInit, EndingInit
  <1>2. Typed /\ Tracked /\ Ending /\ [Next]_vars => (Typed /\ Tracked /\ Ending)'
    BY TypedNext, TrackedNext, EndingNext
  <1>3. Typed /\ Tracked /\ Ending => ClosingHasCloser
    BY EndingHasCloser
  <1> QED BY <1>1, <1>2, <1>3, PTL DEF Spec

------------------------------------------------------------------------------
(* Nothing is left behind of a closed page.  Two windows make the property    *)
(* fail on its own: the sessions are added a step before the record (Ready),  *)
(* and the read loop stores and parks the pair of a record that others may    *)
(* already close (Storing).  The second is closed by the read loop itself:    *)
(* while it is there no reply of the backend reaches another closer, and a    *)
(* closer that goes on without one makes the page late.                       *)

\* t has left the tables; its pair may stay if the close did not wait for it.
Gone(t) == t \notin sessions /\ (t \in late \/ t \notin pairs \cup parked)

Opened == \A t \in Targets : state[t] = "open" => t \in sessions

Ready == pc[Reader] = "register" => cur[Reader] \in sessions

Ended == \A t \in Targets : state[t] = "closed" => Gone(t)

Dropped == \A p \in Threads : pc[p] = "remove" => Gone(cur[p])

\* Only the read loop closes a record without asking the backend.
Detaching == \A p \in Threads : op[p] = "detach" => p = Reader

\* The read loop is about to store or to park the pair of t, and nobody went past it.
BeingStored(t) == StillStoring(t) /\ t \notin late

LatePCs == {"announce", "drop", "remove"}

\* A pair being stored is not yet taken out again.
Storing ==
    /\ \A t \in Targets : BeingStored(t) => state[t] # "closed"
    /\ \A p \in Threads : pc[p] \in LatePCs => ~BeingStored(cur[p])

Cleared == Opened /\ Ready /\ Ended /\ Dropped /\ Detaching /\ Storing

LEMMA ClearedInit == Init => Cleared
  BY ThreadFacts DEF Init, Cleared, Opened, Ready, Ended, Dropped, Detaching, Storing, BeingStored, StillStoring, LatePCs

LEMMA ClearedNothingLeft == Cleared => NothingLeft
  BY DEF Cleared, Opened, Ended, Gone, NothingLeft

\* A step other than those of the read loop that add a session, a record, a
\* pair or a parked page.
LEMMA ClearedStep ==
    ASSUME Typed, Cleared, NEW p \in Threads, Alone(p),
           pc'[p] \notin {"register", "settle", "park"},
           op'[p] = "detach" => p = Reader,
           sessions' \subseteq sessions, pairs' \subseteq pairs, parked' \subseteq parked,
           late \subseteq late',
           \A t \in sessions \ sessions' :
               state'[t] # "open" /\ ~(pc'[Reader] = "register" /\ cur'[Reader] = t),
           \A t \in Targets : \/ state'[t] \in {state[t], "closing"}
                              \/ state'[t] = "closed" /\ Gone(t) /\ ~BeingStored(t),
           pc'[p] \in LatePCs => ~BeingStored(cur'[p]) \/ cur'[p] \in late',
           pc'[p] = "remove" => cur'[p] \notin sessions'
                                /\ (cur'[p] \in late' \/ cur'[p] \notin pairs' \cup parked')
    PROVE  Cleared'
  <1>0. Reader \in Threads
    BY ThreadFacts
  <1>1. \A t : Gone(t) => Gone(t)'
    BY DEF Gone
  <1>2. Opened'
    BY DEF Cleared, Opened
  <1>3. Ready'
    BY <1>0 DEF Cleared, Ready, Alone
  <1>4. Ended'
    BY <1>1 DEF Cleared, Ended
  <1>5. Dropped'
    <2> SUFFICES ASSUME NEW q \in Threads, pc'[q] = "remove" PROVE Gone(cur[q])'
      BY DEF Dropped
    <2>1. CASE q = p
      BY <2>1 DEF Gone
    <2>2. CASE q # p
      <3>1. Gone(cur[q]) /\ cur'[q] = cur[q]
        BY <2>2 DEF Cleared, Dropped, Alone
      <3> QED BY <3>1 DEF Gone
    <2> QED BY <2>1, <2>2
  <1>6. Detaching'
    BY DEF Cleared, Detaching, Alone
  <1>7. \A t : BeingStored(t)' => BeingStored(t) /\ p # Reader
    BY <1>0 DEF BeingStored, StillStoring, Alone
  <1>8. Storing'
    <2>1. ASSUME NEW t \in Targets, BeingStored(t)' PROVE state'[t] # "closed"
      BY <1>7, <2>1 DEF Cleared, Storing
    <2>2. ASSUME NEW q \in Threads, pc'[q] \in LatePCs PROVE ~BeingStored(cur[q])'
      <3>1. CASE q = p
        BY <1>0, <2>2, <3>1 DEF BeingStored, StillStoring, Alone
      <3>2. CASE q # p
        <4>1. ~BeingStored(cur[q]) /\ cur'[q] = cur[q]
          BY <2>2, <3>2 DEF Cleared, Storing, Alone
        <4> QED BY <1>0, <4>1 DEF BeingStored, StillStoring, Alone
      <3> QED BY <3>1, <3>2
    <2> QED BY <2>1, <2>2 DEF Storing
  <1> QED BY <1>2, <1>3, <1>4, <1>5, <1>6, <1>8 DEF Cleared

\* A step that leaves the tables alone but for a page that is no longer parked.
LEMMA ClearedQuiet ==
    ASSUME Typed, Cleared, NEW p \in Threads, Alone(p),
           pc'[p] \notin {"register", "settle", "park"} \cup LatePCs,
           op'[p] = "detach" => p = Reader,
           UNCHANGED <<sessions, pairs, late>>, parked' \subseteq parked,
           \A t \in Targets : state'[t] \in {state[t], "closing"}
    PROVE  Cleared'
  BY ClearedStep DEF LatePCs

LEMMA NotDetaching ==
    ASSUME Cleared, NEW p \in Threads PROVE op[p] = "detach" => p = Reader
  BY DEF Cleared, Detaching

LEMMA ClearedPublish == ASSUME Typed, Cleared, NEW p \in Threads, Publish(p) PROVE Cleared'
  <1>1. UNCHANGED <<sessions, pairs, state, late>> /\ parked' \subseteq parked
    BY DEF Publish, PubOwner, PubDiscover, PubCreated, PubAuto, PubLookup, PubSend, recVars, bridge, history
  <1>2. /\ Alone(p) /\ pc'[p] \in PublishPCs \cup {"navigate", "next", "idle"}
        /\ op'[p] \in {op[p], "none"}
    BY PublishMoves
  <1>3. (PublishPCs \cup {"navigate", "next", "idle"})
           \cap ({"register", "settle", "park"} \cup LatePCs) = {}
    BY DEF PublishPCs, LatePCs
  <1> QED BY <1>1, <1>2, <1>3, NotDetaching, ClearedQuiet

LEMMA ClearedClose ==
    ASSUME Typed, Tracked, Ending, Cleared, NEW p \in Threads, CloseRecord(p) PROVE Cleared'
  <1> DEFINE t == cur[p]
  <1>0. t \in Targets /\ Reader \in Threads
    BY ThreadFacts, PageInHand, CleanPCsClose DEF CloseRecord, Details, BeginCleanup, PageClose,
       PageCloseReturns, Announce, Drop, Remove, ClosePCs
  <1>1. pc[p] \in CleanPCs => state[t] = "closing"
    BY DEF Ending, Marked
  <1>2. pc[p] \in LatePCs => ~BeingStored(t)
    BY DEF Cleared, Storing
  <1> HIDE DEF t
  <1>3. CASE Details(p)
    <2>1. /\ Alone(p) /\ pc'[p] = "begin" /\ op'[p] = op[p]
          /\ UNCHANGED <<sessions, pairs, parked, state, late>>
      BY <1>3 DEF Details, Alone, Typed, Control, recVars, bridge, history
    <2> QED BY <2>1, NotDetaching, ClearedQuiet DEF LatePCs
  <1>4. CASE BeginCleanup(p)
    <2>1. UNCHANGED <<sessions, pairs, parked, late>> /\ pc[p] = "begin"
          /\ \A u \in Targets : state'[u] \in {state[u], "closing"}
      BY <1>4 DEF BeginCleanup, bridge, history, Typed, Data
    <2>2. CASE Leave(p, AfterClose(p))
      <3>1. Alone(p) /\ pc'[p] \in {"finish", "next", "idle"} /\ op'[p] \in {op[p], "none"}
        BY <2>2, ClosingLeaves, AfterCloseChoices
      <3> QED BY <2>1, <3>1, NotDetaching, ClearedQuiet DEF LatePCs
    <2>3. CASE Goto(p, CleanupStart(p))
      <3>1. /\ Alone(p) /\ pc'[p] = CleanupStart(p) /\ op'[p] = op[p] /\ cur'[p] = cur[p]
            /\ CleanupStart(p) \in {"announce", "pageClose"}
            /\ (CleanupStart(p) = "announce" => op[p] = "detach")
        BY <2>3, GotoAlone DEF CleanupStart
      <3>2. CleanupStart(p) = "announce" => ~BeingStored(cur[p])
        BY <2>1, <3>1, NotDetaching DEF BeingStored, StillStoring
      <3> QED BY <2>1, <3>1, <3>2, NotDetaching, ClearedStep DEF LatePCs
    <2> QED BY <1>4, <2>2, <2>3 DEF BeginCleanup
  <1>5. CASE PageClose(p)
    <2>1. Goto(p, "closeReply") /\ UNCHANGED <<sessions, pairs, parked, state, late>>
      BY <1>5 DEF PageClose, recVars, bridge, history
    <2>2. Alone(p) /\ pc'[p] = "closeReply" /\ op'[p] = op[p]
      BY <2>1, GotoAlone
    <2> QED BY <2>1, <2>2, NotDetaching, ClearedQuiet DEF LatePCs
  <1>6. CASE PageCloseReturns(p)
    <2>1. /\ Goto(p, "announce") /\ UNCHANGED <<sessions, pairs, parked, state>> /\ pc[p] = "closeReply"
          /\ late' = IF StillStoring(cur[p]) THEN late \cup {cur[p]} ELSE late
      BY <1>6 DEF PageCloseReturns, recVars, bridge
    <2>2. Alone(p) /\ pc'[p] = "announce" /\ op'[p] = op[p] /\ cur'[p] = cur[p]
      BY <2>1, GotoAlone
    <2>3. late \subseteq late' /\ (~BeingStored(cur'[p]) \/ cur'[p] \in late')
      BY <2>1, <2>2 DEF BeingStored
    <2> QED BY <2>1, <2>2, <2>3, NotDetaching, ClearedStep
  <1>7. CASE Announce(p)
    <2>1. /\ Goto(p, "drop") /\ UNCHANGED <<sessions, parked, state, late>> /\ pairs' \subseteq pairs
          /\ pc[p] \in LatePCs
      BY <1>7 DEF Announce, recVars, LatePCs
    <2>2. Alone(p) /\ pc'[p] = "drop" /\ op'[p] = op[p] /\ cur'[p] = t
      BY <2>1, GotoAlone DEF t
    <2> QED BY <1>2, <2>1, <2>2, NotDetaching, ClearedStep
  <1>8. CASE Drop(p)
    <2>1. /\ Goto(p, "remove") /\ state' = state /\ pc[p] \in LatePCs /\ pc[p] \in CleanPCs
          /\ sessions' = sessions \ {t} /\ pairs' = pairs \ {t} /\ parked' = parked \ {t}
          /\ late' = late
      BY <1>8 DEF Drop, Unparked, recVars, history, LatePCs, CleanPCs, t
    <2>2. /\ Alone(p) /\ pc'[p] = "remove" /\ op'[p] = op[p] /\ cur'[p] = t
      BY <2>1, GotoAlone DEF t
    <2>3. ~(pc'[Reader] = "register" /\ cur'[Reader] = t)
      <3>1. pc[Reader] = "register" => state[cur[Reader]] = "none"
        BY <1>0 DEF Tracked, Tracks
      <3> QED BY <1>0, <1>1, <2>1, <2>2, <3>1 DEF Alone
    <2> QED BY <1>1, <1>2, <2>1, <2>2, <2>3, NotDetaching, ClearedStep
  <1>9. CASE Remove(p)
    <2>1. /\ Leave(p, AfterClose(p)) /\ UNCHANGED <<sessions, pairs, parked, late>> /\ pc[p] = "remove"
          /\ state' = [state EXCEPT ![t] = "closed"]
      BY <1>9 DEF Remove, bridge, history, t
    <2>2. Alone(p) /\ pc'[p] \in {"finish", "next", "idle"} /\ op'[p] \in {op[p], "none"}
      BY <2>1, ClosingLeaves, AfterCloseChoices
    <2>3. Gone(t) /\ ~BeingStored(t)
      BY <1>2, <2>1 DEF Cleared, Dropped, LatePCs, t
    <2>4. \A u \in Targets : \/ state'[u] \in {state[u], "closing"}
                             \/ state'[u] = "closed" /\ Gone(u) /\ ~BeingStored(u)
      BY <2>1, <2>3 DEF Typed, Data
    <2> QED BY <2>1, <2>2, <2>4, NotDetaching, ClearedStep DEF LatePCs
  <1> QED BY <1>3, <1>4, <1>5, <1>6, <1>7, <1>8, <1>9 DEF CloseRecord

LEMMA ClearedNextOf == ASSUME Typed, Cleared, NEW p \in Threads, NextOf(p) PROVE Cleared'
  <1>1. UNCHANGED <<sessions, pairs, parked, state, late>>
    BY DEF NextOf, recVars, bridge, history
  <1>2. CASE Leave(p, "idle")
    <2>1. Alone(p) /\ pc'[p] = "idle" /\ op'[p] \in {op[p], "none"}
      BY <1>2, LeaveAlone
    <2> QED BY <1>1, <2>1, NotDetaching, ClearedQuiet DEF LatePCs
  <1>3. ASSUME NEW t \in todo[p],
               todo' = [todo EXCEPT ![p] = @ \ {t}],
               cur'  = [cur EXCEPT ![p] = t],
               pc'   = [pc EXCEPT ![p] = Visit(p, t)],
               UNCHANGED op
        PROVE  Cleared'
    <2>1. Alone(p) /\ pc'[p] \in {"pubOwner", "details", "pubLookup", "next"} /\ op'[p] = op[p]
      BY <1>3 DEF Visit, Alone, Typed, Control
    <2> QED BY <1>1, <2>1, NotDetaching, ClearedQuiet DEF LatePCs
  <1> QED BY <1>2, <1>3 DEF NextOf

\* A handler never takes a page out of the tables outside of closeRecord.
LEMMA ClearedHandler ==
    ASSUME Typed, Cleared, NEW c \in Conns,
           CreateStep(c) \/ Command(c) \/ Snapshot(c) \/ AttachSession(c)
    PROVE  Cleared'
  <1> DEFINE p == Handler(c)
  <1>0. p \in Threads /\ p # Reader
    BY ThreadFacts
  <1>1. op[p] # "detach"
    BY <1>0, NotDetaching
  <1> HIDE DEF p
  <1>2. UNCHANGED <<sessions, pairs, parked, late>>
    BY DEF CreateStep, NewPage, NewPageReturns, ClaimTarget, Found, Waiting, Navigate, FinishCreate,
       Command, StartCreate, CloseTarget, AttachToTarget, SetAutoAttach, SetDiscover, Snapshot,
       AttachSession, bridge, history
  <1> DEFINE Quiet == {"newPage", "reply", "claim", "found", "waiting", "navigate", "finish", "attachTo",
                       "snapshot", "next", "details", "pubOwner", "pubLookup", "idle"}
  <1>3. Quiet \cap ({"register", "settle", "park"} \cup LatePCs) = {}
    BY DEF LatePCs
  <1>4. ASSUME NEW l \in Quiet, Goto(p, l) PROVE Alone(p) /\ pc'[p] \in Quiet /\ op'[p] # "detach"
    BY <1>0, <1>1, <1>4, GotoAlone
  <1>5. ASSUME NEW l \in Quiet, Leave(p, l) PROVE Alone(p) /\ pc'[p] \in Quiet /\ op'[p] # "detach"
    BY <1>0, <1>1, <1>5, LeaveAlone
  <1>6. ASSUME NEW l \in Quiet, NEW o \in Ops \ {"detach"}, NEW t, Start(p, o, l, t), UNCHANGED todo
        PROVE  Alone(p) /\ pc'[p] \in Quiet /\ op'[p] # "detach"
    BY <1>0, <1>6, StartAlone
  <1>7. {"newPage", "reply", "claim", "found", "waiting", "navigate", "finish", "attachTo",
         "snapshot", "next", "details", "pubOwner", "pubLookup", "idle"} \subseteq Quiet
    OBVIOUS
  <1> HIDE DEF Quiet
  <1>8. CASE CreateStep(c)
    <2>1. CASE NewPage(c)
      <3>1. Alone(p) /\ pc'[p] \in Quiet /\ op'[p] # "detach"
        BY <1>0, <1>1, <1>7, <2>1 DEF NewPage, p, Alone, Typed, Control
      <3> QED BY <1>0, <1>2, <1>3, <2>1, <3>1, ClearedQuiet DEF NewPage, recVars
    <2>2. CASE NewPageReturns(c) \/ Found(c) \/ FinishCreate(c)
      <3>1. FoundNext(c, cur[p]) \in Quiet
        BY <1>7 DEF FoundNext
      <3>2. Alone(p) /\ pc'[p] \in Quiet /\ op'[p] # "detach"
        BY <1>4, <1>5, <1>7, <2>2, <3>1 DEF NewPageReturns, Found, FinishCreate, p
      <3>3. UNCHANGED state
        BY <2>2 DEF NewPageReturns, Found, FinishCreate, recVars
      <3> QED BY <1>0, <1>2, <1>3, <3>2, <3>3, ClearedQuiet
    <2>3. CASE ClaimTarget(c)
      <3>1. Alone(p) /\ pc'[p] \in Quiet /\ op'[p] # "detach"
        BY <1>4, <1>7, <2>3 DEF ClaimTarget, p
      <3>2. \A t \in Targets : state'[t] \in {state[t], "closing"}
        BY <2>3 DEF ClaimTarget, Typed, Data
      <3> QED BY <1>0, <1>2, <1>3, <3>1, <3>2, ClearedQuiet
    <2>4. CASE Waiting(c) \/ Navigate(c)
      <3>1. CASE CancelTarget(p, cur[p], "finish")
        <4>1. Alone(p) /\ pc'[p] \in Quiet /\ op'[p] # "detach"
          BY <1>4, <1>7, <3>1 DEF CancelTarget
        <4>2. \A t \in Targets : state'[t] \in {state[t], "closing"}
          BY <3>1 DEF CancelTarget, Typed, Data
        <4> QED BY <1>0, <1>2, <1>3, <4>1, <4>2, ClearedQuiet
      <3>2. CASE UNCHANGED <<claimVars, recVars>> /\ (Goto(p, "navigate") \/ Goto(p, "finish"))
        <4>1. Alone(p) /\ pc'[p] \in Quiet /\ op'[p] # "detach"
          BY <1>4, <1>7, <3>2
        <4> QED BY <1>0, <1>2, <1>3, <3>2, <4>1, ClearedQuiet DEF recVars
      <3> QED BY <2>4, <3>1, <3>2 DEF Waiting, Navigate, p
    <2> QED BY <1>8, <2>1, <2>2, <2>3, <2>4 DEF CreateStep
  <1>9. CASE Command(c)
    <2>1. {"create", "close", "attachTo", "autoAttach", "discover"} \subseteq Ops \ {"detach"}
      BY DEF Ops
    <2>2. Alone(p) /\ pc'[p] \in Quiet /\ op'[p] # "detach"
      BY <1>6, <1>7, <1>9, <2>1
         DEF Command, StartCreate, CloseTarget, AttachToTarget, SetAutoAttach, SetDiscover, p
    <2>3. UNCHANGED state
      BY <1>9 DEF Command, StartCreate, CloseTarget, AttachToTarget, SetAutoAttach, SetDiscover, recVars
    <2> QED BY <1>0, <1>2, <1>3, <2>2, <2>3, ClearedQuiet
  <1>10. CASE Snapshot(c) \/ AttachSession(c)
    <2>1. CASE Snapshot(c)
      <3>1. Alone(p) /\ pc'[p] \in Quiet /\ op'[p] # "detach"
        BY <1>0, <1>1, <1>7, <2>1 DEF Snapshot, p, Alone, Typed, Control
      <3> QED BY <1>0, <1>2, <1>3, <2>1, <3>1, ClearedQuiet DEF Snapshot, recVars
    <2>2. CASE AttachSession(c)
      <3>1. Alone(p) /\ pc'[p] \in Quiet /\ op'[p] # "detach"
        BY <1>4, <1>5, <1>7, <2>2 DEF AttachSession, p
      <3> QED BY <1>0, <1>2, <1>3, <2>2, <3>1, ClearedQuiet DEF AttachSession, recVars
    <2> QED BY <1>10, <2>1, <2>2
  <1> QED BY <1>8, <1>9, <1>10

LEMMA ClearedDisconnect == ASSUME Typed, Cleared, NEW c \in Conns, CloseConnection(c) PROVE Cleared'
  <1> DEFINE p == Closer(c)
  <1>0. p \in Threads
    BY ThreadFacts
  <1> HIDE DEF p
  <1>1. /\ Alone(p) /\ pc'[p] = "next" /\ op'[p] = "disconnect"
        /\ UNCHANGED <<sessions, pairs, parked, late>>
    BY <1>0 DEF CloseConnection, p, Start, Alone, Typed, Control, bridge, history
  <1>2. \A t \in Targets : state'[t] \in {state[t], "closing"}
    BY DEF CloseConnection, Typed, Data
  <1> QED BY <1>0, <1>1, <1>2, ClearedQuiet DEF LatePCs

\* The read loop adds the sessions, then the record, then the pair.
LEMMA ClearedReader == ASSUME Typed, Tracked, Ending, Cleared, ReaderStep PROVE Cleared'
  <1>0. Reader \in Threads
    BY ThreadFacts
  <1>1. ASSUME NEW t \in Targets, AttachedToTarget(t) PROVE Cleared'
    <2>1. /\ Alone(Reader) /\ pc'[Reader] = "register" /\ op'[Reader] = "attach" /\ cur'[Reader] = t
          /\ state' = state /\ sessions' = sessions \cup {t} /\ UNCHANGED <<pairs, parked, late>>
      BY <1>0, <1>1, StartAlone DEF AttachedToTarget, recVars, history
    <2>2. state[t] = "none"
      BY <1>1 DEF AttachedToTarget, Tracked, ToldFirst
    <2>3. \A u : Gone(u) /\ u # t => Gone(u)'
      BY <2>1 DEF Gone
    <2>4. Opened' /\ Ready' /\ Ended'
      BY <2>1, <2>2, <2>3 DEF Cleared, Opened, Ready, Ended
    <2>5. \A q \in Threads : pc[q] \in LatePCs => cur[q] # t
      BY <2>2 DEF Ending, Marked, LatePCs, CleanPCs
    <2>6. Dropped'
      BY <2>1, <2>3, <2>5 DEF Cleared, Dropped, Alone, LatePCs
    <2>7. Detaching' /\ Storing'
      BY <2>1 DEF Cleared, Detaching, Storing, BeingStored, StillStoring, LatePCs, Alone
    <2> QED BY <2>4, <2>6, <2>7 DEF Cleared
  <1>2. ASSUME NEW t \in Targets, DetachedFromTarget(t) PROVE Cleared'
    <2>1. CASE Start(Reader, "detach", "details", t) /\ UNCHANGED <<own, todo, bridge>>
      <3>1. Alone(Reader) /\ pc'[Reader] = "details" /\ op'[Reader] = "detach"
        BY <1>0, <2>1, StartAlone
      <3> QED BY <1>0, <1>2, <2>1, <3>1, ClearedQuiet
             DEF DetachedFromTarget, recVars, bridge, history, LatePCs
    <2>2. CASE ~Registered(t) /\ sessions' = sessions \ {t} /\ UNCHANGED <<threads, pairs, parked>>
      <3>1. /\ Alone(Reader) /\ pc'[Reader] = "idle" /\ op'[Reader] = op[Reader] /\ state' = state
            /\ state[t] # "open" /\ late' = late
        BY <1>2, <2>2 DEF DetachedFromTarget, threads, Alone, Registered, recVars, history
      <3> QED BY <1>0, <2>2, <3>1, ClearedStep DEF LatePCs
    <2> QED BY <1>2, <2>1, <2>2 DEF DetachedFromTarget
  <1>3. CASE RegisterPair
    <2>1. pc[Reader] = "register" /\ cur[Reader] \in Targets
      BY <1>0, <1>3, PageInHand DEF RegisterPair, HasPage, AttachPCs
    <2>2. state[cur[Reader]] = "none" /\ cur[Reader] \in sessions
      BY <1>0, <2>1 DEF Tracked, Tracks, Cleared, Ready
    <2>3. /\ Alone(Reader) /\ pc'[Reader] = "settle" /\ op' = op /\ cur' = cur
          /\ UNCHANGED <<sessions, pairs, parked, late>>
          /\ state' = [state EXCEPT ![cur[Reader]] = state'[cur[Reader]]]
          /\ state'[cur[Reader]] \in {"open", "closing"}
      BY <1>0, <1>3, <2>1 DEF RegisterPair, Alone, bridge, history, Typed, Control, Data
    <2>4. \A u \in Targets : state'[u] = state[u] \/ (u = cur[Reader] /\ state'[u] \in {"open", "closing"})
      BY <2>3 DEF Typed, Data
    <2>5. Opened' /\ Ready' /\ Ended'
      BY <2>2, <2>3, <2>4 DEF Cleared, Opened, Ready, Ended, Gone
    <2>6. Dropped' /\ Detaching'
      BY <2>3 DEF Cleared, Dropped, Detaching, Gone, Alone
    <2>7. \A q \in Threads : pc[q] \in LatePCs => cur[q] # cur[Reader]
      BY <2>2 DEF Ending, Marked, LatePCs, CleanPCs
    <2>8. Storing'
      BY <2>3, <2>7 DEF Storing, BeingStored, StillStoring, Alone, LatePCs
    <2> QED BY <2>5, <2>6, <2>8 DEF Cleared
  <1>4. ASSUME NEW l \in {"details", "pubOwner", "park", "idle"},
               Alone(Reader), pc'[Reader] = l, op'[Reader] \in {op[Reader], "none"},
               l # "idle" => cur'[Reader] = cur[Reader],
               pc[Reader] \in {"settle", "park"},
               UNCHANGED <<state, sessions, late>>,
               pairs' \cup parked' \subseteq pairs \cup parked \cup {cur[Reader]}
        PROVE  Cleared'
    <2>1. \A q \in Threads : q # Reader /\ pc[q] = "remove" => ~BeingStored(cur[q])
      BY DEF Cleared, Storing, LatePCs
    <2>2. cur[Reader] \in Targets
      BY <1>0, <1>4, PageInHand DEF HasPage, AttachPCs
    <2>3. cur[Reader] \in late \/ BeingStored(cur[Reader])
      BY <1>4 DEF BeingStored, StillStoring
    <2>4. \A u : Gone(u) /\ ~BeingStored(u) => Gone(u)'
      BY <1>4, <2>3 DEF Gone
    <2>5. \A u \in Targets : state[u] = "closed" => ~BeingStored(u)
      BY DEF Cleared, Storing
    <2>6. Opened' /\ Ready' /\ Ended'
      BY <1>4, <2>4, <2>5 DEF Cleared, Opened, Ready, Ended
    <2>7. Dropped'
      BY <1>4, <2>1, <2>4 DEF Cleared, Dropped, Alone
    <2>8. Detaching'
      BY <1>4 DEF Cleared, Detaching, Alone
    <2>9. \A u : BeingStored(u)' => BeingStored(u)
      BY <1>4 DEF BeingStored, StillStoring
    <2>10. Storing'
      BY <1>4, <2>9 DEF Cleared, Storing, Alone, LatePCs
    <2> QED BY <2>6, <2>7, <2>8, <2>10 DEF Cleared
  <1>5. CASE Settle
    <2>1. /\ pc[Reader] = "settle" /\ UNCHANGED <<state, sessions, parked, late>>
          /\ pairs' = pairs \cup {cur[Reader]}
          /\ \E l \in {"details", "pubOwner", "park"} : Goto(Reader, l)
      BY <1>5 DEF Settle, recVars, history
    <2> QED BY <1>0, <1>4, <2>1, GotoAlone
  <1>6. CASE Park
    <2>1. /\ pc[Reader] = "park" /\ UNCHANGED <<state, sessions, pairs, late>>
          /\ parked' = parked \cup {cur[Reader]} /\ Leave(Reader, "idle")
      BY <1>6 DEF Park, recVars, history
    <2> QED BY <1>0, <1>4, <2>1, LeaveAlone
  <1> QED BY <1>0, <1>1, <1>2, <1>3, <1>5, <1>6, ClearedPublish, ClearedClose DEF ReaderStep

LEMMA ClearedWorld ==
    ASSUME Cleared, UNCHANGED <<threads, state, sessions, pairs, parked, late>> PROVE Cleared'
  BY DEF Cleared, Opened, Ready, Ended, Dropped, Detaching, Storing, BeingStored, StillStoring, Gone, threads

LEMMA ClearedNext == Typed /\ Tracked /\ Ending /\ Cleared /\ [Next]_vars => Cleared'
  <1> SUFFICES ASSUME Typed, Tracked, Ending, Cleared, [Next]_vars PROVE Cleared'
    OBVIOUS
  <1>1. ASSUME NEW c \in Conns, HandlerStep(c) PROVE Cleared'
    BY <1>1, ThreadFacts, ClearedHandler, ClearedNextOf, ClearedPublish, ClearedClose DEF HandlerStep
  <1>2. ASSUME NEW c \in Conns, CloserStep(c) PROVE Cleared'
    BY <1>2, ThreadFacts, ClearedNextOf, ClearedClose DEF CloserStep
  <1>3. ASSUME NEW t \in Targets, ExpireClaim(t) \/ PopupOpens(t) \/ PageDies(t) PROVE Cleared'
    BY <1>3, ClearedWorld DEF ExpireClaim, PopupOpens, PageDies, recVars, bridge, history
  <1>4. CASE UNCHANGED vars
    BY <1>4, ClearedWorld DEF vars, recVars, bridge, history
  <1> QED BY <1>1, <1>2, <1>3, <1>4, ClearedHandler, ClearedDisconnect, ClearedReader DEF Next

\* In every behaviour the sessions of an open page are in the SessionManager,
\* those of a closed page are not, and neither its pair nor its place in the
\* pending queue is left, whether Page.close is answered, fails or times out: the
\* read loop may still be storing the pair when another goroutine closes the
\* record, but the reply that goroutine waits for is read by the same loop
\* (closeRecord, handleAttachedToTarget).  Only a Page.close that times out while
\* the read loop is there (late) leaves the pair behind.
THEOREM NothingStays == Spec => []NothingLeft
  <1>1. Init => Typed /\ Tracked /\ Ending /\ Cleared
    BY TypedInit, TrackedInit, EndingInit, ClearedInit
  <1>2. Typed /\ Tracked /\ Ending /\ Cleared /\ [Next]_vars
           => (Typed /\ Tracked /\ Ending /\ Cleared)'
    BY TypedNext, TrackedNext, EndingNext, ClearedNext
  <1>3. Typed /\ Tracked /\ Ending /\ Cleared => NothingLeft
    BY ClearedNothingLeft
  <1> QED BY <1>1, <1>2, <1>3, PTL DEF Spec

------------------------------------------------------------------------------
(* The events of a page are in order.  What a thread is about to send is      *)
(* known from its command and from what it read on its way: Course says what  *)
(* it is doing where, Sending what its past reads still say about the page,   *)
(* AttachedOnce and DestroyedOnce that no other thread is about to send the   *)
(* same event.                                                                *)

Publishers == {"create", "autoAttach", "attach"}

EmitPCs == {"pubLookup", "pubSend"}

\* The commands and events at whose handling a thread comes to each place.
Course(p) ==
    /\ pc[p] \in {"snapshot", "next"} => op[p] \in {"autoAttach", "discover", "disconnect"}
    /\ pc[p] \in CreatePCs => op[p] = "create"
    /\ pc[p] \in AttachPCs => op[p] = "attach"
    /\ pc[p] = "attachTo" => op[p] = "attachTo" /\ state[cur[p]] # "none"
    /\ pc[p] \in PublishPCs \ EmitPCs => op[p] \in Publishers
    /\ pc[p] = "pubSend" => op[p] \in Publishers \cup {"discover"}
    /\ pc[p] = "pubLookup" =>
          \/ op[p] \in Publishers \cup {"discover"}
          \/ op[p] = "attachTo" /\ state[cur[p]] \in {"closing", "closed"}
    /\ op[p] = "discover" => pc[p] \in {"snapshot", "next"} \cup EmitPCs

Courses == \A p \in Threads : Course(p)

\* Thread p publishes the page in its hand, or is about to send its attachment.
Publishing(p) == pc[p] \in PublishPCs \ {"pubOwner"} /\ op[p] \in Publishers
Emits(p)      == pc[p] \in EmitPCs /\ op[p] \in Publishers

\* The attachment of a page is sent by one thread, the one that set
\* pageAttachedRoot.
AttachedOnce ==
    /\ \A p, q \in Threads : Emits(p) /\ Emits(q) /\ cur[p] = cur[q] => p = q
    /\ \A p \in Threads : Emits(p) => cur[p] \in attachedRoot /\ "attached" \notin sent[cur[p]]
    /\ \A t \in Targets : "attached" \in sent[t] => t \in attachedRoot

\* Once the end of a page was sent its cleanup is past announcing it.
DestroyedOnce ==
    \A t \in Targets : "destroyed" \in sent[t] =>
        /\ t \in cleaned
        /\ \A p \in Threads : cur[p] = t /\ pc[p] \in CleanPCs => pc[p] \in {"drop", "remove"}

\* A record keeps the owner it was published for as long as it is open.
Kept(c, t) == state[t] \in {"closing", "closed"} \/ (state[t] = "open" /\ owner[t] = c)

Told(c, t) == c \in bare \/ "created" \in sent[t]

\* The handler of c is about to announce t, with every other page c owns.
Announcing(c, t) ==
    LET h == Handler(c) IN
    /\ op[h] = "discover"
    /\ pc[h] = "snapshot" \/ t \in todo[h] \/ (pc[h] \in EmitPCs /\ cur[h] = t)

\* c was told of t, unless auto-attach is off and cannot be turned on before.
ToldInTime(c, t) ==
    OwnerForTarget(t) = c =>
        Told(c, t) \/ (c \notin autoAttach /\ (c \notin discover \/ Announcing(c, t)))

Sending(p) ==
    Publishing(p) =>
        /\ own[p] \in Conns /\ Kept(own[p], cur[p])
        /\ pc[p] = "pubAuto" => ToldInTime(own[p], cur[p])
        /\ pc[p] = "pubLookup" => (OwnerForTarget(cur[p]) = own[p] => Told(own[p], cur[p]))
        /\ pc[p] = "pubSend" => Told(own[p], cur[p])

\* A connection with auto-attach and without discovery asked for just that.
Bare == autoAttach \ discover \subseteq bare

Ordered == Courses /\ AttachedOnce /\ DestroyedOnce /\ Bare /\ \A p \in Threads : Sending(p)

LEMMA OrderedInit == Init => Ordered
  BY DEF Init, Ordered, Courses, Course, AttachedOnce, DestroyedOnce, Bare, Sending, Publishing, Emits, CreatePCs, AttachPCs,
         PublishPCs, EmitPCs, CleanPCs

LEMMA OrderedAnnounced == ASSUME Typed, Ending, Ordered PROVE AnnouncedInOrder
  <1> SUFFICES ASSUME NEW p \in Threads
               PROVE  /\ pc[p] = "announce" => "destroyed" \notin sent[cur[p]]
                      /\ pc[p] = "pubSend" /\ op[p] # "discover" =>
                            /\ "attached" \notin sent[cur[p]]
                            /\ own[p] \in bare \/ "created" \in sent[cur[p]]
    BY DEF AnnouncedInOrder
  <1>1. pc[p] = "announce" => "destroyed" \notin sent[cur[p]]
    <2>1. pc[p] = "announce" => cur[p] \in Targets
      BY PageInHand DEF HasPage, ClosePCs
    <2> QED BY <2>1 DEF Ordered, DestroyedOnce, CleanPCs
  <1>2. ASSUME pc[p] = "pubSend", op[p] # "discover" PROVE Publishing(p) /\ Emits(p)
    BY <1>2 DEF Ordered, Courses, Course, Publishing, Emits, EmitPCs, PublishPCs
  <1> QED BY <1>1, <1>2 DEF Ordered, AttachedOnce, Sending, Told

\* What no step takes back: closed connections, sent events, marks, the end of
\* a record, and the owner of an open one.
Grows ==
    /\ closed \subseteq closed' /\ bare \subseteq bare'
    /\ attachedRoot \subseteq attachedRoot' /\ cleaned \subseteq cleaned'
    /\ \A t \in Targets :
          /\ sent[t] \subseteq sent'[t]
          /\ state[t] \in {"closing", "closed"} => state'[t] \in {"closing", "closed"}
          /\ state[t] = "open" =>
                \/ state'[t] \in {"closing", "closed"}
                \/ state'[t] = "open" /\ (owner[t] = NoConn \/ owner'[t] = owner[t])

LEMMA GrowsStill ==
    ASSUME UNCHANGED <<closed, state, owner, attachedRoot, cleaned, sent>>, bare \subseteq bare'
    PROVE  Grows
  BY DEF Grows

LEMMA GrowsPublish == ASSUME Typed, NEW p \in Threads, Publish(p) PROVE Grows
  <1>1. UNCHANGED <<closed, state, owner, cleaned, bare>>
    BY DEF Publish, PubOwner, PubDiscover, PubCreated, PubAuto, PubLookup, PubSend, connState, recVars,
           history
  <1>2. attachedRoot \subseteq attachedRoot' /\ \A t \in Targets : sent[t] \subseteq sent'[t]
    BY DEF Publish, PubOwner, PubDiscover, PubCreated, PubAuto, PubLookup, PubSend, Send, bridge, history,
           Typed, Data
  <1> QED BY <1>1, <1>2 DEF Grows

LEMMA GrowsClose == ASSUME Typed, Ending, NEW p \in Threads, CloseRecord(p) PROVE Grows
  <1>0. pc[p] \in CleanPCs => state[cur[p]] = "closing"
    BY DEF Ending, Marked
  <1>1. CASE Details(p) \/ PageClose(p) \/ PageCloseReturns(p) \/ Drop(p)
    BY <1>1, GrowsStill
       DEF Details, PageClose, PageCloseReturns, Drop, connState, recVars, bridge, history
  <1>2. CASE BeginCleanup(p)
    <2>1. UNCHANGED <<closed, owner, attachedRoot, sent, bare>>
      BY <1>2 DEF BeginCleanup, connState, bridge, history
    <2>2. cleaned \subseteq cleaned'
      BY <1>2 DEF BeginCleanup
    <2>3. \A t \in Targets : state'[t] \in {state[t], "closing"}
      BY <1>2 DEF BeginCleanup, Typed, Data
    <2> QED BY <2>1, <2>2, <2>3 DEF Grows
  <1>3. CASE Announce(p)
    <2>1. UNCHANGED <<closed, state, owner, attachedRoot, cleaned, bare>>
      BY <1>3 DEF Announce, connState, recVars
    <2>2. \A t \in Targets : sent[t] \subseteq sent'[t]
      BY <1>3 DEF Announce, Send, Typed, Data
    <2> QED BY <2>1, <2>2 DEF Grows
  <1>4. CASE Remove(p)
    <2>1. UNCHANGED <<closed, owner, attachedRoot, cleaned, sent, bare>>
      BY <1>4 DEF Remove, connState, bridge, history
    <2>2. \A t \in Targets : state'[t] \in {state[t], "closed"}
      BY <1>4 DEF Remove, Typed, Data
    <2> QED BY <2>1, <2>2 DEF Grows
  <1> QED BY <1>1, <1>2, <1>3, <1>4 DEF CloseRecord

LEMMA GrowsCreate == ASSUME Typed, NEW c \in Conns, CreateStep(c) PROVE Grows
  <1> DEFINE t == cur[Handler(c)]
  <1>1. UNCHANGED <<closed, attachedRoot, cleaned, sent, bare>>
    BY DEF CreateStep, NewPage, NewPageReturns, ClaimTarget, Found, Waiting, Navigate, FinishCreate,
           CancelTarget, connState, recVars, bridge, history
  <1>2. CASE NewPage(c) \/ NewPageReturns(c) \/ Found(c) \/ FinishCreate(c)
    BY <1>1, <1>2, GrowsStill DEF NewPage, NewPageReturns, Found, FinishCreate, recVars
  <1>3. CASE ClaimTarget(c)
    <2>1. \A u \in Targets : state'[u] = state[u] \/ state'[u] = "closing"
      BY <1>3 DEF ClaimTarget, Typed, Data
    <2>2. \A u \in Targets : state[u] = "open" => owner[u] = NoConn \/ owner'[u] = owner[u]
      BY <1>3 DEF ClaimTarget, Typed, Data
    <2> QED BY <1>1, <2>1, <2>2 DEF Grows
  <1>4. CASE Waiting(c) \/ Navigate(c)
    <2>1. owner' = owner /\ \A u \in Targets : state'[u] \in {state[u], "closing"}
      BY <1>4 DEF Waiting, Navigate, CancelTarget, recVars, Typed, Data
    <2> QED BY <1>1, <2>1 DEF Grows
  <1> QED BY <1>2, <1>3, <1>4 DEF CreateStep

LEMMA GrowsNext == ASSUME Typed, Tracked, Ending, [Next]_vars PROVE Grows
  <1>1. ASSUME NEW c \in Conns, Command(c) \/ Snapshot(c) \/ AttachSession(c) PROVE Grows
    <2>1. UNCHANGED <<closed, state, owner, attachedRoot, cleaned, sent>>
      BY <1>1 DEF Command, StartCreate, CloseTarget, AttachToTarget, SetAutoAttach, SetDiscover, Snapshot,
         AttachSession, connState, recVars, bridge, history
    <2>2. bare \subseteq bare'
      BY <1>1 DEF Command, StartCreate, CloseTarget, AttachToTarget, SetAutoAttach, SetDiscover, Snapshot,
         AttachSession, history
    <2> QED BY <2>1, <2>2, GrowsStill
  <1>2. ASSUME NEW p \in Threads, NextOf(p) PROVE Grows
    BY <1>2, GrowsStill DEF NextOf, connState, recVars, bridge, history
  <1>3. ASSUME NEW c \in Conns, CloseConnection(c) PROVE Grows
    <2>1. closed \subseteq closed' /\ UNCHANGED <<bare, attachedRoot, cleaned, sent>>
      BY <1>3 DEF CloseConnection, bridge, history
    <2>2. \A t \in Targets : \/ state'[t] = state[t] /\ owner'[t] = owner[t]
                             \/ state'[t] = "closing"
      BY <1>3 DEF CloseConnection, Typed, Data
    <2> QED BY <2>1, <2>2 DEF Grows
  <1>4. CASE RegisterPair
    <2>1. state[cur[Reader]] = "none"
      BY <1>4, ThreadFacts DEF RegisterPair, Tracked, Tracks
    <2>2. UNCHANGED <<closed, bare, attachedRoot, cleaned, sent>>
      BY <1>4 DEF RegisterPair, connState, bridge, history
    <2>3. \A t \in Targets : t # cur[Reader] => state'[t] = state[t] /\ owner'[t] = owner[t]
      BY <1>4 DEF RegisterPair, Typed, Data
    <2> QED BY <2>1, <2>2, <2>3 DEF Grows
  <1>5. ASSUME NEW t \in Targets, AttachedToTarget(t) \/ DetachedFromTarget(t) PROVE Grows
    BY <1>5, GrowsStill
       DEF AttachedToTarget, DetachedFromTarget, connState, recVars, bridge, history
  <1>6. CASE Settle \/ Park
    BY <1>6, GrowsStill DEF Settle, Park, connState, recVars, bridge, history
  <1>7. ASSUME NEW t \in Targets, ExpireClaim(t) \/ PopupOpens(t) \/ PageDies(t) PROVE Grows
    BY <1>7, GrowsStill DEF ExpireClaim, PopupOpens, PageDies, connState, recVars, bridge, history
  <1>8. CASE UNCHANGED vars
    BY <1>8, GrowsStill DEF vars, connState, recVars, bridge, history
  <1>9. ASSUME NEW c \in Conns, HandlerStep(c) \/ CloserStep(c) PROVE Grows
    BY <1>1, <1>2, <1>9, ThreadFacts, GrowsCreate, GrowsPublish, GrowsClose DEF HandlerStep, CloserStep
  <1>10. CASE ReaderStep
    BY <1>4, <1>5, <1>6, <1>10, ThreadFacts, GrowsPublish, GrowsClose DEF ReaderStep
  <1> QED BY <1>1, <1>3, <1>7, <1>8, <1>9, <1>10 DEF Next

------------------------------------------------------------------------------
(* A step is the step of one thread, and keeps it on its course.             *)

Others(p) ==
    Alone(p) /\ \A q \in Threads \ {p} : own'[q] = own[q]

\* Thread p alone moves; only the steps of publishOwnedPair and emitEvent lead
\* to where a page is published, only those of closeRecord past beginCleanup.
Walks(p) ==
    /\ Others(p) /\ Course(p)'
    /\ Publish(p) \/ ~Publishing(p)'
    /\ CloseRecord(p) \/ pc'[p] \notin CleanPCs

LEMMA GotoOthers ==
    ASSUME Typed, NEW p \in Threads, NEW l, Goto(p, l)
    PROVE  Others(p) /\ pc'[p] = l /\ op'[p] = op[p] /\ cur'[p] = cur[p] /\ todo'[p] = todo[p]
                     /\ own'[p] = own[p]
  BY GotoAlone DEF Goto, Others

LEMMA LeaveOthers ==
    ASSUME Typed, NEW p \in Threads, NEW l, Leave(p, l)
    PROVE  /\ Others(p) /\ pc'[p] = l /\ todo'[p] = todo[p]
           /\ op'[p] = IF l = "idle" THEN "none" ELSE op[p]
  <1>1. Alone(p) /\ pc'[p] = l /\ todo'[p] = todo[p]
    BY LeaveAlone
  <1>2. \A q \in Threads \ {p} : own'[q] = own[q]
    BY DEF Leave, Typed, Control
  <1>3. op'[p] = IF l = "idle" THEN "none" ELSE op[p]
    BY DEF Leave, Typed, Control
  <1> QED BY <1>1, <1>2, <1>3 DEF Others

LEMMA StartOthers ==
    ASSUME Typed, NEW p \in Threads, NEW o, NEW l, NEW t, Start(p, o, l, t), UNCHANGED <<own, todo>>
    PROVE  Others(p) /\ pc'[p] = l /\ op'[p] = o /\ cur'[p] = t /\ pc[p] = "idle"
  BY StartAlone DEF Others, Start

LEMMA Places ==
    /\ PublishPCs = {"pubOwner", "pubDiscover", "pubCreated", "pubAuto", "pubLookup", "pubSend"}
    /\ CreatePCs = {"newPage", "reply", "claim", "found", "waiting", "navigate", "finish"}
    /\ ClosePCs = {"details", "begin", "pageClose", "closeReply", "announce", "drop", "remove"}
    /\ AttachPCs = {"register", "settle", "park"}
    /\ EmitPCs = {"pubLookup", "pubSend"}
    /\ CleanPCs = {"pageClose", "closeReply", "announce", "drop", "remove"}
    /\ Publishers = {"create", "autoAttach", "attach"}
  BY DEF CleanPCs, PublishPCs, CreatePCs, ClosePCs, AttachPCs, EmitPCs, Publishers

\* A thread that is idle, closes a record or ends createTarget may have any course.
LEMMA WalksOff ==
    ASSUME NEW p \in Threads, Others(p),
           \/ pc'[p] \in {"details", "idle"} /\ op'[p] # "discover"
           \/ pc'[p] \in ClosePCs /\ op'[p] # "discover" /\ CloseRecord(p)
           \/ pc'[p] \in CreatePCs /\ op'[p] = "create"
           \/ pc'[p] \in {"snapshot", "next"} /\ op'[p] \in {"autoAttach", "discover", "disconnect"}
           \/ pc'[p] \in AttachPCs \cup {"pubOwner"} /\ op'[p] = "attach"
           \/ pc'[p] = "pubOwner" /\ op'[p] \in Publishers
    PROVE  Walks(p)
  <1>1. Course(p)'
    BY Places DEF Course
  <1>2. ~Publishing(p)'
    BY Places DEF Publishing
  <1>3. CloseRecord(p) \/ pc'[p] \notin CleanPCs
    BY Places
  <1> QED BY <1>1, <1>2, <1>3 DEF Walks

LEMMA WalksPublish ==
    ASSUME Typed, Courses, NEW p \in Threads, Publish(p)
    PROVE  Walks(p)
  <1>0. Course(p)
    BY DEF Courses
  <1>1. ASSUME Leave(p, AfterPublish(p)), op[p] \in Publishers \cup {"discover", "attachTo"}
        PROVE  Walks(p)
    <2>1. Others(p) /\ pc'[p] = AfterPublish(p) /\ op'[p] = IF AfterPublish(p) = "idle" THEN "none" ELSE op[p]
      BY <1>1, LeaveOthers
    <2>2. \/ AfterPublish(p) = "idle"
          \/ AfterPublish(p) = "navigate" /\ op[p] = "create"
          \/ AfterPublish(p) = "next" /\ op[p] \in {"autoAttach", "discover"}
      BY DEF AfterPublish
    <2> QED BY <2>1, <2>2, Places, WalksOff
  <1>2. ASSUME NEW l \in PublishPCs \ {"pubSend"}, Goto(p, l), op[p] \in Publishers PROVE Walks(p)
    <2>1. Others(p) /\ pc'[p] = l /\ op'[p] = op[p]
      BY <1>2, GotoOthers
    <2>2. Course(p)'
      BY <1>2, <2>1, Places DEF Course
    <2> QED BY <1>2, <2>1, <2>2, Places DEF Walks
  <1>3. CASE PubOwner(p)
    <2>1. op[p] \in Publishers
      BY <1>0, <1>3, Places DEF PubOwner, Course
    <2>2. CASE pc' = [pc EXCEPT ![p] = "pubDiscover"] /\ own' = [own EXCEPT ![p] = owner[cur[p]]]
               /\ UNCHANGED <<op, cur, todo>>
      <3>1. Others(p) /\ pc'[p] = "pubDiscover" /\ op'[p] = op[p]
        BY <2>2 DEF Others, Alone, Typed, Control
      <3>2. Course(p)'
        BY <2>1, <3>1, Places DEF Course
      <3> QED BY <1>3, <3>1, <3>2, Places DEF Walks, Publish
    <2> QED BY <1>1, <1>3, <2>1, <2>2 DEF PubOwner
  <1>4. CASE PubDiscover(p) \/ PubCreated(p)
    <2>1. op[p] \in Publishers
      BY <1>0, <1>4, Places DEF PubDiscover, PubCreated, Course
    <2> QED BY <1>2, <1>4, <2>1, Places DEF PubDiscover, PubCreated
  <1>5. CASE PubAuto(p)
    <2>1. op[p] \in Publishers
      BY <1>0, <1>5, Places DEF PubAuto, Course
    <2> QED BY <1>1, <1>2, <1>5, <2>1, Places DEF PubAuto
  <1>6. CASE PubLookup(p)
    <2>1. op[p] \in Publishers \cup {"discover"} \/ (op[p] = "attachTo" /\ state[cur[p]] # "open")
      BY <1>0, <1>6 DEF PubLookup, Course
    <2>2. CASE OwnerForTarget(cur[p]) = NoConn
      BY <1>1, <1>6, <2>1, <2>2 DEF PubLookup
    <2>3. CASE OwnerForTarget(cur[p]) # NoConn
      <3>1. pc' = [pc EXCEPT ![p] = "pubSend"] /\ UNCHANGED <<op, cur, todo>>
            /\ own' = [own EXCEPT ![p] = OwnerForTarget(cur[p])]
        BY <1>6, <2>3 DEF PubLookup
      <3>2. Others(p) /\ pc'[p] = "pubSend" /\ op'[p] = op[p]
        BY <3>1 DEF Others, Alone, Typed, Control
      <3>3. op[p] \in Publishers \cup {"discover"}
        BY <2>1, <2>3 DEF OwnerForTarget
      <3>4. Course(p)'
        BY <3>2, <3>3, Places DEF Course
      <3> QED BY <1>6, <3>2, <3>4, Places DEF Walks, Publish
    <2> QED BY <2>2, <2>3
  <1>7. CASE PubSend(p)
    <2>1. op[p] \in Publishers \cup {"discover"}
      BY <1>0, <1>7 DEF PubSend, Course
    <2> QED BY <1>1, <1>7, <2>1 DEF PubSend
  <1> QED BY <1>3, <1>4, <1>5, <1>6, <1>7 DEF Publish

LEMMA WalksClose ==
    ASSUME Typed, Courses, NEW p \in Threads, CloseRecord(p) PROVE Walks(p)
  <1>1. pc[p] \in ClosePCs /\ op[p] # "discover"
    <2>1. pc[p] \in ClosePCs
      BY Places DEF CloseRecord, Details, BeginCleanup, PageClose, PageCloseReturns, Announce, Drop, Remove
    <2> QED BY <2>1, Places DEF Courses, Course
  <1>2. ASSUME NEW l \in ClosePCs, Goto(p, l) PROVE Walks(p)
    BY <1>1, <1>2, GotoOthers, WalksOff
  <1>3. ASSUME Leave(p, AfterClose(p)) PROVE Walks(p)
    <2>1. Others(p) /\ pc'[p] = AfterClose(p) /\ op'[p] = IF AfterClose(p) = "idle" THEN "none" ELSE op[p]
      BY <1>3, LeaveOthers
    <2>2. \/ AfterClose(p) = "idle"
          \/ AfterClose(p) = "finish" /\ op[p] = "create"
          \/ AfterClose(p) = "next" /\ op[p] = "disconnect"
      BY DEF AfterClose
    <2> QED BY <2>1, <2>2, Places, WalksOff
  <1>4. CASE Details(p)
    <2>1. Others(p) /\ pc'[p] = "begin" /\ op'[p] = op[p]
      BY <1>4 DEF Details, Others, Alone, Typed, Control
    <2> QED BY <1>1, <2>1, Places, WalksOff
  <1>5. CleanupStart(p) \in ClosePCs
    BY Places DEF CleanupStart
  <1> QED BY <1>2, <1>3, <1>4, <1>5, Places
          DEF CloseRecord, BeginCleanup, PageClose, PageCloseReturns, Announce, Drop, Remove

LEMMA WalksNextOf == ASSUME Typed, Courses, NEW p \in Threads, NextOf(p) PROVE Walks(p)
  <1>1. op[p] \in {"autoAttach", "discover", "disconnect"}
    BY DEF NextOf, Courses, Course
  <1>2. CASE Leave(p, "idle")
    BY <1>2, LeaveOthers, WalksOff
  <1>3. ASSUME NEW t \in todo[p],
               todo' = [todo EXCEPT ![p] = @ \ {t}],
               cur'  = [cur EXCEPT ![p] = t],
               pc'   = [pc EXCEPT ![p] = Visit(p, t)],
               UNCHANGED <<op, own>>
        PROVE  Walks(p)
    <2>1. Others(p) /\ pc'[p] = Visit(p, t) /\ op'[p] = op[p]
      BY <1>3 DEF Others, Alone, Typed, Control
    <2>2. \/ Visit(p, t) = "pubOwner" /\ op[p] = "autoAttach"
          \/ Visit(p, t) = "details" /\ op[p] = "disconnect"
          \/ Visit(p, t) \in {"pubLookup", "next"} /\ op[p] = "discover"
      BY <1>1 DEF Visit
    <2>3. CASE Visit(p, t) = "pubLookup"
      <3>1. Course(p)' /\ ~Publishing(p)'
        BY <2>1, <2>2, <2>3, Places DEF Course, Publishing
      <3> QED BY <2>1, <2>3, <3>1, Places DEF Walks
    <2> QED BY <2>1, <2>2, <2>3, Places, WalksOff
  <1> QED BY <1>2, <1>3 DEF NextOf

LEMMA WalksHandler ==
    ASSUME Typed, Cleared, Courses, NEW c \in Conns,
           CreateStep(c) \/ Command(c) \/ Snapshot(c) \/ AttachSession(c)
    PROVE  Walks(Handler(c))
  <1> DEFINE p == Handler(c)
  <1>0. p \in Threads /\ Course(p) /\ (pc[p] \in HasPage => cur[p] \in Targets)
    BY ThreadFacts, PageInHand DEF Courses
  <1> HIDE DEF p
  <1> SUFFICES Walks(p)
    BY DEF p
  <1>1. CASE CreateStep(c)
    <2>1. op[p] = "create"
      BY <1>0, <1>1, Places
         DEF CreateStep, NewPage, NewPageReturns, ClaimTarget, Found, Waiting, Navigate, FinishCreate, p,
             Course
    <2>2. ASSUME NEW l \in CreatePCs \cup {"details", "pubOwner"}, Goto(p, l) PROVE Walks(p)
      BY <1>0, <2>1, <2>2, GotoOthers, WalksOff, Places
    <2>3. CASE NewPage(c)
      <3>1. Others(p) /\ pc'[p] \in {"reply", "finish"} /\ op'[p] = op[p]
        BY <1>0, <2>3 DEF NewPage, p, Others, Alone, Typed, Control
      <3> QED BY <1>0, <2>1, <3>1, Places, WalksOff
    <2>4. CASE FinishCreate(c)
      BY <1>0, <2>4, LeaveOthers, WalksOff DEF FinishCreate, p
    <2>5. FoundNext(c, cur[p]) \in {"details", "pubOwner", "navigate"}
      BY DEF FoundNext
    <2>6. CASE NewPageReturns(c) \/ ClaimTarget(c) \/ Found(c) \/ Waiting(c) \/ Navigate(c)
      BY <2>2, <2>5, <2>6, Places
         DEF NewPageReturns, ClaimTarget, Found, Waiting, Navigate, CancelTarget, p
    <2> QED BY <1>1, <2>3, <2>4, <2>6 DEF CreateStep
  <1>2. CASE Command(c)
    <2>1. CASE StartCreate(c)
      BY <1>0, <2>1, StartOthers, WalksOff, Places DEF StartCreate, p
    <2>2. ASSUME NEW t \in Targets, CloseTarget(c, t) PROVE Walks(p)
      BY <1>0, <2>2, StartOthers, WalksOff, Places DEF CloseTarget, p
    <2>3. ASSUME NEW t \in Targets, AttachToTarget(c, t) PROVE Walks(p)
      <3>1. /\ Others(p) /\ pc'[p] = "attachTo" /\ op'[p] = "attachTo" /\ cur'[p] = t
        BY <1>0, <2>3, StartOthers DEF AttachToTarget, p
      <3>2. state'[t] = "open"
        BY <2>3, OwnershipAssumption DEF AttachToTarget, OwnerForTarget, recVars
      <3>3. Course(p)' /\ ~Publishing(p)'
        BY <3>1, <3>2, Places DEF Course, Publishing
      <3> QED BY <3>1, <3>3, Places DEF Walks
    <2>4. ASSUME NEW on \in BOOLEAN, SetAutoAttach(c, on) \/ SetDiscover(c, on) PROVE Walks(p)
      BY <1>0, <2>4, StartOthers, WalksOff DEF SetAutoAttach, SetDiscover, p
    <2> QED BY <1>2, <2>1, <2>2, <2>3, <2>4 DEF Command
  <1>3. CASE Snapshot(c)
    <2>1. Others(p) /\ pc'[p] = "next" /\ op'[p] = op[p] /\ pc[p] = "snapshot"
      BY <1>0, <1>3 DEF Snapshot, p, Others, Alone, Typed, Control
    <2> QED BY <1>0, <2>1, WalksOff DEF Course
  <1>4. CASE AttachSession(c)
    <2>1. /\ pc[p] = "attachTo" /\ op[p] = "attachTo" /\ state[cur[p]] # "none" /\ cur[p] \in Targets
          /\ UNCHANGED state
      BY <1>0, <1>4 DEF AttachSession, p, Course, HasPage, recVars
    <2>2. CASE Leave(p, "idle")
      BY <1>0, <2>2, LeaveOthers, WalksOff
    <2>3. CASE Goto(p, "pubLookup") /\ cur[p] \notin sessions
      <3>1. Others(p) /\ pc'[p] = "pubLookup" /\ op'[p] = "attachTo" /\ cur'[p] = cur[p]
        BY <1>0, <2>1, <2>3, GotoOthers
      <3>2. state[cur[p]] \in {"closing", "closed"}
        BY <2>1, <2>3 DEF Cleared, Opened, Typed, Data
      <3>3. Course(p)' /\ ~Publishing(p)'
        BY <2>1, <3>1, <3>2, Places DEF Course, Publishing
      <3> QED BY <3>1, <3>3, Places DEF Walks
    <2> QED BY <1>4, <2>2, <2>3 DEF AttachSession, p
  <1> QED BY <1>1, <1>2, <1>3, <1>4

LEMMA WalksReader ==
    ASSUME Typed, Courses, ReaderStep PROVE Walks(Reader) \/ UNCHANGED threads
  <1>0. Reader \in Threads /\ Course(Reader)
    BY ThreadFacts DEF Courses
  <1>1. ASSUME NEW t \in Targets, AttachedToTarget(t) PROVE Walks(Reader)
    <2>1. Others(Reader) /\ pc'[Reader] = "register" /\ op'[Reader] = "attach"
      BY <1>0, <1>1, StartAlone DEF AttachedToTarget, Others, Typed, Control
    <2> QED BY <1>0, <2>1, WalksOff, Places
  <1>2. ASSUME NEW t \in Targets, DetachedFromTarget(t) PROVE Walks(Reader) \/ UNCHANGED threads
    BY <1>0, <1>2, StartOthers, WalksOff, Places DEF DetachedFromTarget
  <1>3. CASE RegisterPair
    <2>1. Others(Reader) /\ pc'[Reader] = "settle" /\ op'[Reader] = op[Reader] /\ pc[Reader] = "register"
      BY <1>0, <1>3 DEF RegisterPair, Others, Alone, Typed, Control
    <2> QED BY <1>0, <2>1, WalksOff, Places DEF Course
  <1>4. CASE Settle
    <2>1. op[Reader] = "attach"
      BY <1>0, <1>4, Places DEF Settle, Course
    <2>2. \E l \in {"details", "pubOwner", "park"} : Goto(Reader, l)
      BY <1>4 DEF Settle
    <2> QED BY <1>0, <2>1, <2>2, GotoOthers, WalksOff, Places
  <1>5. CASE Park
    BY <1>0, <1>5, LeaveOthers, WalksOff DEF Park
  <1> QED BY <1>0, <1>1, <1>2, <1>3, <1>4, <1>5, WalksPublish, WalksClose DEF ReaderStep

LEMMA WalksDisconnect == ASSUME Typed, NEW c \in Conns, CloseConnection(c) PROVE Walks(Closer(c))
  <1>1. Closer(c) \in Threads
    BY ThreadFacts
  <1>2. Others(Closer(c)) /\ pc'[Closer(c)] = "next" /\ op'[Closer(c)] = "disconnect"
    BY <1>1 DEF CloseConnection, Start, Others, Alone, Typed, Control
  <1> QED BY <1>1, <1>2, WalksOff

\* Every step is a thread's, which stays on its course, or nobody's.
LEMMA WalksNext ==
    ASSUME Typed, Cleared, Courses, [Next]_vars
    PROVE  (\E p \in Threads : Walks(p)) \/ UNCHANGED threads
  <1>1. ASSUME NEW c \in Conns, HandlerStep(c) \/ CloserStep(c) PROVE \E p \in Threads : Walks(p)
    BY <1>1, ThreadFacts, WalksHandler, WalksNextOf, WalksPublish, WalksClose DEF HandlerStep, CloserStep
  <1>2. ASSUME NEW c \in Conns, Command(c) \/ CloseConnection(c) PROVE \E p \in Threads : Walks(p)
    BY <1>2, ThreadFacts, WalksHandler, WalksDisconnect
  <1>3. ASSUME NEW t \in Targets, ExpireClaim(t) \/ PopupOpens(t) \/ PageDies(t) PROVE UNCHANGED threads
    BY <1>3 DEF ExpireClaim, PopupOpens, PageDies
  <1>4. CASE UNCHANGED vars
    BY <1>4 DEF vars
  <1> QED BY <1>1, <1>2, <1>3, <1>4, ThreadFacts, WalksReader DEF Next

LEMMA CoursesNext ==
    ASSUME Typed, Cleared, Courses, Grows, [Next]_vars PROVE Courses'
  <1>0. \A q \in Threads : pc[q] \in {"attachTo", "pubLookup"} => cur[q] \in Targets
    BY PageInHand DEF HasPage, PublishPCs
  <1>1. ASSUME NEW q \in Threads, pc'[q] = pc[q], op'[q] = op[q], cur'[q] = cur[q] PROVE Course(q)'
    <2>1. Course(q)
      BY DEF Courses
    <2>2. /\ pc[q] = "attachTo" => state[cur[q]] # "none" /\ state'[cur[q]] # "none"
          /\ pc[q] = "pubLookup" /\ state[cur[q]] \in {"closing", "closed"} =>
                state'[cur[q]] \in {"closing", "closed"}
      BY <1>0, <2>1 DEF Course, Grows, Typed, Data
    <2> QED BY <1>1, <2>1, <2>2 DEF Course
  <1>2. CASE UNCHANGED threads
    BY <1>1, <1>2 DEF threads, Courses
  <1>3. ASSUME NEW p \in Threads, Walks(p) PROVE Courses'
    <2>1. ASSUME NEW q \in Threads PROVE Course(q)'
      <3>1. CASE q = p
        BY <1>3, <3>1 DEF Walks
      <3>2. CASE q # p
        BY <1>1, <1>3, <3>2 DEF Walks, Others, Alone
      <3> QED BY <3>1, <3>2
    <2> QED BY <2>1 DEF Courses
  <1> QED BY <1>2, <1>3, WalksNext

------------------------------------------------------------------------------
(* Each event is sent once.                                                   *)

\* Only publishOwnedPair, emitEvent and the end of closeRecord send events.
LEMMA QuietSteps ==
    ASSUME Typed, [Next]_vars
    PROVE  \/ UNCHANGED <<sent, attachedRoot>>
           \/ \E p \in Threads : Publish(p) \/ Announce(p)
  <1>1. ASSUME NEW c \in Conns, CreateStep(c) \/ Command(c) \/ Snapshot(c) \/ AttachSession(c)
                                  \/ CloseConnection(c)
        PROVE  UNCHANGED <<sent, attachedRoot>>
    BY <1>1 DEF CreateStep, NewPage, NewPageReturns, ClaimTarget, Found, Waiting, Navigate, FinishCreate,
       Command, StartCreate, CloseTarget, AttachToTarget, SetAutoAttach, SetDiscover, Snapshot,
       AttachSession, CloseConnection, bridge, history
  <1>2. ASSUME NEW p \in Threads, NextOf(p) \/ CloseRecord(p)
        PROVE  UNCHANGED <<sent, attachedRoot>> \/ Announce(p)
    BY <1>2 DEF NextOf, CloseRecord, Details, BeginCleanup, PageClose, PageCloseReturns, Drop, Remove,
       bridge, history
  <1>3. ASSUME NEW t \in Targets, AttachedToTarget(t) \/ DetachedFromTarget(t)
        PROVE  UNCHANGED <<sent, attachedRoot>>
    BY <1>3 DEF AttachedToTarget, DetachedFromTarget, bridge, history
  <1>4. ASSUME RegisterPair \/ Settle \/ Park PROVE UNCHANGED <<sent, attachedRoot>>
    BY <1>4 DEF RegisterPair, Settle, Park, bridge, history
  <1>5. ASSUME NEW t \in Targets, ExpireClaim(t) \/ PopupOpens(t) \/ PageDies(t)
        PROVE  UNCHANGED <<sent, attachedRoot>>
    BY <1>5 DEF ExpireClaim, PopupOpens, PageDies, bridge, history
  <1>6. CASE UNCHANGED vars
    BY <1>6 DEF vars, bridge, history
  <1> QED BY <1>1, <1>2, <1>3, <1>4, <1>5, <1>6, ThreadFacts
          DEF Next, HandlerStep, CloserStep, ReaderStep

\* A step that neither sends an attachment nor decides to.
LEMMA AttachedStill ==
    ASSUME Typed, AttachedOnce, attachedRoot' = attachedRoot,
           \A t \in Targets : "attached" \in sent'[t] => "attached" \in sent[t],
           \A q \in Threads : Emits(q)' => Emits(q) /\ cur'[q] = cur[q]
    PROVE  AttachedOnce'
  <1>1. \A q \in Threads : Emits(q) => cur[q] \in Targets
    BY PageInHand DEF Emits, EmitPCs, HasPage, PublishPCs
  <1> QED BY <1>1 DEF AttachedOnce

LEMMA AttachedPublish ==
    ASSUME Typed, AttachedOnce, Courses, Grows, NEW p \in Threads, Publish(p), Walks(p)
    PROVE  AttachedOnce'
  <1> DEFINE t == cur[p]
  <1>0. t \in Targets /\ Course(p)
    BY PageInHand DEF Courses, Publish, PubOwner, PubDiscover, PubCreated, PubAuto, PubLookup, PubSend,
       HasPage, PublishPCs
  <1>1. \A q \in Threads \ {p} : (Emits(q)' <=> Emits(q)) /\ cur'[q] = cur[q]
    BY DEF Walks, Others, Alone, Emits
  <1> HIDE DEF t
  <1>2. ASSUME NEW l \in (PublishPCs \ EmitPCs) \cup {"navigate", "next", "idle"},
               pc'[p] = l, attachedRoot' = attachedRoot,
               \A u \in Targets : "attached" \in sent'[u] => "attached" \in sent[u]
        PROVE  AttachedOnce'
    <2>1. ~Emits(p)'
      BY <1>2, Places DEF Emits
    <2> QED BY <1>1, <1>2, <2>1, AttachedStill
  <1>3. ASSUME Leave(p, AfterPublish(p)), attachedRoot' = attachedRoot, sent' = sent
        PROVE  AttachedOnce'
    <2>1. pc'[p] \in {"navigate", "next", "idle"}
      BY <1>3, LeaveAlone, AfterPublishChoices
    <2> QED BY <1>2, <1>3, <2>1
  <1>4. CASE PubOwner(p)
    <2>1. attachedRoot' = attachedRoot /\ sent' = sent
      BY <1>4 DEF PubOwner, history
    <2>2. Leave(p, AfterPublish(p)) \/ pc'[p] = "pubDiscover"
      BY <1>4 DEF PubOwner, Typed, Control
    <2> QED BY <1>2, <1>3, <2>1, <2>2, Places
  <1>5. CASE PubDiscover(p)
    <2>1. attachedRoot' = attachedRoot /\ sent' = sent /\ pc'[p] \in {"pubCreated", "pubAuto"}
      BY <1>5, GotoAlone DEF PubDiscover, bridge, history
    <2> QED BY <1>2, <2>1, Places
  <1>6. CASE PubCreated(p)
    <2>1. attachedRoot' = attachedRoot /\ pc'[p] = "pubAuto"
      BY <1>6, GotoAlone DEF PubCreated, bridge
    <2>2. \A u \in Targets : "attached" \in sent'[u] => "attached" \in sent[u]
      BY <1>6 DEF PubCreated, Send, Typed, Data
    <2> QED BY <1>2, <2>1, <2>2, Places
  <1>7. CASE PubAuto(p) /\ AttachDue(own[p], t)
    <2>1. /\ attachedRoot' = attachedRoot \cup {t} /\ sent' = sent /\ cur'[p] = t /\ t \notin attachedRoot
          /\ pc[p] = "pubAuto"
      BY <1>7, GotoAlone DEF PubAuto, AttachDue, history, t
    <2>2. \A q \in Threads \ {p} : Emits(q)' => cur[q] \in attachedRoot /\ cur[q] # t
      BY <1>1, <2>1 DEF AttachedOnce
    <2>3. "attached" \notin sent[t]
      BY <1>0, <2>1 DEF AttachedOnce
    <2> QED BY <1>1, <2>1, <2>2, <2>3 DEF AttachedOnce
  <1>8. CASE PubAuto(p) /\ ~AttachDue(own[p], t)
    BY <1>3, <1>8 DEF PubAuto, history, t
  <1>9. CASE PubLookup(p)
    <2>1. attachedRoot' = attachedRoot /\ sent' = sent /\ pc[p] = "pubLookup"
      BY <1>9 DEF PubLookup, bridge, history
    <2>2. CASE UNCHANGED <<op, cur>>
      <3>1. Emits(p)' => Emits(p)
        BY <2>1, <2>2 DEF Emits, EmitPCs
      <3> QED BY <1>1, <2>1, <2>2, <3>1, AttachedStill
    <2> QED BY <1>3, <1>9, <2>1, <2>2 DEF PubLookup
  <1>10. CASE PubSend(p)
    <2>1. /\ attachedRoot' = attachedRoot /\ pc[p] = "pubSend"
          /\ pc'[p] \in {"navigate", "next", "idle"}
          /\ sent' = [sent EXCEPT ![t] = @ \cup {IF op[p] = "discover" THEN "created" ELSE "attached"}]
      BY <1>10, LeaveAlone, AfterPublishChoices DEF PubSend, Send, bridge, t
    <2>2. CASE op[p] = "discover"
      <3>1. \A u \in Targets : "attached" \in sent'[u] => "attached" \in sent[u]
        BY <2>1, <2>2 DEF Typed, Data
      <3> QED BY <1>2, <2>1, <3>1
    <2>3. CASE op[p] # "discover"
      <3>1. Emits(p) /\ ~Emits(p)' /\ cur[p] = t
        BY <1>0, <2>1, <2>3, Places DEF Emits, Course, t
      <3>2. \A q \in Threads \ {p} : Emits(q)' => cur[q] # t
        BY <1>1, <3>1 DEF AttachedOnce
      <3>3. t \in attachedRoot
        BY <3>1 DEF AttachedOnce
      <3>4. \A u : u # t => ("attached" \in sent'[u] => u \notin Targets \/ "attached" \in sent[u])
        BY <2>1 DEF Typed, Data
      <3>5. \A q \in Threads : Emits(q) => cur[q] \in Targets
        BY PageInHand DEF Emits, EmitPCs, HasPage, PublishPCs
      <3> QED BY <1>1, <2>1, <3>1, <3>2, <3>3, <3>4, <3>5 DEF AttachedOnce
    <2> QED BY <2>2, <2>3
  <1> QED BY <1>4, <1>5, <1>6, <1>7, <1>8, <1>9, <1>10 DEF Publish

LEMMA AttachedNext ==
    ASSUME Typed, Cleared, Courses, Grows, AttachedOnce, [Next]_vars
    PROVE  AttachedOnce'
  <1>1. CASE \E p \in Threads : Publish(p)
    <2>1. PICK p \in Threads : Publish(p)
      BY <1>1
    <2> QED BY <2>1, WalksPublish, AttachedPublish
  <1>2. CASE ~(\E p \in Threads : Publish(p))
    <2>1. \A q \in Threads : Emits(q)' => Emits(q) /\ cur'[q] = cur[q]
      <3>1. CASE UNCHANGED threads
        BY <3>1 DEF threads, Emits
      <3>2. ASSUME NEW p \in Threads, Walks(p)
            PROVE  \A q \in Threads : Emits(q)' => Emits(q) /\ cur'[q] = cur[q]
        <4>1. ~Emits(p)'
          BY <1>2, <3>2, Places DEF Walks, Publishing, Emits
        <4> QED BY <3>2, <4>1 DEF Walks, Others, Alone, Emits
      <3> QED BY <3>1, <3>2, WalksNext
    <2>2. /\ attachedRoot' = attachedRoot
          /\ \A t \in Targets : "attached" \in sent'[t] => "attached" \in sent[t]
      <3>1. CASE UNCHANGED <<sent, attachedRoot>>
        BY <3>1
      <3>2. ASSUME NEW p \in Threads, Announce(p)
            PROVE  /\ attachedRoot' = attachedRoot
                   /\ \A t \in Targets : "attached" \in sent'[t] => "attached" \in sent[t]
        BY <3>2 DEF Announce, Send, Typed, Data
      <3> QED BY <1>2, <3>1, <3>2, QuietSteps
    <2> QED BY <2>1, <2>2, AttachedStill
  <1> QED BY <1>1, <1>2

\* The end of a page is sent by the one thread that cleans it up.
LEMMA DestroyedNext ==
    ASSUME Typed, Ending, Cleared, Courses, Grows, DestroyedOnce, [Next]_vars
    PROVE  DestroyedOnce'
  <1> DEFINE Early(q) == pc[q] \in CleanPCs /\ pc[q] \notin {"drop", "remove"}
  <1>1. ASSUME NEW q \in Threads, Early(q)'
        PROVE  cur'[q] \notin cleaned \/ (Early(q) /\ cur'[q] = cur[q])
    <2>1. CASE UNCHANGED threads
      BY <1>1, <2>1 DEF threads
    <2>2. ASSUME NEW p \in Threads, Walks(p), p # q
          PROVE  Early(q) /\ cur'[q] = cur[q]
      BY <1>1, <2>2 DEF Walks, Others, Alone
    <2>3. CASE Walks(q)
      <3>1. CloseRecord(q)
        BY <1>1, <2>3 DEF Walks
      <3>2. CASE Details(q)
        BY <1>1, <3>2, Places DEF Details, Typed, Control
      <3>3. CASE BeginCleanup(q) /\ CleanupRefused(cur[q])
        <4>1. pc'[q] \in {"finish", "next", "idle"}
          BY <3>3, ClosingLeaves, AfterCloseChoices DEF BeginCleanup
        <4> QED BY <1>1, <4>1, Places
      <3>4. CASE BeginCleanup(q) /\ ~CleanupRefused(cur[q])
        BY <3>4 DEF BeginCleanup, CleanupRefused, Goto
      <3>5. CASE PageClose(q) \/ PageCloseReturns(q)
        BY <3>5, Places DEF PageClose, PageCloseReturns, Goto
      <3>6. CASE Announce(q) \/ Drop(q)
        <4>1. pc'[q] \in {"drop", "remove"}
          BY <3>6, GotoAlone DEF Announce, Drop
        <4> QED BY <1>1, <4>1
      <3>7. CASE Remove(q)
        <4>1. pc'[q] \in {"finish", "next", "idle"}
          BY <3>7, ClosingLeaves, AfterCloseChoices DEF Remove
        <4> QED BY <1>1, <4>1, Places
      <3> QED BY <3>1, <3>2, <3>3, <3>4, <3>5, <3>6, <3>7 DEF CloseRecord
    <2> QED BY <2>1, <2>2, <2>3, WalksNext
  <1> HIDE DEF Early
  <1>2. SUFFICES ASSUME NEW t \in Targets, "destroyed" \in sent'[t]
                 PROVE  t \in cleaned /\ \A q \in Threads : ~(cur'[q] = t /\ Early(q)')
    BY DEF DestroyedOnce, Grows, Early
  <1>3. CASE "destroyed" \in sent[t]
    BY <1>1, <1>3 DEF DestroyedOnce, Early
  <1>4. CASE "destroyed" \notin sent[t]
    <2>1. PICK p \in Threads : Publish(p) \/ Announce(p)
      BY <1>2, <1>4, QuietSteps
    <2>2. ~Publish(p)
      BY <1>2, <1>4
         DEF Publish, PubOwner, PubDiscover, PubCreated, PubAuto, PubLookup, PubSend, Send, history,
             Typed, Data
    <2>3. Announce(p) /\ cur[p] = t
      BY <1>2, <1>4, <2>1, <2>2 DEF Announce, Send, Typed, Data
    <2>4. pc[p] \in CleanPCs /\ pc'[p] = "drop" /\ cur'[p] = t
      BY <2>3, Places, GotoAlone DEF Announce
    <2>5. t \in cleaned
      BY <2>3, <2>4 DEF Ending, Marked
    <2>6. \A q \in Threads : Early(q) /\ cur[q] = t => q = p
      BY <2>3, <2>4 DEF Ending, OneCleaner, Early
    <2>7. ~Early(p)'
      BY <2>4 DEF Early
    <2> QED BY <1>1, <2>5, <2>6, <2>7
  <1> QED BY <1>3, <1>4

------------------------------------------------------------------------------
(* A page is announced as created before its attachment.                      *)

LEMMA KeptNext ==
    ASSUME Grows, NEW c \in Conns, NEW t \in Targets, Kept(c, t) PROVE Kept(c, t)'
  BY OwnershipAssumption DEF Kept, Grows

LEMMA ToldNext ==
    ASSUME Grows, NEW c \in Conns, NEW t \in Targets, Told(c, t) PROVE Told(c, t)'
  BY DEF Told, Grows

\* A client that owns a page it was published for has owned it all along.
LEMMA OwnedAllAlong ==
    ASSUME Grows, NEW c \in Conns, NEW t \in Targets, Kept(c, t), OwnerForTarget(t)' = c
    PROVE  OwnerForTarget(t) = c /\ state[t] = "open"
  BY OwnershipAssumption DEF Kept, Grows, OwnerForTarget, ConnectionClosed

\* The flags of a client change by its own commands alone.
LEMMA FlagSteps ==
    ASSUME [Next]_vars
    PROVE  \/ UNCHANGED <<discover, autoAttach, bare>>
           \/ \E c \in Conns, on \in BOOLEAN : SetAutoAttach(c, on) \/ SetDiscover(c, on)
  <1>1. ASSUME NEW c \in Conns, CreateStep(c) \/ Snapshot(c) \/ AttachSession(c) \/ CloseConnection(c)
        PROVE  UNCHANGED <<discover, autoAttach, bare>>
    BY <1>1 DEF CreateStep, NewPage, NewPageReturns, ClaimTarget, Found, Waiting, Navigate, FinishCreate,
       Snapshot, AttachSession, CloseConnection, connState, history
  <1>2. ASSUME NEW p \in Threads, NextOf(p) \/ CloseRecord(p) \/ Publish(p)
        PROVE  UNCHANGED <<discover, autoAttach, bare>>
    BY <1>2 DEF NextOf, CloseRecord, Details, BeginCleanup, PageClose, PageCloseReturns, Announce, Drop,
       Remove, Publish, PubOwner, PubDiscover, PubCreated, PubAuto, PubLookup, PubSend, connState, history
  <1>3. ASSUME NEW t \in Targets, AttachedToTarget(t) \/ DetachedFromTarget(t) \/ ExpireClaim(t)
                                      \/ PopupOpens(t) \/ PageDies(t)
        PROVE  UNCHANGED <<discover, autoAttach, bare>>
    BY <1>3 DEF AttachedToTarget, DetachedFromTarget, ExpireClaim, PopupOpens, PageDies, connState, history
  <1>4. ASSUME RegisterPair \/ Settle \/ Park PROVE UNCHANGED <<discover, autoAttach, bare>>
    BY <1>4 DEF RegisterPair, Settle, Park, connState, history
  <1>5. ASSUME NEW c \in Conns, Command(c)
        PROVE  \/ UNCHANGED <<discover, autoAttach, bare>>
               \/ \E on \in BOOLEAN : SetAutoAttach(c, on) \/ SetDiscover(c, on)
    BY <1>5 DEF Command, StartCreate, CloseTarget, AttachToTarget, connState, history
  <1>6. CASE UNCHANGED vars
    BY <1>6 DEF vars, connState, history
  <1> QED BY <1>1, <1>2, <1>3, <1>4, <1>5, <1>6, ThreadFacts
          DEF Next, HandlerStep, CloserStep, ReaderStep

LEMMA BareNext == ASSUME Bare, [Next]_vars PROVE Bare'
  <1>1. ASSUME NEW c \in Conns, NEW on \in BOOLEAN, SetAutoAttach(c, on) \/ SetDiscover(c, on)
        PROVE  Bare'
    BY <1>1 DEF SetAutoAttach, SetDiscover, Bare
  <1> QED BY <1>1, FlagSteps DEF Bare

\* The handler of a client moves by the steps of that client alone.
LEMMA HandlerMoves ==
    ASSUME Typed, Cleared, Courses, [Next]_vars, NEW c \in Conns
    PROVE  \/ Command(c) \/ HandlerStep(c)
           \/ LET h == Handler(c) IN
              pc'[h] = pc[h] /\ op'[h] = op[h] /\ cur'[h] = cur[h] /\ todo'[h] = todo[h]
  <1> DEFINE h == Handler(c)
             Still == pc'[h] = pc[h] /\ op'[h] = op[h] /\ cur'[h] = cur[h] /\ todo'[h] = todo[h]
  <1>0. h \in Threads /\ h # Reader
    BY ThreadFacts
  <1>1. ASSUME NEW p \in Threads, Walks(p), p # h PROVE Still
    BY <1>0, <1>1 DEF Walks, Others, Alone
  <1>2. ASSUME UNCHANGED threads PROVE Still
    BY <1>2 DEF threads
  <1> HIDE DEF Still
  <1>3. ASSUME NEW d \in Conns, d # c, Command(d) \/ HandlerStep(d) PROVE Still
    <2>1. Walks(Handler(d)) /\ Handler(d) \in Threads
      BY <1>3, ThreadFacts, WalksHandler, WalksNextOf, WalksPublish, WalksClose DEF HandlerStep
    <2>2. Handler(d) # h
      BY <1>3 DEF Handler
    <2> QED BY <1>1, <2>1, <2>2
  <1>4. ASSUME NEW d \in Conns, CloseConnection(d) \/ CloserStep(d) PROVE Still
    <2>1. Walks(Closer(d)) /\ Closer(d) \in Threads
      BY <1>4, ThreadFacts, WalksDisconnect, WalksNextOf, WalksClose DEF CloserStep
    <2>2. Closer(d) # h
      BY HandlersAreNotClosers
    <2> QED BY <1>1, <2>1, <2>2
  <1>5. CASE ReaderStep
    BY <1>0, <1>1, <1>2, <1>5, ThreadFacts, WalksReader DEF Still
  <1>6. ASSUME NEW t \in Targets, ExpireClaim(t) \/ PopupOpens(t) \/ PageDies(t) PROVE Still
    BY <1>2, <1>6 DEF ExpireClaim, PopupOpens, PageDies
  <1>7. CASE UNCHANGED vars
    BY <1>2, <1>7 DEF vars, Still
  <1> QED BY <1>3, <1>4, <1>5, <1>6, <1>7 DEF Next, Still

\* The loop of setDiscoverTargets reaches every page its client owns.
LEMMA AnnouncingStep ==
    ASSUME Typed, Courses, NEW c \in Conns, NEW t \in Targets, HandlerStep(c), Announcing(c, t),
           OwnerForTarget(t) = c, t \in sessions
    PROVE  Announcing(c, t)' \/ "created" \in sent'[t]
  <1> DEFINE h == Handler(c)
  <1>0. h \in Threads /\ op[h] = "discover" /\ pc[h] \in {"snapshot", "next"} \cup EmitPCs
        /\ (pc[h] = "snapshot" \/ t \in todo[h] \/ (pc[h] \in EmitPCs /\ cur[h] = t))
    BY ThreadFacts DEF Announcing, Courses, Course
  <1>1. c # NoConn
    BY OwnershipAssumption
  <1>2. Snapshot(c) \/ NextOf(h) \/ PubLookup(h) \/ PubSend(h)
    BY <1>0, Places DEF HandlerStep, CreateStep, NewPage, NewPageReturns, ClaimTarget, Found, Waiting,
       Navigate, FinishCreate, AttachSession, Publish, PubOwner, PubDiscover, PubCreated, PubAuto,
       CloseRecord, Details, BeginCleanup, PageClose, PageCloseReturns, Announce, Drop, Remove
  <1> DEFINE Ahead == op'[h] = "discover" /\ (t \in todo'[h] \/ (pc'[h] \in EmitPCs /\ cur'[h] = t))
  <1>3. Ahead => Announcing(c, t)'
    BY DEF Announcing
  <1> HIDE DEF h
  <1>4. CASE Snapshot(c)
    BY <1>0, <1>3, <1>4 DEF Snapshot, h, Typed, Control
  <1>5. CASE NextOf(h)
    <2>1. t \in todo[h]
      BY <1>0, <1>5, Places DEF NextOf
    <2>2. PICK u \in todo[h] : /\ todo' = [todo EXCEPT ![h] = @ \ {u}]
                               /\ cur'  = [cur EXCEPT ![h] = u]
                               /\ pc'   = [pc EXCEPT ![h] = Visit(h, u)]
                               /\ UNCHANGED op
      BY <1>5, <2>1 DEF NextOf
    <2>3. u = t => Visit(h, u) = "pubLookup"
      BY <1>0 DEF Visit, h, Handler
    <2> QED BY <1>0, <1>3, <2>1, <2>2, <2>3, Places DEF Typed, Control
  <1>6. CASE PubLookup(h)
    <2>1. CASE OwnerForTarget(cur[h]) = NoConn
      <3>1. Leave(h, "next")
        BY <1>0, <1>6, <2>1 DEF PubLookup, AfterPublish
      <3>2. op'[h] = "discover" /\ todo'[h] = todo[h]
        BY <1>0, <3>1, LeaveOthers
      <3> QED BY <1>0, <1>1, <1>3, <1>6, <2>1, <3>2 DEF PubLookup
    <2>2. CASE OwnerForTarget(cur[h]) # NoConn
      BY <1>0, <1>3, <1>6, <2>2, Places DEF PubLookup, Typed, Control
    <2> QED BY <2>1, <2>2
  <1>7. CASE PubSend(h)
    <2>1. Leave(h, "next") /\ sent' = [sent EXCEPT ![cur[h]] = @ \cup {"created"}]
      BY <1>0, <1>7 DEF PubSend, Send, AfterPublish
    <2>2. op'[h] = "discover" /\ todo'[h] = todo[h]
      BY <1>0, <2>1, LeaveOthers
    <2>3. cur[h] = t => "created" \in sent'[t]
      BY <2>1 DEF Typed, Data
    <2> QED BY <1>0, <1>3, <1>7, <2>2, <2>3 DEF PubSend
  <1> QED BY <1>2, <1>4, <1>5, <1>6, <1>7

\* Between pubDiscover and pubAuto of another thread the client of the page can
\* turn discovery and auto-attach on; it then announces the page in between.
LEMMA InTimeNext ==
    ASSUME Typed, Cleared, Courses, Grows, [Next]_vars, NEW c \in Conns, NEW t \in Targets,
           Kept(c, t), ToldInTime(c, t)
    PROVE  ToldInTime(c, t)'
  <1> DEFINE h == Handler(c)
  <1>0. h \in Threads /\ Course(h)
    BY ThreadFacts DEF Courses
  <1> SUFFICES ASSUME OwnerForTarget(t)' = c
               PROVE  Told(c, t)' \/ (c \notin autoAttach' /\ (c \notin discover' \/ Announcing(c, t)'))
    BY DEF ToldInTime
  <1>1. OwnerForTarget(t) = c /\ t \in sessions
    BY OwnedAllAlong DEF Cleared, Opened
  <1>2. CASE Told(c, t)
    BY <1>2, ToldNext
  <1>3. CASE ~Told(c, t)
    <2>1. c \notin autoAttach /\ (c \notin discover \/ Announcing(c, t))
      BY <1>1, <1>3 DEF ToldInTime
    <2>2. ASSUME NEW on \in BOOLEAN, SetAutoAttach(c, on)
          PROVE  Told(c, t)' \/ (c \notin autoAttach' /\ c \notin discover')
      <3>1. pc[h] = "idle"
        BY <2>2 DEF SetAutoAttach, Start
      <3>2. c \notin discover
        BY <1>0, <2>1, <3>1, Places DEF Course, Announcing
      <3> QED BY <2>1, <2>2, <3>2 DEF SetAutoAttach, Told
    <2>3. ASSUME NEW on \in BOOLEAN, SetDiscover(c, on)
          PROVE  c \notin autoAttach' /\ (c \notin discover' \/ Announcing(c, t)')
      <3>1. on => pc'[h] = "snapshot" /\ op'[h] = "discover"
        BY <1>0, <2>3 DEF SetDiscover, Start, Typed, Control
      <3>2. Announcing(c, t)' \/ ~on
        BY <3>1 DEF Announcing
      <3> QED BY <2>1, <2>3, <3>2 DEF SetDiscover
    <2>4. ASSUME ~(\E on \in BOOLEAN : SetAutoAttach(c, on) \/ SetDiscover(c, on))
          PROVE  (c \in autoAttach' <=> c \in autoAttach) /\ (c \in discover' <=> c \in discover)
      <3>1. ASSUME NEW d \in Conns, NEW on \in BOOLEAN, SetAutoAttach(d, on) \/ SetDiscover(d, on)
            PROVE  (c \in autoAttach' <=> c \in autoAttach) /\ (c \in discover' <=> c \in discover)
        <4>1. d # c
          BY <2>4, <3>1
        <4> QED BY <3>1, <4>1 DEF SetAutoAttach, SetDiscover
      <3> QED BY <3>1, FlagSteps
    <2>5. ASSUME Announcing(c, t), ~(\E on \in BOOLEAN : SetAutoAttach(c, on) \/ SetDiscover(c, on))
          PROVE  Announcing(c, t)' \/ Told(c, t)'
      <3>1. CASE HandlerStep(c)
        BY <1>1, <2>5, <3>1, AnnouncingStep DEF Told
      <3>2. CASE Command(c)
        <4>1. pc[h] = "idle"
          BY <3>2 DEF Command, StartCreate, CloseTarget, AttachToTarget, SetAutoAttach, SetDiscover, Start
        <4> QED BY <1>0, <2>5, <4>1, Places DEF Course, Announcing
      <3>3. CASE pc'[h] = pc[h] /\ op'[h] = op[h] /\ cur'[h] = cur[h] /\ todo'[h] = todo[h]
        BY <2>5, <3>3 DEF Announcing
      <3> QED BY <3>1, <3>2, <3>3, HandlerMoves
    <2> QED BY <2>1, <2>2, <2>3, <2>4, <2>5
  <1> QED BY <1>2, <1>3

\* What a thread on its way to send an attachment knows stays true.
LEMMA SendingStays ==
    ASSUME Typed, Cleared, Courses, Grows, [Next]_vars, NEW q \in Threads, Sending(q),
           pc'[q] = pc[q], op'[q] = op[q], cur'[q] = cur[q], own'[q] = own[q]
    PROVE  Sending(q)'
  <1> SUFFICES ASSUME Publishing(q)'
               PROVE  /\ own'[q] \in Conns /\ Kept(own[q], cur[q])'
                      /\ pc'[q] = "pubAuto" => ToldInTime(own[q], cur[q])'
                      /\ pc'[q] = "pubLookup" => (OwnerForTarget(cur[q])' = own'[q] => Told(own[q], cur[q])')
                      /\ pc'[q] = "pubSend" => Told(own[q], cur[q])'
    BY DEF Sending
  <1> DEFINE c == own[q]
             t == cur[q]
  <1>1. Publishing(q)
    BY DEF Publishing
  <1>2. /\ c \in Conns /\ t \in Targets /\ Kept(c, t)
        /\ pc[q] = "pubAuto" => ToldInTime(c, t)
        /\ pc[q] = "pubLookup" => (OwnerForTarget(t) = c => Told(c, t))
        /\ pc[q] = "pubSend" => Told(c, t)
    BY <1>1, PageInHand DEF Sending, Publishing, HasPage
  <1> HIDE DEF c, t
  <1>3. \A d, u : d = c /\ u = t =>
            /\ Kept(d, u)'
            /\ pc[q] = "pubAuto" => ToldInTime(d, u)'
            /\ pc[q] = "pubLookup" => (OwnerForTarget(u)' = d => Told(d, u)')
            /\ pc[q] = "pubSend" => Told(d, u)'
    BY <1>2, KeptNext, InTimeNext, ToldNext, OwnedAllAlong
  <1> QED BY <1>2, <1>3 DEF c, t

LEMMA SendingPublish ==
    ASSUME Typed, Courses, Grows, Bare, NEW p \in Threads, Sending(p), Publish(p)
    PROVE  Sending(p)'
  <1> DEFINE t == cur[p]
             c == own[p]
  <1>0. /\ Course(p) /\ t \in Targets
        /\ UNCHANGED <<state, owner, closed, discover, autoAttach, bare>>
    BY PageInHand DEF Courses, Publish, PubOwner, PubDiscover, PubCreated, PubAuto, PubLookup, PubSend,
       HasPage, PublishPCs, connState, recVars, history
  <1>1. ASSUME Leave(p, AfterPublish(p)) PROVE Sending(p)'
    <2>1. pc'[p] \in {"navigate", "next", "idle"}
      BY <1>1, LeaveAlone, AfterPublishChoices
    <2> QED BY <2>1, Places DEF Sending, Publishing
  <1>2. CASE PubOwner(p)
    <2>1. CASE pc' = [pc EXCEPT ![p] = "pubDiscover"] /\ own' = [own EXCEPT ![p] = owner[t]]
               /\ UNCHANGED <<op, cur, todo>> /\ Registered(t) /\ owner[t] # NoConn
      <3>1. own'[p] = owner[t] /\ own'[p] \in Conns /\ cur'[p] = t /\ pc'[p] = "pubDiscover"
        BY <1>0, <2>1 DEF Typed, Control, Data
      <3>2. Kept(own[p], cur[p])'
        BY <1>0, <2>1, <3>1 DEF Kept, Registered
      <3> QED BY <3>1, <3>2 DEF Sending
    <2> QED BY <1>1, <1>2, <2>1 DEF PubOwner
  <1>3. ASSUME pc[p] \in PublishPCs \ {"pubOwner"}, op[p] \in Publishers
        PROVE  /\ c \in Conns /\ Kept(c, t)
               /\ pc[p] = "pubAuto" => ToldInTime(c, t)
               /\ pc[p] = "pubLookup" => (OwnerForTarget(t) = c => Told(c, t))
    BY <1>3 DEF Sending, Publishing
  <1>4. CASE PubDiscover(p)
    <2>1. pc[p] = "pubDiscover" /\ op[p] \in Publishers
      BY <1>0, <1>4, Places DEF PubDiscover, Course
    <2>2. /\ pc'[p] = IF c \in discover \ closed THEN "pubCreated" ELSE "pubAuto"
          /\ cur'[p] = t /\ own'[p] = c
      BY <1>4, GotoOthers DEF PubDiscover
    <2>3. c \in Conns /\ Kept(c, t)
      BY <1>3, <2>1, Places
    <2>4. Kept(own[p], cur[p])'
      BY <1>0, <2>2, <2>3 DEF Kept
    <2>5. pc'[p] = "pubAuto" => ToldInTime(own[p], cur[p])'
      <3> SUFFICES ASSUME c \notin discover \ closed, OwnerForTarget(t) = c
                   PROVE  c \in bare \/ (c \notin autoAttach /\ c \notin discover)
        BY <1>0, <2>2 DEF ToldInTime, Told, OwnerForTarget, ConnectionClosed
      <3>1. c \notin closed
        BY <2>3, OwnershipAssumption DEF OwnerForTarget, ConnectionClosed
      <3> QED BY <3>1 DEF Bare
    <2> QED BY <2>2, <2>3, <2>4, <2>5 DEF Sending
  <1>5. CASE PubCreated(p)
    <2>1. pc[p] = "pubCreated" /\ op[p] \in Publishers
      BY <1>0, <1>5, Places DEF PubCreated, Course
    <2>2. pc'[p] = "pubAuto" /\ cur'[p] = t /\ own'[p] = c
      BY <1>5, GotoOthers DEF PubCreated
    <2>3. c \in Conns /\ Kept(c, t)
      BY <1>3, <2>1, Places
    <2>4. Kept(own[p], cur[p])'
      BY <1>0, <2>2, <2>3 DEF Kept
    <2>5. "created" \in sent'[t]
      BY <1>0, <1>5 DEF PubCreated, Send, Typed, Data
    <2>6. ToldInTime(own[p], cur[p])'
      BY <2>2, <2>5 DEF ToldInTime, Told
    <2> QED BY <2>2, <2>3, <2>4, <2>6 DEF Sending
  <1>6. CASE PubAuto(p)
    <2>1. pc[p] = "pubAuto" /\ op[p] \in Publishers
      BY <1>0, <1>6, Places DEF PubAuto, Course
    <2>2. CASE AttachDue(c, t)
      <3>1. pc'[p] = "pubLookup" /\ cur'[p] = t /\ own'[p] = c /\ sent' = sent
        BY <1>6, <2>2, GotoOthers DEF PubAuto, history
      <3>2. c \in Conns /\ Kept(c, t) /\ ToldInTime(c, t)
        BY <1>3, <2>1, Places
      <3>3. Kept(own[p], cur[p])'
        BY <1>0, <3>1, <3>2 DEF Kept
      <3>4. OwnerForTarget(t) = c => Told(c, t)
        BY <2>2, <3>2 DEF ToldInTime, AttachDue
      <3>5. OwnerForTarget(cur[p])' = own'[p] => Told(own[p], cur[p])'
        BY <1>0, <3>1, <3>4 DEF OwnerForTarget, ConnectionClosed, Told
      <3> QED BY <3>1, <3>2, <3>3, <3>5 DEF Sending
    <2> QED BY <1>1, <1>6, <2>2 DEF PubAuto
  <1>7. CASE PubLookup(p)
    <2>1. CASE OwnerForTarget(t) = NoConn
      BY <1>1, <1>7, <2>1 DEF PubLookup
    <2>2. CASE OwnerForTarget(t) # NoConn /\ op[p] \notin Publishers
      <3>1. op'[p] \notin Publishers
        BY <1>7, <2>2 DEF PubLookup
      <3> QED BY <3>1 DEF Sending, Publishing, Publishers
    <2>3. CASE OwnerForTarget(t) # NoConn /\ op[p] \in Publishers
      <3>1. /\ pc'[p] = "pubSend" /\ own'[p] = OwnerForTarget(t) /\ cur'[p] = t /\ sent' = sent
            /\ pc[p] = "pubLookup"
        BY <1>7, <2>3 DEF PubLookup, history, Typed, Control
      <3>2. c \in Conns /\ Kept(c, t) /\ (OwnerForTarget(t) = c => Told(c, t))
        BY <1>3, <2>3, <3>1, Places
      <3>3. OwnerForTarget(t) = c
        BY <2>3, <3>2 DEF OwnerForTarget, Kept
      <3>4. Kept(own[p], cur[p])' /\ Told(own[p], cur[p])'
        BY <1>0, <3>1, <3>2, <3>3 DEF Kept, Told
      <3> QED BY <3>1, <3>2, <3>3, <3>4 DEF Sending
    <2> QED BY <2>1, <2>2, <2>3
  <1>8. CASE PubSend(p)
    BY <1>1, <1>8 DEF PubSend
  <1> QED BY <1>2, <1>4, <1>5, <1>6, <1>7, <1>8 DEF Publish

LEMMA SendingNext ==
    ASSUME Typed, Cleared, Courses, Grows, Bare, \A p \in Threads : Sending(p), [Next]_vars,
           NEW q \in Threads
    PROVE  Sending(q)'
  <1>1. CASE UNCHANGED threads
    BY <1>1, SendingStays DEF threads
  <1>2. ASSUME NEW p \in Threads, Walks(p), p # q PROVE Sending(q)'
    BY <1>2, SendingStays DEF Walks, Others, Alone
  <1>3. CASE Walks(q)
    <2>1. CASE Publish(q)
      BY <2>1, SendingPublish
    <2>2. CASE ~Publishing(q)'
      BY <2>2 DEF Sending
    <2> QED BY <1>3, <2>1, <2>2 DEF Walks
  <1> QED BY <1>1, <1>2, <1>3, WalksNext

Sound == Typed /\ Tracked /\ Ending /\ Cleared /\ Ordered

LEMMA SoundNext == Sound /\ [Next]_vars => Sound'
  <1> SUFFICES ASSUME Sound, [Next]_vars PROVE Sound'
    OBVIOUS
  <1>1. Typed' /\ Tracked' /\ Ending' /\ Cleared'
    BY TypedNext, TrackedNext, EndingNext, ClearedNext DEF Sound
  <1>2. Grows
    BY GrowsNext DEF Sound
  <1>3. Courses' /\ AttachedOnce' /\ DestroyedOnce' /\ Bare'
    BY <1>2, CoursesNext, AttachedNext, DestroyedNext, BareNext DEF Sound, Ordered
  <1>4. \A q \in Threads : Sending(q)'
    BY <1>2, SendingNext DEF Sound, Ordered
  <1> QED BY <1>1, <1>3, <1>4 DEF Sound, Ordered

\* In every behaviour the attachment and the end of a page are each sent once,
\* and the attachment to a client that was told of the page's creation or asked
\* for auto-attach without discovery: the attach event, the reply to newPage, the
\* loops of setAutoAttach and setDiscoverTargets may all publish the same page at
\* once (publishOwnedPair, emitPageAttachOnSession, emitEvent, closeRecord).
THEOREM EventsInOrder == Spec => []AnnouncedInOrder
  <1>1. Init => Sound
    BY TypedInit, TrackedInit, EndingInit, ClearedInit, OrderedInit DEF Sound
  <1>2. Sound => AnnouncedInOrder
    BY OrderedAnnounced DEF Sound
  <1> QED BY <1>1, <1>2, SoundNext, PTL DEF Spec
=============================================================================
