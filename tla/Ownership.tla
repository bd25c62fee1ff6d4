------------------------------ MODULE Ownership ------------------------------
(***************************************************************************)
(* Page ownership in the bridge (pkg/bridge/ownership.go, target.go,       *)
(* bridge.go and the target events of events.go).                          *)
(*                                                                         *)
(* Every CDP connection owns the pages it creates.  Three kinds of         *)
(* goroutine work on the same records without a lock held across a whole   *)
(* operation: the handler of each connection (one command at a time), the  *)
(* close hook of each connection, and the backend's read loop, which runs  *)
(* the attach and detach event handlers one after the other.  A step of    *)
(* this module is one critical section, one backend call or one send.      *)
(***************************************************************************)
EXTENDS Naturals, FiniteSets

CONSTANTS
    Conns,          \* CDP connections
    Targets,        \* page targets the browser can ever have
    NoConn,         \* Go's nil *cdp.Connection
    NoTarget,       \* "no target": an idle thread, a page without opener
    Opener,         \* openerId of each target; NoTarget: made by Browser.newPage
    Commands,       \* the commands clients send
    BackendFails,   \* may Browser.newPage and Page.close fail or time out?
    Shutdown        \* may Server.Close/Shutdown close a busy connection?

ASSUME OwnershipAssumption ==
    /\ NoConn \notin Conns
    /\ NoTarget \notin Targets
    /\ Opener \in [Targets -> Targets \cup {NoTarget}]
    /\ Commands \subseteq {"create", "close", "attachTo", "autoAttachOn", "autoAttachOff",
                           "discoverOn", "discoverOff"}
    /\ BackendFails \in BOOLEAN
    /\ Shutdown \in BOOLEAN

VARIABLES
    \* the ownershipRegistry
    closed,         \* connections whose connectionState.closed is set
    discover,       \* connectionState.discover
    autoAttach,     \* connectionState.autoAttach
    pending,        \* owners of the pendingCreate entries
    claim,          \* claims: target -> owner of the claim, or NoConn
    cancelledTargets,
    state,          \* targetRecord.state; "none" before registerPair
    owner,          \* targetRecord.owner
    cancelled,      \* targets whose record has cancelled set
    cleaned,        \* targets whose record has cleaned set
    \* the rest of the bridge
    sessions,       \* targets whose sessions are in the SessionManager
    pairs,          \* autoAttachState.pairs
    parked,         \* autoAttachState.pending
    attachedRoot,   \* targets whose pair has pageAttachedRoot set
    ghosts,         \* targets with a session made by Target.attachToTarget
    \* goroutines
    pc, op, cur, own, todo,
    \* the browser
    page,           \* life of each page in the browser
    told,           \* last target event the read loop took for the page
    \* history
    createdBy,      \* connection whose createTarget got the page's ID
    sent,           \* kinds of target events sent about each page
    bare,           \* connections that asked for auto-attach without discovery
    late            \* targets whose close went on before the read loop stored the pair

connState == <<closed, discover, autoAttach>>
claimVars == <<pending, claim, cancelledTargets>>
recVars   == <<state, owner, cancelled, cleaned>>
bridge    == <<sessions, pairs, parked, attachedRoot, ghosts>>
threads   == <<pc, op, cur, own, todo>>
browser   == <<page, told>>
history   == <<createdBy, sent, bare, late>>
vars == <<connState, claimVars, recVars, bridge, threads, browser, history>>

------------------------------------------------------------------------------
Handler(c) == <<"handler", c>>
Closer(c)  == <<"closer", c>>
Reader     == <<"reader", NoConn>>
Threads    == ({"handler", "closer"} \X Conns) \cup {Reader}

Ops == {"none", "create", "close", "autoAttach", "discover", "attachTo",
        "disconnect", "attach", "detach"}

CreatePCs  == {"newPage", "reply", "claim", "found", "waiting", "navigate", "finish"}
ClosePCs   == {"details", "begin", "pageClose", "closeReply", "announce", "drop",
               "remove"}
PublishPCs == {"pubOwner", "pubDiscover", "pubCreated", "pubAuto", "pubLookup",
               "pubSend"}
AttachPCs  == {"register", "settle", "park"}
PCs == {"idle", "snapshot", "next", "attachTo"}
         \cup CreatePCs \cup ClosePCs \cup PublishPCs \cup AttachPCs

Kinds == {"created", "attached", "destroyed"}

TypeOK ==
    /\ closed \subseteq Conns /\ discover \subseteq Conns /\ autoAttach \subseteq Conns
    /\ pending \subseteq Conns
    /\ claim \in [Targets -> Conns \cup {NoConn}]
    /\ cancelledTargets \subseteq Targets
    /\ state \in [Targets -> {"none", "open", "closing", "closed"}]
    /\ owner \in [Targets -> Conns \cup {NoConn}]
    /\ cancelled \subseteq Targets /\ cleaned \subseteq Targets
    /\ sessions \subseteq Targets /\ pairs \subseteq Targets
    /\ parked \subseteq Targets /\ attachedRoot \subseteq Targets
    /\ ghosts \subseteq Targets
    /\ pc \in [Threads -> PCs]
    /\ op \in [Threads -> Ops]
    /\ cur \in [Threads -> Targets \cup {NoTarget}]
    /\ own \in [Threads -> Conns \cup {NoConn}]
    /\ todo \in [Threads -> SUBSET Targets]
    /\ page \in [Targets -> {"absent", "live", "dead"}]
    /\ told \in [Targets -> {"none", "attached", "detached"}]
    /\ createdBy \in [Targets -> Conns \cup {NoConn}]
    /\ sent \in [Targets -> SUBSET Kinds]
    /\ bare \subseteq Conns /\ late \subseteq Targets

Init ==
    /\ closed = {} /\ discover = {} /\ autoAttach = {}
    /\ pending = {} /\ cancelledTargets = {}
    /\ claim = [t \in Targets |-> NoConn]
    /\ state = [t \in Targets |-> "none"]
    /\ owner = [t \in Targets |-> NoConn]
    /\ cancelled = {} /\ cleaned = {}
    /\ sessions = {} /\ pairs = {} /\ parked = {} /\ attachedRoot = {} /\ ghosts = {}
    /\ pc = [p \in Threads |-> "idle"]
    /\ op = [p \in Threads |-> "none"]
    /\ cur = [p \in Threads |-> NoTarget]
    /\ own = [p \in Threads |-> NoConn]
    /\ todo = [p \in Threads |-> {}]
    /\ page = [t \in Targets |-> "absent"]
    /\ told = [t \in Targets |-> "none"]
    /\ createdBy = [t \in Targets |-> NoConn]
    /\ sent = [t \in Targets |-> {}]
    /\ bare = {} /\ late = {}

------------------------------------------------------------------------------
(* Reads of the registry.  registry.targets maps a target exactly while its *)
(* record is open or closing: remove deletes the entry and closes the       *)
(* record under one lock.                                                   *)

Registered(t) == state[t] \in {"open", "closing"}

\* A nil connection counts as closed; a connection that never spoke owns nothing.
ConnectionClosed(c) == c = NoConn \/ c \in closed

OwnerForTarget(t) ==
    IF t \in Targets /\ state[t] = "open" /\ ~ConnectionClosed(owner[t])
    THEN owner[t] ELSE NoConn

\* Mutants of ownedPairs: its test of record.pair, of record.state left out.
OwnedPairsNil(c)    == {t \in Targets : owner[t] = c /\ state[t] = "open"} \cup {NoTarget}
OwnedPairsClosed(c) == {t \in Targets : owner[t] = c}

OwnedPairs(c) == {t \in Targets : owner[t] = c /\ state[t] = "open"}

\* The claims closeConnection cancels.  Mutant: it forgets them.
ClaimsOfNone(c) == {}
ClaimsOf(c) == {t \in Targets : claim[t] = c}

\* registerPair: is the page to be closed as soon as it is registered?
\* Mutant: without cancelledTargets.
CancelledUnlessExpired(t) == claim[t] # NoConn /\ ConnectionClosed(claim[t])
CancelledAtAttach(t) ==
    IF claim[t] # NoConn THEN ConnectionClosed(claim[t]) ELSE t \in cancelledTargets

\* beginCleanup refuses.  Mutant: without record.cleaned.
CleanupRefusedClosed(t) == state[t] = "closed"
CleanupRefused(t) == t \in cleaned \/ state[t] = "closed"

\* publishOwnedPair attaches the page to connection c.  Mutant: more than once.
AttachAgain(c, t) == c \in autoAttach \ closed
AttachDue(c, t) == c \in autoAttach \ closed /\ t \notin attachedRoot

------------------------------------------------------------------------------
(* Control of a thread.                                                     *)

Start(p, o, l, t) ==
    /\ pc[p] = "idle"
    /\ pc'  = [pc EXCEPT ![p] = l]
    /\ op'  = [op EXCEPT ![p] = o]
    /\ cur' = [cur EXCEPT ![p] = t]

Goto(p, l) ==
    /\ pc' = [pc EXCEPT ![p] = l]
    /\ UNCHANGED <<op, cur, own, todo>>

\* Back to the statement after a call of closeRecord or publishOwnedPair.
Leave(p, l) ==
    /\ pc'  = [pc EXCEPT ![p] = l]
    /\ own' = [own EXCEPT ![p] = NoConn]
    /\ op'  = IF l = "idle" THEN [op EXCEPT ![p] = "none"] ELSE op
    /\ cur' = IF l \in {"idle", "next"} THEN [cur EXCEPT ![p] = NoTarget] ELSE cur
    /\ UNCHANGED todo

\* Mutant: ConnectionClosed closes one record.
AfterCloseOnce(p) == IF op[p] = "create" THEN "finish" ELSE "idle"

AfterClose(p) ==
    IF op[p] = "create" THEN "finish" ELSE IF op[p] = "disconnect" THEN "next" ELSE "idle"

\* closeRecord: from beginCleanup to the backend call, if closeBackend.
CleanupStart(p) == IF op[p] = "detach" THEN "announce" ELSE "pageClose"

AfterPublish(p) ==
    IF op[p] = "create" THEN "navigate"
    ELSE IF op[p] \in {"autoAttach", "discover"} THEN "next" ELSE "idle"

\* A reply of the backend is taken by its read loop, so none arrives while the
\* loop runs an event handler; a call may instead end with an error or time out.
Answered(p) == pc[Reader] = "idle"
Fails(p)    == BackendFails \/ p = Reader

Send(t, kind) == sent' = [sent EXCEPT ![t] = @ \cup {kind}]

------------------------------------------------------------------------------
(* Target.createTarget.  A closed connection's last commands may still be   *)
(* read when the server shuts down (frames already buffered).               *)

StartCreate(c) ==
    /\ c \in closed => Shutdown
    /\ Start(Handler(c), "create", "newPage", NoTarget)
    /\ pending' = pending \cup {c}
    /\ UNCHANGED <<connState, claim, cancelledTargets, recVars, bridge, own, todo,
                   browser, history>>

\* The browser opens the page, or refuses.
NewPage(c) ==
    LET p == Handler(c) IN
    /\ pc[p] = "newPage"
    /\ \/ \E t \in Targets :
            /\ page[t] = "absent" /\ Opener[t] = NoTarget
            /\ page' = [page EXCEPT ![t] = "live"]
            /\ pc'   = [pc EXCEPT ![p] = "reply"]
            /\ cur'  = [cur EXCEPT ![p] = t]
       \/ /\ Fails(p) \/ \A t \in Targets : page[t] # "absent" \/ Opener[t] # NoTarget
          /\ pc' = [pc EXCEPT ![p] = "finish"]
          /\ UNCHANGED <<page, cur>>
    /\ UNCHANGED <<connState, claimVars, recVars, bridge, op, own, todo, told, history>>

\* Browser.newPage returns the target's ID, or the call times out and the ID is lost.
NewPageReturns(c) ==
    LET p == Handler(c) IN
    /\ pc[p] = "reply"
    /\ \/ Answered(p) /\ createdBy' = [createdBy EXCEPT ![cur[p]] = c] /\ Goto(p, "claim")
       \/ Fails(p) /\ Goto(p, "finish") /\ UNCHANGED createdBy
    /\ UNCHANGED <<connState, claimVars, recVars, bridge, browser, sent, bare, late>>

\* claimTarget: the attach event came first (take the record), or is awaited.
ClaimTarget(c) ==
    LET p == Handler(c)
        t == cur[p] IN
    /\ pc[p] = "claim"
    /\ \/ /\ Registered(t)
          /\ \/ /\ c \in closed
                /\ cancelled' = cancelled \cup {t}
                /\ state' = [state EXCEPT ![t] = "closing"]
                /\ UNCHANGED owner
             \/ /\ c \notin closed
                /\ owner' = IF owner[t] = NoConn /\ state[t] = "open"
                            THEN [owner EXCEPT ![t] = c] ELSE owner
                /\ UNCHANGED <<state, cancelled>>
          /\ Goto(p, "found")
          /\ UNCHANGED <<claim, cancelledTargets>>
       \/ /\ ~Registered(t)
          /\ \/ /\ c \in closed
                /\ cancelledTargets' = cancelledTargets \cup {t}
                /\ UNCHANGED claim
             \/ /\ c \notin closed
                /\ claim' = [claim EXCEPT ![t] = c]
                /\ UNCHANGED cancelledTargets
          /\ Goto(p, "waiting")
          /\ UNCHANGED <<state, owner, cancelled>>
    /\ UNCHANGED <<connState, pending, cleaned, bridge, browser, history>>

\* createTarget got the record: close it, publish it, or just go on.
\* Mutant: it leaves the publication to the attach event.
FoundUnpublished(c, t) == IF c \in closed \/ t \in cancelled THEN "details" ELSE "navigate"
FoundNext(c, t) ==
    IF c \in closed \/ t \in cancelled THEN "details"
    ELSE IF owner[t] = c THEN "pubOwner" ELSE "navigate"

Found(c) ==
    LET p == Handler(c) IN
    /\ pc[p] = "found"
    /\ Goto(p, FoundNext(c, cur[p]))
    /\ UNCHANGED <<connState, claimVars, recVars, bridge, browser, history>>

\* cancelTarget; l is where the handler goes when there is no record to close.
CancelTarget(p, t, l) ==
    /\ claim' = [claim EXCEPT ![t] = NoConn]
    /\ cancelledTargets' = cancelledTargets \cup {t}
    /\ cancelled' = IF Registered(t) THEN cancelled \cup {t} ELSE cancelled
    /\ state' = IF Registered(t) THEN [state EXCEPT ![t] = "closing"] ELSE state
    /\ Goto(p, IF Registered(t) THEN "details" ELSE l)
    /\ UNCHANGED <<pending, owner, cleaned>>

\* createTarget got no record: the claim waits for registerPair.
Waiting(c) ==
    LET p == Handler(c) IN
    /\ pc[p] = "waiting"
    /\ \/ c \in closed /\ CancelTarget(p, cur[p], "finish")
       \/ c \notin closed /\ Goto(p, "navigate") /\ UNCHANGED <<claimVars, recVars>>
    /\ UNCHANGED <<connState, bridge, browser, history>>

\* The first navigation, if any; it fails when no session appears in two seconds.
Navigate(c) ==
    LET p == Handler(c) IN
    /\ pc[p] = "navigate"
    /\ \/ Goto(p, "finish") /\ UNCHANGED <<claimVars, recVars>>
       \/ /\ Fails(p) \/ cur[p] \notin sessions
          /\ CancelTarget(p, cur[p], "finish")
    /\ UNCHANGED <<connState, bridge, browser, history>>

\* The deferred finishCreate.
FinishCreate(c) ==
    LET p == Handler(c) IN
    /\ pc[p] = "finish"
    /\ pending' = pending \ {c}
    /\ Leave(p, "idle")
    /\ UNCHANGED <<connState, claim, cancelledTargets, recVars, bridge, browser, history>>

\* The ten-second timer of createTarget.
ExpireClaim(t) ==
    /\ claim[t] # NoConn
    /\ claim' = [claim EXCEPT ![t] = NoConn]
    /\ cancelledTargets' = cancelledTargets \cup {t}
    /\ UNCHANGED <<connState, pending, recVars, bridge, threads, browser, history>>

------------------------------------------------------------------------------
(* The other commands of a client.                                          *)

\* Target.closeTarget (and Page.close) of a page the client owns.
CloseTarget(c, t) ==
    /\ OwnerForTarget(t) = c
    /\ Start(Handler(c), "close", "details", t)
    /\ UNCHANGED <<connState, claimVars, recVars, bridge, own, todo, browser, history>>

\* Target.setAutoAttach on the browser session.
SetAutoAttach(c, on) ==
    /\ c \in closed => Shutdown
    /\ Start(Handler(c), "autoAttach", IF on THEN "snapshot" ELSE "next", NoTarget)
    /\ autoAttach' = IF on THEN autoAttach \cup {c} ELSE autoAttach \ {c}
    /\ bare' = IF on /\ c \notin discover THEN bare \cup {c} ELSE bare
    /\ UNCHANGED <<closed, discover, claimVars, recVars, bridge, own, todo, browser,
                   createdBy, sent, late>>

\* Target.setDiscoverTargets.
SetDiscover(c, on) ==
    /\ c \in closed => Shutdown
    /\ Start(Handler(c), "discover", IF on THEN "snapshot" ELSE "next", NoTarget)
    /\ discover' = IF on THEN discover \cup {c} ELSE discover \ {c}
    /\ bare' = IF ~on /\ c \in autoAttach THEN bare \cup {c} ELSE bare
    /\ UNCHANGED <<closed, autoAttach, claimVars, recVars, bridge, own, todo, browser,
                   createdBy, sent, late>>

\* With the flag set: ownedPairs, or SessionManager.All.
Snapshot(c) ==
    LET p == Handler(c) IN
    /\ pc[p] = "snapshot"
    /\ todo' = [todo EXCEPT ![p] = IF op[p] = "autoAttach" THEN OwnedPairs(c)
                                                          ELSE sessions \cup ghosts]
    /\ pc'   = [pc EXCEPT ![p] = "next"]
    /\ UNCHANGED <<connState, claimVars, recVars, bridge, op, cur, own, browser, history>>

\* What a loop does with page t: publish it, close it, announce it if still owned.
Visit(p, t) ==
    IF op[p] = "autoAttach" THEN "pubOwner"
    ELSE IF op[p] = "disconnect" THEN "details"
    ELSE IF OwnerForTarget(t) = p[2] THEN "pubLookup" ELSE "next"

\* The loops over owned pairs, over sessions, and over the records of a closed
\* connection: the next element, or the end.
NextOf(p) ==
    /\ pc[p] = "next"
    /\ \/ \E t \in todo[p] :
            /\ todo' = [todo EXCEPT ![p] = @ \ {t}]
            /\ cur'  = [cur EXCEPT ![p] = t]
            /\ pc'   = [pc EXCEPT ![p] = Visit(p, t)]
            /\ UNCHANGED <<op, own>>
       \/ todo[p] = {} /\ Leave(p, "idle")
    /\ UNCHANGED <<connState, claimVars, recVars, bridge, browser, history>>

\* Target.attachToTarget: a page without a session gets a new one.
AttachToTarget(c, t) ==
    /\ OwnerForTarget(t) = c
    /\ Start(Handler(c), "attachTo", "attachTo", t)
    /\ UNCHANGED <<connState, claimVars, recVars, bridge, own, todo, browser, history>>

AttachSession(c) ==
    LET p == Handler(c) IN
    /\ pc[p] = "attachTo"
    /\ \/ cur[p] \in sessions \cup ghosts /\ Leave(p, "idle") /\ UNCHANGED ghosts
       \/ /\ cur[p] \notin sessions \cup ghosts
          /\ ghosts' = ghosts \cup {cur[p]}
          /\ Goto(p, "pubLookup")
    /\ UNCHANGED <<connState, claimVars, recVars, sessions, pairs, parked, attachedRoot,
                   browser, history>>

------------------------------------------------------------------------------
(* publishOwnedPair and emitEvent, run by handlers and by the read loop.    *)

\* recordForTarget and recordDetails, and the pair leaves autoAttach.pending.
PubOwner(p) ==
    LET t == cur[p] IN
    /\ pc[p] = "pubOwner"
    /\ IF Registered(t) /\ owner[t] # NoConn /\ t \notin cancelled
       THEN /\ own' = [own EXCEPT ![p] = owner[t]]
            /\ pc'  = [pc EXCEPT ![p] = "pubDiscover"]
            /\ parked' = parked \ {t}
            /\ UNCHANGED <<op, cur, todo>>
       ELSE Leave(p, AfterPublish(p)) /\ UNCHANGED parked
    /\ UNCHANGED <<connState, claimVars, recVars, sessions, pairs, attachedRoot, ghosts,
                   browser, history>>

PubDiscover(p) ==
    /\ pc[p] = "pubDiscover"
    /\ Goto(p, IF own[p] \in discover \ closed THEN "pubCreated" ELSE "pubAuto")
    /\ UNCHANGED <<connState, claimVars, recVars, bridge, browser, history>>

PubCreated(p) ==
    /\ pc[p] = "pubCreated"
    /\ Send(cur[p], "created")
    /\ Goto(p, "pubAuto")
    /\ UNCHANGED <<connState, claimVars, recVars, bridge, browser, createdBy, bare, late>>

\* autoAttachEnabled, then pageAttachedRoot is tested and set.
PubAuto(p) ==
    /\ pc[p] = "pubAuto"
    /\ IF AttachDue(own[p], cur[p])
       THEN attachedRoot' = attachedRoot \cup {cur[p]} /\ Goto(p, "pubLookup")
       ELSE Leave(p, AfterPublish(p)) /\ UNCHANGED attachedRoot
    /\ UNCHANGED <<connState, claimVars, recVars, sessions, pairs, parked, ghosts,
                   browser, history>>

\* emitEvent looks the owner up again; an event without owner is dropped.
PubLookup(p) ==
    LET c == OwnerForTarget(cur[p]) IN
    /\ pc[p] = "pubLookup"
    /\ IF c = NoConn
       THEN Leave(p, AfterPublish(p))
       ELSE /\ own' = [own EXCEPT ![p] = c]
            /\ pc'  = [pc EXCEPT ![p] = "pubSend"]
            /\ UNCHANGED <<op, cur, todo>>
    /\ UNCHANGED <<connState, claimVars, recVars, bridge, browser, history>>

PubSend(p) ==
    /\ pc[p] = "pubSend"
    /\ Send(cur[p], IF op[p] = "discover" THEN "created" ELSE "attached")
    /\ Leave(p, AfterPublish(p))
    /\ UNCHANGED <<connState, claimVars, recVars, bridge, browser, createdBy, bare, late>>

------------------------------------------------------------------------------
(* closeRecord, run by handlers, close hooks and the read loop.  Calls of   *)
(* disableFetchIfUnused change nothing here, and make none when another     *)
(* session still intercepts.                                                *)

\* recordDetails: who will be told.
Details(p) ==
    /\ pc[p] = "details"
    /\ own' = [own EXCEPT ![p] = owner[cur[p]]]
    /\ pc'  = [pc EXCEPT ![p] = "begin"]
    /\ UNCHANGED <<connState, claimVars, recVars, bridge, op, cur, todo, browser, history>>

\* beginCleanup: the first to come cleans up.
BeginCleanup(p) ==
    LET t == cur[p] IN
    /\ pc[p] = "begin"
    /\ IF CleanupRefused(t)
       THEN Leave(p, AfterClose(p)) /\ UNCHANGED <<state, cleaned>>
       ELSE /\ state' = [state EXCEPT ![t] = "closing"]
            /\ cleaned' = cleaned \cup {t}
            /\ Goto(p, CleanupStart(p))
    /\ UNCHANGED <<connState, claimVars, owner, cancelled, bridge, browser, history>>

PageClose(p) ==
    /\ pc[p] = "pageClose"
    /\ \/ page' = [page EXCEPT ![cur[p]] = "dead"]
       \/ BackendFails /\ UNCHANGED page
    /\ Goto(p, "closeReply")
    /\ UNCHANGED <<connState, claimVars, recVars, bridge, told, history>>

\* The read loop has the record of t registered and its pair not yet in place.
StillStoring(t) == pc[Reader] \in {"settle", "park"} /\ cur[Reader] = t

\* Answered or not, the cleanup goes on.
PageCloseReturns(p) ==
    /\ pc[p] = "closeReply"
    /\ Answered(p) \/ Fails(p)
    /\ late' = IF StillStoring(cur[p]) THEN late \cup {cur[p]} ELSE late
    /\ Goto(p, "announce")
    /\ UNCHANGED <<connState, claimVars, recVars, bridge, browser, createdBy, sent, bare>>

\* clearConnectionState, then the two events of the end.
Announce(p) ==
    /\ pc[p] = "announce"
    /\ pairs' = pairs \ {cur[p]}
    /\ IF own[p] = NoConn THEN UNCHANGED sent ELSE Send(cur[p], "destroyed")
    /\ Goto(p, "drop")
    /\ UNCHANGED <<connState, claimVars, recVars, sessions, parked, attachedRoot, ghosts,
                   browser, createdBy, bare, late>>

\* autoAttach.pending without t.  Mutant: the closed page keeps its place.
WithClosed(t) == parked
Unparked(t)   == parked \ {t}

\* Both sessions, the pair and its place in autoAttach.pending.
Drop(p) ==
    LET t == cur[p] IN
    /\ pc[p] = "drop"
    /\ sessions' = sessions \ {t}
    /\ pairs'    = pairs \ {t}
    /\ parked'   = Unparked(t)
    /\ Goto(p, "remove")
    /\ UNCHANGED <<connState, claimVars, recVars, attachedRoot, ghosts, browser, history>>

Remove(p) ==
    /\ pc[p] = "remove"
    /\ state' = [state EXCEPT ![cur[p]] = "closed"]
    /\ Leave(p, AfterClose(p))
    /\ UNCHANGED <<connState, claimVars, owner, cancelled, cleaned, bridge, browser,
                   history>>

------------------------------------------------------------------------------
(* The close hook of a connection.  The handler's own loop runs it when the *)
(* client goes; the server runs it while the handler is busy on shutdown.   *)

CloseConnection(c) ==
    LET p == Closer(c)
        records == OwnedPairs(c) IN
    /\ c \notin closed
    /\ Shutdown \/ pc[Handler(c)] = "idle"
    /\ Start(p, "disconnect", "next", NoTarget)
    /\ closed' = closed \cup {c}
    /\ pending' = pending \ {c}
    /\ cancelledTargets' = cancelledTargets \cup ClaimsOf(c)
    /\ claim' = [t \in Targets |-> IF t \in ClaimsOf(c) THEN NoConn ELSE claim[t]]
    /\ owner' = [t \in Targets |-> IF t \in records THEN NoConn ELSE owner[t]]
    /\ state' = [t \in Targets |-> IF t \in records THEN "closing" ELSE state[t]]
    /\ todo' = [todo EXCEPT ![p] = records]
    /\ UNCHANGED <<discover, autoAttach, cancelled, cleaned, bridge, own, browser, history>>

------------------------------------------------------------------------------
(* The read loop's handlers of the target events.                           *)

\* Browser.attachedToTarget: the sessions are added, the opener's owner read.
AttachedToTarget(t) ==
    /\ page[t] # "absent" /\ told[t] = "none"
    /\ Start(Reader, "attach", "register", t)
    /\ told' = [told EXCEPT ![t] = "attached"]
    /\ sessions' = sessions \cup {t}
    /\ own' = [own EXCEPT ![Reader] = OwnerForTarget(Opener[t])]
    /\ UNCHANGED <<connState, claimVars, recVars, pairs, parked, attachedRoot, ghosts,
                   todo, page, history>>

\* registerPair: a claim decides the owner, else the opener's owner gets the page.
RegisterPair ==
    LET t == cur[Reader]
        c == IF claim[t] # NoConn THEN claim[t] ELSE own[Reader]
        cancel == CancelledAtAttach(t) IN
    /\ pc[Reader] = "register"
    /\ claim' = [claim EXCEPT ![t] = NoConn]
    /\ cancelledTargets' = cancelledTargets \ {t}
    /\ owner' = [owner EXCEPT ![t] = IF cancel THEN NoConn ELSE c]
    /\ state' = [state EXCEPT ![t] = IF cancel THEN "closing" ELSE "open"]
    /\ cancelled' = IF cancel THEN cancelled \cup {t} ELSE cancelled
    /\ pc'  = [pc EXCEPT ![Reader] = "settle"]
    /\ own' = [own EXCEPT ![Reader] = NoConn]
    /\ UNCHANGED <<connState, pending, cleaned, bridge, op, cur, todo, browser, history>>

\* The pair is stored and the record read back: close it, publish it or park it.
Settle ==
    LET t == cur[Reader] IN
    /\ pc[Reader] = "settle"
    /\ pairs' = pairs \cup {t}
    /\ Goto(Reader, IF t \in cancelled THEN "details"
                    ELSE IF owner[t] # NoConn THEN "pubOwner" ELSE "park")
    /\ UNCHANGED <<connState, claimVars, recVars, sessions, parked, attachedRoot, ghosts,
                   browser, history>>

Park ==
    /\ pc[Reader] = "park"
    /\ parked' = parked \cup {cur[Reader]}
    /\ Leave(Reader, "idle")
    /\ UNCHANGED <<connState, claimVars, recVars, sessions, pairs, attachedRoot, ghosts,
                   browser, history>>

\* Browser.detachedFromTarget: close the record, or drop a session without one.
DetachedFromTarget(t) ==
    /\ page[t] = "dead" /\ told[t] = "attached"
    /\ pc[Reader] = "idle"
    /\ told' = [told EXCEPT ![t] = "detached"]
    /\ \/ /\ Registered(t)
          /\ Start(Reader, "detach", "details", t)
          /\ UNCHANGED <<own, todo, bridge>>
       \/ /\ ~Registered(t)
          /\ sessions' = sessions \ {t}
          /\ ghosts' = ghosts \ {t}
          /\ UNCHANGED <<threads, pairs, parked, attachedRoot>>
    /\ UNCHANGED <<connState, claimVars, recVars, page, history>>

------------------------------------------------------------------------------
(* The browser.                                                             *)

\* A page opens another (window.open); its own attach event came long before.
PopupOpens(t) ==
    /\ page[t] = "absent" /\ Opener[t] # NoTarget
    /\ page[Opener[t]] = "live" /\ told[Opener[t]] = "attached"
    /\ page' = [page EXCEPT ![t] = "live"]
    /\ UNCHANGED <<connState, claimVars, recVars, bridge, threads, told, history>>

\* A page closes itself or crashes.
PageDies(t) ==
    /\ page[t] = "live"
    /\ page' = [page EXCEPT ![t] = "dead"]
    /\ UNCHANGED <<connState, claimVars, recVars, bridge, threads, told, history>>

------------------------------------------------------------------------------
\* One command of a client.
Command(c) ==
    \/ "create" \in Commands /\ StartCreate(c)
    \/ "close" \in Commands /\ \E t \in Targets : CloseTarget(c, t)
    \/ "attachTo" \in Commands /\ \E t \in Targets : AttachToTarget(c, t)
    \/ "autoAttachOn" \in Commands /\ SetAutoAttach(c, TRUE)
    \/ "autoAttachOff" \in Commands /\ SetAutoAttach(c, FALSE)
    \/ "discoverOn" \in Commands /\ SetDiscover(c, TRUE)
    \/ "discoverOff" \in Commands /\ SetDiscover(c, FALSE)

\* createTarget after its start.
CreateStep(c) ==
    \/ NewPage(c) \/ NewPageReturns(c) \/ ClaimTarget(c) \/ Found(c)
    \/ Waiting(c) \/ Navigate(c) \/ FinishCreate(c)

Publish(p) ==
    PubOwner(p) \/ PubDiscover(p) \/ PubCreated(p) \/ PubAuto(p) \/ PubLookup(p)
        \/ PubSend(p)

CloseRecord(p) ==
    Details(p) \/ BeginCleanup(p) \/ PageClose(p) \/ PageCloseReturns(p) \/ Announce(p) \/ Drop(p) \/ Remove(p)

HandlerStep(c) ==
    \/ CreateStep(c) \/ Snapshot(c) \/ AttachSession(c) \/ NextOf(Handler(c))
    \/ Publish(Handler(c)) \/ CloseRecord(Handler(c))

CloserStep(c) == NextOf(Closer(c)) \/ CloseRecord(Closer(c))

ReaderStep ==
    \/ \E t \in Targets : AttachedToTarget(t) \/ DetachedFromTarget(t)
    \/ RegisterPair \/ Settle \/ Park
    \/ Publish(Reader) \/ CloseRecord(Reader)

Next ==
    \/ \E c \in Conns : Command(c) \/ HandlerStep(c) \/ CloseConnection(c) \/ CloserStep(c)
    \/ ReaderStep
    \/ \E t \in Targets : ExpireClaim(t) \/ PopupOpens(t) \/ PageDies(t)

Spec == Init /\ [][Next]_vars

(* A goroutine that can run does run, the backend's events and replies are  *)
(* read, and the timer of a claim fires.  No client has to send a command,  *)
(* to disconnect, or to see its pages close.                                *)
Fairness ==
    /\ \A c \in Conns : WF_vars(HandlerStep(c)) /\ WF_vars(CloserStep(c))
    /\ WF_vars(ReaderStep)
    /\ \A t \in Targets : WF_vars(ExpireClaim(t))

FairSpec == Spec /\ Fairness

------------------------------------------------------------------------------
(* Safety.                                                                  *)

\* A page made by Browser.newPage never belongs to a connection that is gone:
\* whatever the order of the attach event, the reply with the target's ID and
\* the disconnect, neither its open record nor a claim on it names a closed
\* connection (claimTarget, registerPair, expireClaim, closeConnection).
OwnerLive ==
    /\ \A t \in Targets :
          Opener[t] = NoTarget /\ state[t] = "open" => owner[t] \notin closed
    /\ \A t \in Targets : claim[t] \notin closed

\* Thread p has the record of t in hand and is bound to close it.
Closes(p, t) ==
    \/ cur[p] = t /\ pc[p] \in ClosePCs
    \/ cur[p] = t /\ pc[p] \in {"found", "settle"} /\ t \in cancelled
    \/ t \in todo[p] /\ op[p] = "disconnect"

\* A record that is closing is in the hands of a goroutine that will remove it,
\* and of one alone once its cleanup has begun: beginCleanup turns the others
\* away, and none of them turns away a record nobody cleans.
ClosingHasCloser ==
    \A t \in Targets : state[t] = "closing" =>
        IF t \in cleaned
        THEN Cardinality({p \in Threads : cur[p] = t /\ pc[p] \in ClosePCs \ {"details", "begin"}}) = 1
        ELSE \E p \in Threads : Closes(p, t)

\* Nothing is left behind of a closed page, whether Page.close was answered,
\* failed or timed out: the sessions were added before the record and are gone
\* with it, and so are the pair and its place in the pending queue, but for one
\* window: a Page.close that timed out while the read loop was between the
\* record and the pair of that very page (registerPair to the parking).
NothingLeft ==
    \A t \in Targets :
        /\ state[t] = "open" => t \in sessions
        /\ state[t] = "closed" => t \notin sessions
        /\ state[t] = "closed" /\ t \notin late => t \notin pairs \cup parked

\* A client hears of a page's attachment once, of its end once, and of the
\* attachment only after the page was announced as created, unless it asked for
\* auto-attach without discovery: the emissions of the handler and of the read
\* loop meet in publishOwnedPair and emitPageAttachOnSession.
AnnouncedInOrder ==
    \A p \in Threads :
        /\ pc[p] = "announce" => "destroyed" \notin sent[cur[p]]
        /\ pc[p] = "pubSend" /\ op[p] # "discover" =>
              /\ "attached" \notin sent[cur[p]]
              /\ own[p] \in bare \/ "created" \in sent[cur[p]]

------------------------------------------------------------------------------
(* The life of an owned page as a lease: see module Lease.                  *)

L == INSTANCE Lease WITH phase <- state, holder <- owner, gone <- closed
LeaseSpec == L!Spec

------------------------------------------------------------------------------
(* Liveness.                                                                *)

\* A cleanup that began comes to its end: no goroutine waits for another that
\* waits for it (with backend calls answered, or cut off by their timeout).
ClosingCompletes == \A t \in Targets : (state[t] = "closing") ~> (state[t] = "closed")

\* A page whose client is gone is closed in the browser, whether it was
\* created, claimed, parked or registered when the client left.
ReleasedOnDisconnect ==
    \A t \in Targets : (createdBy[t] \in closed) ~> (page[t] = "dead")

\* "ConnectionClosed releases all pages owned by a disconnected CDP client"
\* (bridge.go:226): no page, popups included, stays open for a client that left.
AllReleased ==
    \A t \in Targets : (state[t] = "open" /\ owner[t] \in closed) ~> (state[t] # "open")

\* An owned page of a connected client with auto-attach on gets announced,
\* whichever of the attach event, the reply of newPage and setAutoAttach is last.
OwnedIsAttached ==
    \A t \in Targets, c \in Conns :
        (state[t] = "open" /\ owner[t] = c /\ c \in autoAttach)
            ~> ("attached" \in sent[t] \/ state[t] # "open" \/ c \notin autoAttach \ closed)
==============================================================================
