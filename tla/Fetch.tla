-------------------------------- MODULE Fetch --------------------------------
(***************************************************************************)
(* Request interception (pkg/bridge/fetch.go, the request events of        *)
(* events.go, the request owners of ownership.go and what closeRecord and  *)
(* ConnectionClosed do to them).                                           *)
(*                                                                         *)
(* The browser intercepts per browser context, the clients ask per page    *)
(* session: the bridge keeps the patterns of each session, sets the        *)
(* browser's switch when they change, and resumes what no client asked     *)
(* for.  Handlers of connections, close hooks and the backend's read loop  *)
(* share that state without a lock over an operation; a step is one        *)
(* critical section or one backend call.  Pages and owners are as module   *)
(* Ownership leaves them once published.                                   *)
(***************************************************************************)
EXTENDS Naturals, FiniteSets

CONSTANTS
    Conns,          \* CDP connections
    Sessions,       \* page sessions, each of a published page
    Requests,       \* requests the pages can make
    Contexts,       \* browser contexts
    DefaultContext, \* the one meant when a call names none
    PatternSets,    \* patterns parameters of Fetch.enable
    NoPatterns,     \* a session without entry in fetchPatterns
    NoSession,      \* Go's "": no session
    NoRequest,      \* a thread without a request in hand
    Owner,          \* connection that owns the page of each session
    Context,        \* browser context of each session
    Origin,         \* session of the page that makes each request
    Matching,       \* requests each set of patterns selects
    Older,          \* may the browser report requests by Browser.requestIntercepted?
    BackendFails    \* may calls of clients and of cleanups fail or time out?

ASSUME FetchAssumption ==
    /\ IsFiniteSet(Conns) /\ DefaultContext \in Contexts
    /\ NoPatterns \notin PatternSets
    /\ NoSession \notin Sessions
    /\ NoRequest \notin Requests
    /\ Owner \in [Sessions -> Conns]
    /\ Context \in [Sessions -> Contexts]
    /\ Origin \in [Requests -> Sessions]
    /\ Matching \in [PatternSets -> SUBSET Requests]
    /\ Older \in BOOLEAN
    /\ BackendFails \in BOOLEAN

VARIABLES
    \* the bridge
    fetchPatterns,  \* patterns of each session, or NoPatterns
    requestOwners,  \* session that owns each request, or NoSession
    state,          \* targetRecord.state of the session's page
    cleaned,        \* sessions whose record has cleaned set
    sessions,       \* sessions in the SessionManager
    closed,         \* connections whose close hook has run
    \* goroutines
    pc, cur, rq, want, on,
    resumers,       \* goroutines about to resume a request, by the session or by none
    \* the browser
    switch,         \* is interception on, per context
    alive,          \* sessions whose page lives
    request,        \* life of each request
    caught,         \* requests made while the switch was on
    byFrame,        \* those of them reported by Browser.requestIntercepted
    news,           \* requests whose first event the read loop has not taken
    failures,       \* requests whose Network.requestFailed it has not taken
    \* history
    paused,         \* requests announced by Fetch.requestPaused
    asked           \* requests whose session had patterns at some time

bridge  == <<fetchPatterns, requestOwners, state, cleaned, sessions, closed>>
threads == <<pc, cur, rq, want, on>>
browser == <<switch, alive, request, caught, byFrame, news, failures>>
history == <<paused, asked>>
vars == <<bridge, threads, resumers, browser, history>>

------------------------------------------------------------------------------
Handler(c) == <<"handler", c>>
Closer(c)  == <<"closer", c>>
Reader     == <<"reader", NoSession>>
Threads    == ({"handler", "closer"} \X Conns) \cup {Reader}

FetchPCs   == {"setPatterns", "enableCall", "enableReply", "unset", "clear", "readOn",
               "setCall", "setReply", "owned", "actCall", "actReply", "bodyOwned",
               "bodyReply"}
CleanupPCs == {"begin", "pageClose", "closeReply", "clearPatterns", "clearRequests", "check",
               "offCall", "offReply", "drop", "remove"}
PagePCs    == FetchPCs \cup (CleanupPCs \ {"check", "offCall", "offReply"})
EventPCs   == {"note", "enabled", "match", "announce"}
PCs == {"idle", "next"} \cup FetchPCs \cup CleanupPCs \cup EventPCs

TypeOK ==
    /\ fetchPatterns \in [Sessions -> PatternSets \cup {NoPatterns}]
    /\ requestOwners \in [Requests -> Sessions \cup {NoSession}]
    /\ state \in [Sessions -> {"open", "closing", "closed"}]
    /\ cleaned \subseteq Sessions /\ sessions \subseteq Sessions /\ closed \subseteq Conns
    /\ \A s \in cleaned : state[s] # "open"
    /\ pc \in [Threads -> PCs]
    /\ \A p \in Threads : pc[p] \in PagePCs => cur[p] \in Sessions
    /\ cur \in [Threads -> Sessions \cup {NoSession}]
    /\ rq \in [Threads -> Requests \cup {NoRequest}]
    /\ want \in [Threads -> PatternSets \cup {NoPatterns}]
    /\ on \in [Threads -> BOOLEAN]
    /\ resumers \subseteq Requests \X (Sessions \cup {NoSession})
    /\ switch \in [Contexts -> BOOLEAN]
    /\ alive \subseteq Sessions
    /\ request \in [Requests -> {"none", "free", "held", "released", "gone"}]
    /\ caught \subseteq Requests /\ byFrame \subseteq caught
    /\ news \subseteq Requests /\ failures \subseteq Requests
    /\ paused \subseteq Requests
    /\ asked \subseteq Requests

Init ==
    /\ fetchPatterns = [s \in Sessions |-> NoPatterns]
    /\ requestOwners = [r \in Requests |-> NoSession]
    /\ state = [s \in Sessions |-> "open"]
    /\ cleaned = {} /\ sessions = Sessions /\ closed = {}
    /\ pc = [p \in Threads |-> "idle"]
    /\ cur = [p \in Threads |-> NoSession]
    /\ rq = [p \in Threads |-> NoRequest]
    /\ want = [p \in Threads |-> NoPatterns]
    /\ on = [p \in Threads |-> FALSE]
    /\ resumers = {}
    /\ switch = [x \in Contexts |-> FALSE]
    /\ alive = Sessions
    /\ request = [r \in Requests |-> "none"]
    /\ caught = {} /\ byFrame = {} /\ news = {} /\ failures = {}
    /\ paused = {}
    /\ asked = {}

------------------------------------------------------------------------------
(* Reads of the shared state.                                               *)

\* Does connection c own session s (sessionOwned)?
SessionOwned(c, s) == state[s] = "open" /\ Owner[s] = c

FetchInterceptionEnabled == \E s \in Sessions : fetchPatterns[s] # NoPatterns

\* Mutant: as if only the legacy Network domain were there.
AnySessionEnabled(s) == FetchInterceptionEnabled
FetchEnabledForSession(s) == s \in Sessions /\ fetchPatterns[s] # NoPatterns

\* A session without patterns is left to whoever asked for the interception.
ShouldPause(s, r) ==
    fetchPatterns[s] # NoPatterns => r \in Matching[fetchPatterns[s]]

\* The context a call for session s names: none once the session is removed.
CallContext(s) == IF s \in sessions THEN Context[s] ELSE DefaultContext

\* resolveCDPSession, for an event of the page that made r.
Resolved(r) == IF Origin[r] \in sessions THEN Origin[r] ELSE NoSession

\* sessionForFrame: the frame's page has one session, if it still has an owner.
ForFrame(r) == IF state[Origin[r]] = "open" THEN Resolved(r) ELSE NoSession

\* The value Fetch.disable gives to the switch.  Mutant: off, as the docs' table says.
SwitchOff == FALSE
SwitchOnDisable == FetchInterceptionEnabled

\* clearRequests.  Mutant: the requests of every session.
EveryRequest(s) == Requests
RequestsOf(s) == {r \in Requests : requestOwners[r] = s}

------------------------------------------------------------------------------
(* Control of a thread.                                                     *)

Goto(p, l) ==
    /\ pc' = [pc EXCEPT ![p] = l]
    /\ UNCHANGED <<cur, rq, want, on>>

\* The end of an operation.
Finish(p, l) ==
    /\ pc'   = [pc EXCEPT ![p] = l]
    /\ cur'  = [cur EXCEPT ![p] = NoSession]
    /\ rq'   = [rq EXCEPT ![p] = NoRequest]
    /\ want' = [want EXCEPT ![p] = NoPatterns]
    /\ on'   = [on EXCEPT ![p] = FALSE]

\* A command of connection c on session s; authorize lets it pass.
Start(c, s, l) ==
    /\ pc[Handler(c)] = "idle"
    /\ SessionOwned(c, s)
    /\ pc'  = [pc EXCEPT ![Handler(c)] = l]
    /\ cur' = [cur EXCEPT ![Handler(c)] = s]

\* A call returns when the read loop, idle then, takes its reply, or when it
\* times out: the read loop's own calls can only do that.
Answered   == pc[Reader] = "idle"
Returns(p) == Answered \/ BackendFails \/ p = Reader

\* Browser.setRequestInterception: it takes effect, or it does not.
SetSwitch(x, v) ==
    \/ switch' = [switch EXCEPT ![x] = v]
    \/ BackendFails /\ UNCHANGED switch

------------------------------------------------------------------------------
(* Fetch.enable and Fetch.disable.                                          *)

StartEnable(c, s) ==
    /\ Start(c, s, "setPatterns")
    /\ \E ps \in PatternSets : want' = [want EXCEPT ![Handler(c)] = ps]
    /\ UNCHANGED <<bridge, rq, on, resumers, browser, history>>

SetFetchPatterns(p) ==
    /\ pc[p] = "setPatterns"
    /\ fetchPatterns' = [fetchPatterns EXCEPT ![cur[p]] = want[p]]
    /\ asked' = asked \cup {r \in Requests : Origin[r] = cur[p]}
    /\ Goto(p, "enableCall")
    /\ UNCHANGED <<requestOwners, state, cleaned, sessions, closed, resumers, browser, paused>>

EnableCall(p) ==
    /\ pc[p] = "enableCall"
    /\ \/ switch' = [switch EXCEPT ![CallContext(cur[p])] = TRUE] /\ Goto(p, "enableReply")
       \/ BackendFails /\ UNCHANGED switch /\ Goto(p, "unset")
    /\ UNCHANGED <<bridge, resumers, alive, request, caught, byFrame, news, failures, history>>

EnableReturns(p) ==
    /\ pc[p] = "enableReply"
    /\ \/ Answered /\ Finish(p, "idle")
       \/ BackendFails /\ Goto(p, "unset")
    /\ UNCHANGED <<bridge, resumers, browser, history>>

\* clearFetchPatterns, of Fetch.disable ("clear") or after a failed Fetch.enable.
ClearFetchPatterns(p) ==
    /\ pc[p] \in {"unset", "clear"}
    /\ fetchPatterns' = [fetchPatterns EXCEPT ![cur[p]] = NoPatterns]
    /\ IF pc[p] = "unset" THEN Finish(p, "idle") ELSE Goto(p, "readOn")
    /\ UNCHANGED <<requestOwners, state, cleaned, sessions, closed, resumers, browser,
                   history>>

StartDisable(c, s) ==
    /\ Start(c, s, "clear")
    /\ UNCHANGED <<bridge, rq, want, on, resumers, browser, history>>

ReadEnabled(p) ==
    /\ pc[p] = "readOn"
    /\ on' = [on EXCEPT ![p] = SwitchOnDisable]
    /\ pc' = [pc EXCEPT ![p] = "setCall"]
    /\ UNCHANGED <<bridge, cur, rq, want, resumers, browser, history>>

DisableCall(p) ==
    /\ pc[p] = "setCall"
    /\ SetSwitch(CallContext(cur[p]), on[p])
    /\ Goto(p, "setReply")
    /\ UNCHANGED <<bridge, resumers, alive, request, caught, byFrame, news, failures, history>>

DisableReturns(p) ==
    /\ pc[p] = "setReply"
    /\ Returns(p)
    /\ Finish(p, "idle")
    /\ UNCHANGED <<bridge, resumers, browser, history>>

------------------------------------------------------------------------------
(* Commands about a request.                                                *)

\* continueRequest, fulfillRequest, failRequest and continueResponse ("owned"),
\* getResponseBody ("bodyOwned").
StartRequest(c, s, r) ==
    /\ \E l \in {"owned", "bodyOwned"} : Start(c, s, l)
    /\ rq' = [rq EXCEPT ![Handler(c)] = r]
    /\ UNCHANGED <<bridge, want, on, resumers, browser, history>>

\* requestOwned.
RequestOwned(p) ==
    /\ pc[p] \in {"owned", "bodyOwned"}
    /\ IF requestOwners[rq[p]] # cur[p] THEN Finish(p, "idle")
       ELSE Goto(p, IF pc[p] = "owned" THEN "actCall" ELSE "bodyReply")
    /\ UNCHANGED <<bridge, resumers, browser, history>>

\* The backend lets the request of a page it knows by this session go on.
Release(s, r) ==
    request' = IF request[r] = "held" /\ s = Origin[r] /\ s \in sessions
               THEN [request EXCEPT ![r] = "released"]
               ELSE request

ActCall(p) ==
    /\ pc[p] = "actCall"
    /\ \/ Release(cur[p], rq[p])
       \/ BackendFails /\ UNCHANGED request
    /\ Goto(p, "actReply")
    /\ UNCHANGED <<bridge, resumers, switch, alive, caught, byFrame, news, failures, history>>

ActReturns(p) ==
    /\ pc[p] = "actReply"
    /\ Returns(p)
    /\ Finish(p, "idle")
    /\ UNCHANGED <<bridge, resumers, browser, history>>

\* A body is had of a request that was let go, and the request is forgotten.
BodyReturns(p) ==
    /\ pc[p] = "bodyReply"
    /\ \/ /\ Answered /\ request[rq[p]] \in {"free", "released"}
          /\ requestOwners' = [requestOwners EXCEPT ![rq[p]] = NoSession]
       \/ Returns(p) /\ UNCHANGED requestOwners
    /\ Finish(p, "idle")
    /\ UNCHANGED <<fetchPatterns, state, cleaned, sessions, closed, resumers, browser,
                   history>>

------------------------------------------------------------------------------
(* The end of a page: closeRecord, as it touches interception.  It is run   *)
(* by a handler (Target.closeTarget), a close hook or the read loop.        *)

StartClose(c, s) ==
    /\ Start(c, s, "begin")
    /\ UNCHANGED <<bridge, rq, want, on, resumers, browser, history>>

AfterClose(p) == IF p[1] = "closer" THEN "next" ELSE "idle"

BeginCleanup(p) ==
    LET s == cur[p] IN
    /\ pc[p] = "begin"
    /\ IF s \in cleaned
       THEN Finish(p, AfterClose(p)) /\ UNCHANGED <<state, cleaned>>
       ELSE /\ state' = [state EXCEPT ![s] = "closing"]
            /\ cleaned' = cleaned \cup {s}
            /\ Goto(p, IF p = Reader THEN "clearPatterns" ELSE "pageClose")
    /\ UNCHANGED <<fetchPatterns, requestOwners, sessions, closed, resumers, browser,
                   history>>

\* A page that dies takes its requests with it.
Die(s) ==
    /\ alive' = alive \ {s}
    /\ request' = [r \in Requests |->
                     IF Origin[r] = s /\ request[r] # "none" THEN "gone" ELSE request[r]]

PageClose(p) ==
    /\ pc[p] = "pageClose"
    /\ \/ Die(cur[p])
       \/ BackendFails /\ UNCHANGED <<alive, request>>
    /\ Goto(p, "closeReply")
    /\ UNCHANGED <<bridge, resumers, switch, caught, byFrame, news, failures, history>>

PageCloseReturns(p) ==
    /\ pc[p] = "closeReply"
    /\ Returns(p)
    /\ Goto(p, "clearPatterns")
    /\ UNCHANGED <<bridge, resumers, browser, history>>

\* clearConnectionState: the patterns, then the requests.
ClearPatterns(p) ==
    /\ pc[p] = "clearPatterns"
    /\ fetchPatterns' = [fetchPatterns EXCEPT ![cur[p]] = NoPatterns]
    /\ Goto(p, "clearRequests")
    /\ UNCHANGED <<requestOwners, state, cleaned, sessions, closed, resumers, browser,
                   history>>

ClearRequests(p) ==
    /\ pc[p] = "clearRequests"
    /\ requestOwners' = [r \in Requests |->
                           IF r \in RequestsOf(cur[p]) THEN NoSession ELSE requestOwners[r]]
    /\ Goto(p, "check")
    /\ UNCHANGED <<fetchPatterns, state, cleaned, sessions, closed, resumers, browser,
                   history>>

\* disableFetchIfUnused, of closeRecord or at the end of ConnectionClosed.
\* Mutant: as if it were always of a record.
AfterRecord(p, l) == Goto(p, l)
AfterOff(p, l) == IF cur[p] = NoSession THEN Finish(p, "idle") ELSE Goto(p, l)

CheckUnused(p) ==
    /\ pc[p] = "check"
    /\ IF FetchInterceptionEnabled THEN AfterOff(p, "drop") ELSE Goto(p, "offCall")
    /\ UNCHANGED <<bridge, resumers, browser, history>>

OffCall(p) ==
    /\ pc[p] = "offCall"
    /\ SetSwitch(DefaultContext, FALSE)
    /\ Goto(p, "offReply")
    /\ UNCHANGED <<bridge, resumers, alive, request, caught, byFrame, news, failures, history>>

OffReturns(p) ==
    /\ pc[p] = "offReply"
    /\ Returns(p)
    /\ AfterOff(p, "drop")
    /\ UNCHANGED <<bridge, resumers, browser, history>>

Drop(p) ==
    /\ pc[p] = "drop"
    /\ sessions' = sessions \ {cur[p]}
    /\ Goto(p, "remove")
    /\ UNCHANGED <<fetchPatterns, requestOwners, state, cleaned, closed, resumers, browser,
                   history>>

Remove(p) ==
    /\ pc[p] = "remove"
    /\ state' = [state EXCEPT ![cur[p]] = "closed"]
    /\ Finish(p, AfterClose(p))
    /\ UNCHANGED <<fetchPatterns, requestOwners, cleaned, sessions, closed, resumers, browser,
                   history>>

------------------------------------------------------------------------------
(* The close hook of a connection that has no command in progress: the      *)
(* shutdown of the server, which can run it earlier, is left out here.      *)

CloseConnection(c) ==
    /\ c \notin closed
    /\ pc[Handler(c)] = "idle"
    /\ closed' = closed \cup {c}
    /\ state' = [s \in Sessions |-> IF SessionOwned(c, s) THEN "closing" ELSE state[s]]
    /\ Goto(Closer(c), "next")
    /\ UNCHANGED <<fetchPatterns, requestOwners, cleaned, sessions, resumers, browser,
                   history>>

\* The next of its records that is not being cleaned up, then the last check.
NextRecord(c) ==
    LET p == Closer(c)
        records == {s \in Sessions \ cleaned : Owner[s] = c /\ state[s] = "closing"} IN
    /\ pc[p] = "next"
    /\ \/ \E s \in records :
            /\ pc'  = [pc EXCEPT ![p] = "begin"]
            /\ cur' = [cur EXCEPT ![p] = s]
            /\ UNCHANGED <<rq, want, on>>
       \/ records = {} /\ Goto(p, "check")
    /\ UNCHANGED <<bridge, resumers, browser, history>>

------------------------------------------------------------------------------
(* The events of the read loop.  The pipe keeps their order: what happens   *)
(* to a page is told before its end.                                        *)

\* Network.requestWillBeSent: the session is resolved.
TakeRequest(r) ==
    /\ r \in news \ byFrame
    /\ pc[Reader] = "idle"
    /\ news' = news \ {r}
    /\ cur' = [cur EXCEPT ![Reader] = Resolved(r)]
    /\ rq'  = [rq EXCEPT ![Reader] = r]
    /\ pc'  = [pc EXCEPT ![Reader] = IF Resolved(r) = NoSession THEN "enabled" ELSE "note"]
    /\ UNCHANGED <<bridge, want, on, resumers, switch, alive, request, caught, byFrame, failures,
                   history>>

\* Browser.requestIntercepted: a request no page can be found for is let go.
TakeIntercepted(r) ==
    /\ r \in news \cap byFrame
    /\ pc[Reader] = "idle"
    /\ news' = news \ {r}
    /\ IF ForFrame(r) = NoSession
       THEN resumers' = resumers \cup {<<r, NoSession>>} /\ UNCHANGED threads
       ELSE /\ cur' = [cur EXCEPT ![Reader] = ForFrame(r)]
            /\ rq'  = [rq EXCEPT ![Reader] = r]
            /\ pc'  = [pc EXCEPT ![Reader] = "note"]
            /\ UNCHANGED <<want, on, resumers>>
    /\ UNCHANGED <<bridge, switch, alive, request, caught, byFrame, failures, history>>

\* setRequestOwner.
NoteOwner ==
    /\ pc[Reader] = "note"
    /\ requestOwners' = [requestOwners EXCEPT ![rq[Reader]] = cur[Reader]]
    /\ Goto(Reader, IF rq[Reader] \in byFrame THEN "match" ELSE "enabled")
    /\ UNCHANGED <<fetchPatterns, state, cleaned, sessions, closed, resumers, browser,
                   history>>

\* A goroutine is started to resume the request in hand; the loop goes on.
\* Mutant: nobody resumes it.
LetGoNever == Finish(Reader, "idle") /\ UNCHANGED resumers
LetGo == Finish(Reader, "idle") /\ resumers' = resumers \cup {<<rq[Reader], cur[Reader]>>}

CheckEnabled ==
    /\ pc[Reader] = "enabled"
    /\ IF rq[Reader] \notin caught THEN Finish(Reader, "idle") /\ UNCHANGED resumers
       ELSE IF FetchEnabledForSession(cur[Reader])
            THEN Goto(Reader, "match") /\ UNCHANGED resumers
            ELSE LetGo
    /\ UNCHANGED <<bridge, browser, history>>

\* The patterns are read a second time.
MatchPatterns ==
    /\ pc[Reader] = "match"
    /\ IF ShouldPause(cur[Reader], rq[Reader])
       THEN Goto(Reader, "announce") /\ UNCHANGED resumers
       ELSE LetGo
    /\ UNCHANGED <<bridge, browser, history>>

\* Fetch.requestPaused, if the page still has an owner.
Announce ==
    /\ pc[Reader] = "announce"
    /\ paused' = IF state[cur[Reader]] = "open" THEN paused \cup {rq[Reader]} ELSE paused
    /\ Finish(Reader, "idle")
    /\ UNCHANGED <<bridge, resumers, browser, asked>>

\* Their calls, on the page's session; or to the browser, which knows a request
\* without its page only if it reported it so.
Resume(r, s) ==
    /\ <<r, s>> \in resumers
    /\ resumers' = resumers \ {<<r, s>>}
    /\ IF s = NoSession /\ request[r] = "held" /\ r \in byFrame
       THEN request' = [request EXCEPT ![r] = "released"]
       ELSE Release(s, r)
    /\ UNCHANGED <<bridge, threads, switch, alive, caught, byFrame, news, failures, history>>

\* Network.requestFailed: clearRequest.
TakeFailure(r) ==
    /\ r \in failures \ news
    /\ pc[Reader] = "idle"
    /\ failures' = failures \ {r}
    /\ requestOwners' = [requestOwners EXCEPT ![r] = NoSession]
    /\ UNCHANGED <<fetchPatterns, state, cleaned, sessions, closed, threads, resumers, switch,
                   alive, request, caught, byFrame, news, history>>

\* Browser.detachedFromTarget of a page whose other events were taken.  If its
\* cleanup has begun elsewhere the event changes nothing here.
TakeDetach(s) ==
    /\ s \notin alive \cup cleaned
    /\ \A r \in news \cup failures : Origin[r] # s
    /\ pc[Reader] = "idle"
    /\ pc'  = [pc EXCEPT ![Reader] = "begin"]
    /\ cur' = [cur EXCEPT ![Reader] = s]
    /\ UNCHANGED <<bridge, rq, want, on, resumers, browser, history>>

------------------------------------------------------------------------------
(* The browser.                                                             *)

\* A page makes a request, which waits if its context is intercepted.
MakeRequest(r) ==
    /\ request[r] = "none" /\ Origin[r] \in alive
    /\ IF switch[Context[Origin[r]]]
       THEN /\ request' = [request EXCEPT ![r] = "held"]
            /\ caught' = caught \cup {r}
            /\ byFrame' \in {byFrame} \cup (IF Older THEN {byFrame \cup {r}} ELSE {})
       ELSE /\ request' = [request EXCEPT ![r] = "free"]
            /\ UNCHANGED <<caught, byFrame>>
    /\ news' = news \cup {r}
    /\ UNCHANGED <<bridge, threads, resumers, switch, alive, failures, history>>

\* A request fails or is cancelled by its page.
RequestFails(r) ==
    /\ request[r] \in {"free", "held", "released"}
    /\ request' = [request EXCEPT ![r] = "gone"]
    /\ failures' = failures \cup {r}
    /\ UNCHANGED <<bridge, threads, resumers, switch, alive, caught, byFrame, news, history>>

PageDies(s) ==
    /\ s \in alive
    /\ Die(s)
    /\ UNCHANGED <<bridge, threads, resumers, switch, caught, byFrame, news, failures,
                   history>>

------------------------------------------------------------------------------
Command(c) ==
    \E s \in Sessions :
        \/ StartEnable(c, s) \/ StartDisable(c, s) \/ StartClose(c, s)
        \/ \E r \in Requests : StartRequest(c, s, r)

FetchStep(p) ==
    \/ SetFetchPatterns(p) \/ EnableCall(p) \/ EnableReturns(p) \/ ClearFetchPatterns(p)
    \/ ReadEnabled(p) \/ DisableCall(p) \/ DisableReturns(p)
    \/ RequestOwned(p) \/ ActCall(p) \/ ActReturns(p) \/ BodyReturns(p)

CloseRecord(p) ==
    \/ BeginCleanup(p) \/ PageClose(p) \/ PageCloseReturns(p) \/ ClearPatterns(p)
    \/ ClearRequests(p) \/ CheckUnused(p) \/ OffCall(p) \/ OffReturns(p)
    \/ Drop(p) \/ Remove(p)

HandlerStep(c) == FetchStep(Handler(c)) \/ CloseRecord(Handler(c))
CloserStep(c)  == NextRecord(c) \/ CloseRecord(Closer(c))

ReaderStep ==
    \/ \E r \in Requests : TakeRequest(r) \/ TakeIntercepted(r) \/ TakeFailure(r)
    \/ \E s \in Sessions : TakeDetach(s)
    \/ NoteOwner \/ CheckEnabled \/ MatchPatterns \/ Announce \/ CloseRecord(Reader)

Next ==
    \/ \E c \in Conns : Command(c) \/ HandlerStep(c) \/ CloseConnection(c) \/ CloserStep(c)
    \/ ReaderStep
    \/ \E r \in Requests, s \in Sessions \cup {NoSession} : Resume(r, s)
    \/ \E r \in Requests : MakeRequest(r) \/ RequestFails(r)
    \/ \E s \in Sessions : PageDies(s)

Spec == Init /\ [][Next]_vars

(* A goroutine that can run does run, and events and replies are read.  No  *)
(* client has to send a command and no page has to make a request.          *)
Fairness ==
    /\ \A c \in Conns : WF_vars(HandlerStep(c)) /\ WF_vars(CloserStep(c))
    /\ WF_vars(ReaderStep)
    /\ \A r \in Requests, s \in Sessions \cup {NoSession} : WF_vars(Resume(r, s))

FairSpec == Spec /\ Fairness

------------------------------------------------------------------------------
(* Properties.                                                              *)

\* A client that was told of a paused request can answer it as long as its page
\* is open: neither the end of another page nor a failed getResponseBody makes
\* the request "not found" (requestOwned against clearRequests, clearRequest).
AnswerableWhilePaused ==
    \A r \in paused :
        request[r] = "held" /\ state[Origin[r]] = "open" => requestOwners[r] = Origin[r]

\* The browser intercepts a whole context, but only a client that enabled Fetch
\* for the page is told to answer its requests (fetchEnabledForSession).
OnlyEnabledArePaused == \A r \in paused \ byFrame : r \in asked

\* With one client, neither Fetch.disable nor a failed call on one page switches
\* off what Fetch.enable switched on for another (fetchInterceptionEnabled).
SoleClientIntercepts ==
    /\ Cardinality(Conns) = 1
    /\ \A s \in Sessions : state[s] = "open"
    /\ \A c \in Conns : pc[Handler(c)] = "idle"
    => \A s \in Sessions : fetchPatterns[s] # NoPatterns => switch[Context[s]]

\* An intercepted request is let go, put before the client, or gone with its page:
\* the read loop never waits for the answer to what it resumes.
HeldIsAnswered ==
    \A r \in Requests :
        (request[r] = "held")
            ~> (request[r] # "held" \/ r \in paused \/ state[Origin[r]] # "open")
==============================================================================
