------------------------------ MODULE Contexts ------------------------------
(***************************************************************************)
(* Frames and execution contexts of pages (pkg/bridge/page.go, runtime.go, *)
(* the frame and context events of events.go, the caches of bridge.go).    *)
(*                                                                         *)
(* Clients name no frame or context of the browser: the bridge remembers   *)
(* the main frame and the latest context of each session from the          *)
(* browser's events, and puts them into the calls it sends.  Each page has *)
(* a handler, which runs one command of its client after the other, and a  *)
(* closer; the read loop takes what the browser writes, events and         *)
(* answers, in the order it was written.  A step is one critical section,  *)
(* but the sections of a cleanup, and of a frame noted and what follows    *)
(* it, which are of different maps, are one.                               *)
(*                                                                         *)
(* A document of page p in frame f is a context <<p, f, n>>: n counts the  *)
(* documents of the page's main frame.                                     *)
(***************************************************************************)
EXTENDS Naturals, FiniteSets, Sequences, SequencesExt, TLC

CONSTANTS
    Pages,          \* pages, and their sessions
    Mains,          \* frames that may be the main frame of a page
    Subs,           \* frames with a parent
    FirstMain,      \* main frame of a page that opens
    Worlds,         \* names of isolated worlds
    NoFrame,        \* Go's "": no frame
    NoCtx,          \* Go's "": no context
    NoPage,         \* Go's "": no session
    TargetId,       \* the page's target id, by which clients know its main frame
    Placeholder,    \* "main", what Page.getFrameTree answers when it knows no frame
    Scenarios,      \* who does what: a behaviour is of one of them
    Backends,       \* subset of {"juggler", "bidi"}
    MaxDocs,        \* bound: documents of a page
    MaxWorlds,      \* bound: worlds of a page
    MaxIds,         \* bound: numbers given when a client has contexts numbered anew
    MaxQueue        \* bound: browser's writes not yet read when it starts something new

Frames   == Mains \cup Subs
AllCtx   == Pages \X Frames \X (1 .. MaxDocs)

ASSUME ContextsAssumption ==
    /\ IsFiniteSet(Subs)
    /\ Mains \cap Subs = {} /\ FirstMain \in Mains
    /\ NoFrame \notin Mains \cup Subs
    /\ {TargetId, Placeholder} \cap (Mains \cup Subs \cup {NoFrame}) = {}
    /\ Backends # {} /\ Backends \subseteq {"juggler", "bidi"}
    /\ MaxDocs \in Nat \ {0} /\ MaxWorlds \in Nat /\ MaxIds \in Nat /\ MaxQueue \in Nat
    /\ \A sc \in Scenarios :
          /\ sc.pages \subseteq Pages            \* that open
          /\ DOMAIN sc.commands = Pages          \* that their clients send
          /\ sc.uniqueIds \subseteq AllCtx       \* that their clients may name
          /\ sc.happens \subseteq {"navigate", "frames", "close", "disconnect"}

ASSUME AbsenceAssumption == NoCtx \notin AllCtx /\ NoPage \notin Pages

VARIABLES
    scenario, isBiDi,   \* which scenario; Bridge.isBiDi
    \* the session manager and the records
    sessions,       \* pages whose session is in the SessionManager
    cleaned,        \* pages whose record is no longer open
    frameID,        \* SessionInfo.FrameID
    \* the caches
    pendingFrameIDs,
    subFrames,
    latestCtx,
    ctxMap,         \* numeric id |-> its context, owner and world (ctxMap, ctxOwners)
    ctxUniqueOwners,\* unique id |-> owner
    ctxCounter,
    isolatedWorlds, \* worlds to announce again, in the order they were made
    \* goroutines
    pc,
    h,              \* handler: its command, and what it has read
    ev,             \* read loop: the event in hand, the id it allocated, worlds to do
    enabling,       \* goroutine of Runtime.enable: the context it read
    \* the browser
    page,           \* "new", "live" or "gone"
    mainFrame,
    subs,           \* frames with a parent, in this document: "none", "there" or "left"
    docs,           \* documents made
    live,           \* contexts that exist
    navs,           \* navigation of the main frame: "none", "accepted" or "started"
    inbox,          \* calls it has not served, by thread
    queue,          \* what it has written and the read loop has not taken
    \* the client
    named,          \* what Page.getFrameTree called the main frame
    \* history
    newest,         \* the context of each page made last
    reEmitted       \* worlds announced again with the latest context, and not cleared since

bridge  == <<scenario, isBiDi, sessions, cleaned, frameID, pendingFrameIDs, subFrames, latestCtx,
             ctxMap, ctxUniqueOwners, ctxCounter, isolatedWorlds>>
contextMaps == <<ctxMap, ctxUniqueOwners, ctxCounter>>
browser == <<page, mainFrame, subs, docs, live, navs, newest>>
vars == <<bridge, pc, h, ev, enabling, browser, inbox, queue, named, reEmitted>>

------------------------------------------------------------------------------
Handler(p) == <<"handler", p>>
Closer(p)  == <<"closer", p>>
Reader     == <<"reader", "loop">>
Threads    == ({"handler", "closer"} \X Pages) \cup {Reader}

NoCommand == [op |-> "none", frame |-> NoFrame, ctx |-> NoCtx, prior |-> NoCtx,
              world |-> "main", from |-> 0, clean |-> FALSE, number |-> 0, unowned |-> FALSE]
NoEvent   == [kind |-> "none"]
Idle      == [event |-> NoEvent, id |-> 0, todo |-> <<>>, page |-> NoPage]

TypeOK ==
    /\ sessions \subseteq Pages /\ cleaned \subseteq Pages
    /\ frameID \in [Pages -> Frames \cup {NoFrame}]
    /\ pendingFrameIDs \in [Pages -> Frames \cup {NoFrame}]
    /\ subFrames \in [Pages -> SUBSET Subs]
    /\ latestCtx \in [Pages -> AllCtx \cup {NoCtx}]
    /\ DOMAIN ctxMap \subseteq 1 .. ctxCounter
    /\ \A i \in DOMAIN ctxMap :
          ctxMap[i] \in [ctx : AllCtx, owner : Pages \cup {NoPage}, world : Worlds \cup {"main"}]
    /\ DOMAIN ctxUniqueOwners \subseteq AllCtx
    /\ \A p \in Pages : isolatedWorlds[p] \in Seq(Worlds)
    /\ DOMAIN pc = Threads /\ DOMAIN inbox = Threads
    /\ enabling \in [Pages -> AllCtx \cup {NoCtx}]
    /\ mainFrame \in [Pages -> Mains] /\ subs \in [Pages -> [Subs -> {"none", "there", "left"}]]
    /\ docs \in [Pages -> 0 .. MaxDocs] /\ live \subseteq AllCtx
    /\ \A c \in live : c[3] = docs[c[1]]

Init ==
    /\ scenario \in Scenarios /\ isBiDi \in {b = "bidi" : b \in Backends}
    /\ sessions = {} /\ cleaned = {}
    /\ frameID = [p \in Pages |-> NoFrame]
    /\ pendingFrameIDs = [p \in Pages |-> NoFrame]
    /\ subFrames = [p \in Pages |-> {}]
    /\ latestCtx = [p \in Pages |-> NoCtx]
    /\ ctxMap = <<>> /\ ctxUniqueOwners = <<>> /\ ctxCounter = 0
    /\ isolatedWorlds = [p \in Pages |-> <<>>]
    /\ pc = [t \in Threads |-> "idle"]
    /\ h = [p \in Pages |-> NoCommand]
    /\ ev = Idle
    /\ enabling = [p \in Pages |-> NoCtx]
    /\ page = [p \in Pages |-> "new"]
    /\ mainFrame = [p \in Pages |-> FirstMain]
    /\ subs = [p \in Pages |-> [s \in Subs |-> "none"]]
    /\ docs = [p \in Pages |-> 0]
    /\ live = {} /\ navs = [p \in Pages |-> "none"]
    /\ inbox = [t \in Threads |-> NoEvent]
    /\ queue = <<>>
    /\ named = [p \in Pages |-> NoFrame]
    /\ newest = [p \in Pages |-> NoCtx]
    /\ reEmitted = [p \in Pages |-> {}]

Goto(t, l) == pc' = [pc EXCEPT ![t] = l]

------------------------------------------------------------------------------
(* Reads of the shared state.                                               *)

\* resolveCDPSession, for an event of page p.
Resolved(p) == IF p \in sessions THEN p ELSE NoPage

Latest(p) == IF p \in sessions THEN latestCtx[p] ELSE NoCtx

ContextOwned(p, i) == i \in DOMAIN ctxMap => ctxMap[i].owner = p

\* Mutant: a context of any session will do.
OwnedByAny(p, c) == TRUE
UniqueContextOwned(p, c) == c \in DOMAIN ctxUniqueOwners => ctxUniqueOwners[c] = p

\* History: nobody owns the name, unique id or number, that a client gives a context.
Unowned(c, i) == IF c # NoCtx THEN c \notin DOMAIN ctxUniqueOwners ELSE i \notin {0} \cup DOMAIN ctxMap

\* A client's name of the main frame, translated if the session knows that frame.
JugglerFrameIDForSession(p, f) ==
    IF f = TargetId /\ p \in sessions /\ frameID[p] # NoFrame THEN frameID[p] ELSE f

IsSubFrame(p, f) == f \in subFrames[p]

\* Mutant: the number before the increment.
LastCtxID == ctxCounter
NextCtxID == ctxCounter + 1

OwnedBy(p)  == {i \in DOMAIN ctxMap : ctxMap[i].owner = p}
UniqueOf(p) == {c \in DOMAIN ctxUniqueOwners : ctxUniqueOwners[c] = p}

Without(f, S) == Restrict(f, DOMAIN f \ S)
With(f, x, y) == [z \in DOMAIN f \cup {x} |-> IF z = x THEN y ELSE f[z]]

------------------------------------------------------------------------------
(* The browser (Juggler, or BiDi as its client translates it).              *)

Event(k, p, f, c) == [kind |-> k, page |-> p, frame |-> f, ctx |-> c]
Reply(t, ok)      == [kind |-> "reply", to |-> t, ok |-> ok]
Call(k, f, c)     == [kind |-> k, frame |-> f, ctx |-> c]

Room == Len(queue) <= MaxQueue

Destroyed(p) ==
    LET old == SetToSeq({c \in live : c[1] = p})
    IN  [i \in DOMAIN old |-> Event("destroyed", p, NoFrame, old[i])]

\* A page opens; its frame and context may be reported before the target is.
Opens(p) ==
    /\ page[p] = "new" /\ p \in scenario.pages /\ Room
    /\ page' = [page EXCEPT ![p] = "live"]
    /\ docs' = [docs EXCEPT ![p] = 1]
    /\ live' = live \cup {<<p, mainFrame[p], 1>>}
    /\ newest' = [newest EXCEPT ![p] = <<p, mainFrame[p], 1>>]
    /\ LET attached == <<Event("attached", p, NoFrame, NoCtx)>>
           frame    == <<Event("frameAttached", p, mainFrame[p], NoCtx)>>
           context  == <<Event("created", p, mainFrame[p], <<p, mainFrame[p], 1>>)>>
       IN  \E news \in {attached \o context, attached \o frame \o context,
                        frame \o context \o attached, frame \o attached \o context} :
              queue' = queue \o news
    /\ UNCHANGED <<mainFrame, subs, navs, inbox>>

\* BiDi reports that a navigation starts, which its client passes on as a commit; the
\* navigation may never commit (it fails, is a download, or another one takes over).
NavigationStarts(p) ==
    /\ isBiDi /\ page[p] = "live" /\ navs[p] = "accepted" /\ Room
    /\ navs' \in {[navs EXCEPT ![p] = l] : l \in {"started", "none"}}
    /\ queue' = Append(queue, Event("committed", p, mainFrame[p], NoCtx))
    /\ UNCHANGED <<page, mainFrame, subs, docs, live, newest, inbox>>

\* A new document takes over, in the same frame or in another one that replaces it.
Commits(p) ==
    /\ page[p] = "live" /\ docs[p] < MaxDocs
    /\ navs[p] = IF isBiDi THEN "started" ELSE "accepted"
    /\ \E f \in IF isBiDi THEN {mainFrame[p]} ELSE Mains, told, early \in BOOLEAN :
          LET c == <<p, f, docs[p] + 1>>
              old == SetToSeq({s \in Subs : subs[p][s] = "there"})
              frames == (IF told /\ f # mainFrame[p]
                           THEN <<Event("frameDetached", p, mainFrame[p], NoCtx),
                                  Event("frameAttached", p, f, NoCtx)>>
                           ELSE <<>>)
                        \o [i \in DOMAIN old |-> Event("frameDetached", p, old[i], NoCtx)]
              committed == <<Event("committed", p, f, NoCtx)>>
              created   == <<Event("created", p, f, c)>>
              news == IF isBiDi THEN Destroyed(p) \o created
                      ELSE frames \o <<Event("started", p, f, NoCtx)>> \o Destroyed(p)
                           \o <<Event("cleared", p, NoFrame, NoCtx)>>
                           \o (IF early THEN created \o committed ELSE committed \o created)
          IN  /\ mainFrame' = [mainFrame EXCEPT ![p] = f]
              /\ live' = {x \in live : x[1] # p} \cup {c}
              /\ newest' = [newest EXCEPT ![p] = c]
              /\ queue' = queue \o news
    /\ docs' = [docs EXCEPT ![p] = @ + 1]
    /\ subs' = [subs EXCEPT ![p] = [s \in Subs |-> "none"]]
    /\ navs' = [navs EXCEPT ![p] = "none"]
    /\ UNCHANGED <<page, inbox>>

\* A link, a script or a user navigates the page.
PageNavigates(p) ==
    /\ "navigate" \in scenario.happens
    /\ page[p] = "live" /\ navs[p] = "none" /\ docs[p] < MaxDocs /\ Room
    /\ navs' = [navs EXCEPT ![p] = "accepted"]
    /\ UNCHANGED <<page, mainFrame, subs, docs, live, newest, inbox, queue>>

SubFrameAppears(p, s) ==
    /\ "frames" \in scenario.happens /\ page[p] = "live" /\ ~isBiDi /\ subs[p][s] = "none" /\ Room
    /\ subs' = [subs EXCEPT ![p][s] = "there"]
    /\ LET c == <<p, s, docs[p]>>
       IN  /\ live' = live \cup {c}
           /\ newest' = [newest EXCEPT ![p] = c]
           /\ queue' = queue \o <<Event("frameAttached", p, s, NoCtx), Event("created", p, s, c)>>
    /\ UNCHANGED <<page, mainFrame, docs, navs, inbox>>

SubFrameNavigates(p, s) ==
    /\ page[p] = "live" /\ subs[p][s] = "there" /\ Room
    /\ queue' = queue \o <<Event("started", p, s, NoCtx), Event("committed", p, s, NoCtx)>>
    /\ UNCHANGED <<browser, inbox>>

SubFrameGoes(p, s) ==
    /\ page[p] = "live" /\ subs[p][s] = "there" /\ Room
    /\ subs' = [subs EXCEPT ![p][s] = "left"]
    /\ LET c == <<p, s, docs[p]>>
       IN  /\ live' = live \ {c}
           /\ queue' = queue \o <<Event("destroyed", p, s, c), Event("frameDetached", p, s, NoCtx)>>
    /\ UNCHANGED <<page, mainFrame, docs, navs, newest, inbox>>

Detached(p) == Destroyed(p) \o <<Event("detached", p, NoFrame, NoCtx)>>

Goes(p) ==
    /\ page' = [page EXCEPT ![p] = "gone"]
    /\ live' = {c \in live : c[1] # p}
    /\ navs' = [navs EXCEPT ![p] = "none"]
    /\ UNCHANGED <<mainFrame, subs, docs, newest>>

\* The page closes by itself.
ClosesItself(p) ==
    /\ "close" \in scenario.happens /\ page[p] = "live" /\ Room
    /\ Goes(p)
    /\ queue' = queue \o Detached(p)
    /\ UNCHANGED inbox

\* A frame that is not there takes a navigation and does nothing with it; a call
\* without the frame or the context it needs is refused.
ServeNavigate(p, t, call) ==
    LET ok == page[p] = "live" /\ (isBiDi \/ call.frame # NoFrame)
    IN  /\ \/ /\ ok /\ call.frame \in {mainFrame[p]} \cup (IF isBiDi THEN {call.frame} ELSE {})
              /\ navs' = [navs EXCEPT ![p] = IF call.kind = "navigate" /\ docs[p] < MaxDocs
                                               THEN "accepted" ELSE @]
              /\ queue' = Append(queue, Reply(t, TRUE))
           \/ /\ ~(ok /\ (call.frame = mainFrame[p] \/ isBiDi))
              /\ navs' = navs
              /\ queue' = Append(queue, Reply(t, ok))
        /\ UNCHANGED <<page, mainFrame, subs, docs, live, newest>>

ServeReload(p, t) ==
    /\ navs' = [navs EXCEPT ![p] = IF page[p] = "live" /\ docs[p] < MaxDocs THEN "accepted" ELSE "none"]
    /\ queue' = Append(queue, Reply(t, page[p] = "live"))
    /\ UNCHANGED <<page, mainFrame, subs, docs, live, newest>>

ServeEvaluate(p, t, call) ==
    /\ queue' = Append(queue, Reply(t, IF isBiDi THEN page[p] = "live" ELSE call.ctx \in live))
    /\ UNCHANGED browser

ServeClose(p, t) ==
    \/ /\ page[p] = "live"
       /\ Goes(p)
       /\ queue' \in {Append(queue, Reply(t, TRUE)) \o Detached(p),
                      queue \o Detached(p) \o <<Reply(t, TRUE)>>}
    \/ /\ page[p] # "live"
       /\ queue' = Append(queue, Reply(t, FALSE))
       /\ UNCHANGED browser

\* Any call may fail on the way, or not be answered in time.
Serve(t) ==
    LET p == t[2]
        call == inbox[t]
    IN  /\ call.kind # "none"
        /\ inbox' = [inbox EXCEPT ![t] = NoEvent]
        /\ \/ call.kind \in {"navigate", "fragment"} /\ ServeNavigate(p, t, call)
           \/ call.kind = "reload" /\ ServeReload(p, t)
           \/ call.kind = "evaluate" /\ ServeEvaluate(p, t, call)
           \/ call.kind = "probe" /\ queue' = Append(queue, Reply(t, TRUE)) /\ UNCHANGED browser
           \/ call.kind = "close" /\ ServeClose(p, t)
           \/ queue' = Append(queue, Reply(t, FALSE)) /\ UNCHANGED browser

BrowserStep(p) ==
    /\ \/ Opens(p) \/ NavigationStarts(p) \/ Commits(p) \/ PageNavigates(p) \/ ClosesItself(p)
       \/ \E s \in Subs : SubFrameAppears(p, s) \/ SubFrameNavigates(p, s) \/ SubFrameGoes(p, s)
    /\ UNCHANGED <<bridge, pc, h, ev, enabling, named, reEmitted>>

BrowserServes(t) == Serve(t) /\ UNCHANGED <<bridge, pc, h, ev, enabling, named, reEmitted>>

------------------------------------------------------------------------------
(* The commands of a page's client.                                         *)

Unread(p) ==
    \/ ev.event.kind = "created" /\ ev.event.page = p
    \/ \E i \in DOMAIN queue : queue[i].kind = "created" /\ queue[i].page = p

\* A command passes authorize while the page's record is open.
Begin(p, op) ==
    /\ pc[Handler(p)] = "idle" /\ op \in scenario.commands[p]
    /\ p \in sessions \ cleaned

Started(p, op, f, c) == [NoCommand EXCEPT !.op = op, !.frame = f, !.ctx = c]

Then(p, next, l) == h' = [h EXCEPT ![p] = next] /\ Goto(Handler(p), l)
Done(p) == Then(p, NoCommand, "idle")

Send(p, call) ==
    /\ inbox' = [inbox EXCEPT ![Handler(p)] = call]
    /\ Goto(Handler(p), "wait")

\* It records what it read and sends the call.
ThenSend(p, next, call) == h' = [h EXCEPT ![p] = next] /\ Send(p, call)

Local == <<bridge, ev, enabling, browser, queue, named, reEmitted>>

\* Frames that Page.navigate need not wait for.
FrameKnown(f) == f \notin {NoFrame, Placeholder}

Navigate(p) ==
    \E op \in {"navigate", "fragment"}, f \in {NoFrame, named[p]} :
        /\ Begin(p, op)
        /\ LET frame == JugglerFrameIDForSession(p, f)
           IN  IF FrameKnown(frame)
                 THEN Then(p, Started(p, op, frame, NoCtx), "prior")
                 ELSE Then(p, Started(p, op, NoFrame, NoCtx), "mainFrame")
        /\ UNCHANGED <<Local, inbox>>

\* It finds the frame, or gives up after mainFrameTimeout.
WaitForMainFrame(p) ==
    /\ pc[Handler(p)] = "mainFrame"
    /\ \/ /\ p \in sessions /\ frameID[p] # NoFrame
          /\ Then(p, [h[p] EXCEPT !.frame = frameID[p]], "prior")
       \/ Done(p)
    /\ UNCHANGED <<Local, inbox>>

\* The context to wait the end of is read, and the call sent.
CallNavigate(p) ==
    /\ pc[Handler(p)] = "prior"
    /\ ThenSend(p, [h[p] EXCEPT !.prior = Latest(p), !.from = docs[p], !.clean = ~Unread(p)],
                Call(h[p].op, h[p].frame, NoCtx))
    /\ UNCHANGED Local

\* Mutant: any context does.
AnyContext(p) == Latest(p) # NoCtx
RolledOver(p) == Latest(p) \notin {NoCtx, h[p].prior}

\* waitForContext: the context rolls over, or navigationCommitTimeout ends the wait.
AwaitRollover(p) ==
    /\ pc[Handler(p)] = "roll"
    /\ RolledOver(p) /\ Done(p)
    /\ UNCHANGED <<Local, inbox>>

\* Mutant: the wait ends only while there is a context.
TimesOutWithContext(p) ==
    /\ pc[Handler(p)] = "roll"
    /\ Latest(p) # NoCtx /\ Done(p)
    /\ UNCHANGED <<Local, inbox>>
RolloverTimesOut(p) ==
    /\ pc[Handler(p)] = "roll"
    /\ ~RolledOver(p) /\ Done(p)
    /\ UNCHANGED <<Local, inbox>>

\* A client may give any name to a context, of its page or another, made or not: a unique
\* id or a number (if both, the number is checked and then ignored).  A name that is known
\* must be its session's.  The number after all given is one being given, too.
Ask(p) ==
    \E op \in {"evaluate", "call", "callWithObjects"} :
    \E c \in {NoCtx} \cup scenario.uniqueIds, i \in 0 .. NextCtxID :
        /\ Begin(p, op)
        /\ c = NoCtx \/ i = 0
        /\ UniqueContextOwned(p, c) /\ ContextOwned(p, i)
        /\ Then(p, [Started(p, op, NoFrame, c) EXCEPT !.number = i, !.unowned = Unowned(c, i)],
                IF i = 0 THEN "choose" ELSE "lookup")
        /\ UNCHANGED <<Local, inbox>>

\* Another critical section: what the number leads to may have changed since the check.
LookUp(p) ==
    /\ pc[Handler(p)] = "lookup"
    /\ LET i == h[p].number
           c == IF i \in DOMAIN ctxMap THEN ctxMap[i].ctx ELSE NoCtx
       IN  Then(p, [h[p] EXCEPT !.ctx = c, !.number = 0, !.unowned = @ /\ c # NoCtx], "choose")
    /\ UNCHANGED <<Local, inbox>>

\* The latest context wins, but for objects of BiDi, which live in the caller's.
Chosen(p, op, c) ==
    IF Latest(p) = NoCtx \/ (isBiDi /\ op = "callWithObjects" /\ c # NoCtx) THEN c ELSE Latest(p)

Evaluate(p, c) ==
    ThenSend(p, [h[p] EXCEPT !.ctx = c, !.unowned = @ /\ c # Latest(p)], Call("evaluate", NoFrame, c))

ChooseContext(p) ==
    /\ pc[Handler(p)] = "choose"
    /\ LET c == Chosen(p, h[p].op, h[p].ctx)
       IN  IF c = NoCtx /\ h[p].op = "evaluate"
             THEN Goto(Handler(p), "anyContext") /\ UNCHANGED <<h, inbox>>
             ELSE Evaluate(p, c)
    /\ UNCHANGED Local

\* It finds a context, or gives up after executionContextTimeout.
WaitForAnyContext(p) ==
    /\ pc[Handler(p)] = "anyContext"
    /\ \/ Latest(p) # NoCtx /\ Evaluate(p, Latest(p))
       \/ Done(p) /\ UNCHANGED inbox
    /\ UNCHANGED Local

Reload(p) ==
    /\ Begin(p, "reload")
    /\ ThenSend(p, Started(p, "reload", NoFrame, NoCtx), Call("reload", NoFrame, NoCtx))
    /\ UNCHANGED Local

\* Page.setContent navigates to a data: URL, with no wait and no default frame; then
\* it evaluates in no particular context, to write the document if the call failed.
SetContent(p) ==
    \E f \in {NoFrame, named[p]} :
        /\ Begin(p, "setContent")
        /\ LET frame == JugglerFrameIDForSession(p, f)
           IN  ThenSend(p, Started(p, "setContent", frame, NoCtx), Call("navigate", frame, NoCtx))
        /\ UNCHANGED Local

WriteContent(p) ==
    /\ pc[Handler(p)] = "write"
    /\ ThenSend(p, [h[p] EXCEPT !.op = "write"], Call("evaluate", NoFrame, NoCtx))
    /\ UNCHANGED Local

\* Page.getLayoutMetrics evaluates in no particular context, too.
GetLayoutMetrics(p) ==
    /\ Begin(p, "metrics")
    /\ ThenSend(p, Started(p, "metrics", NoFrame, NoCtx), Call("evaluate", NoFrame, NoCtx))
    /\ UNCHANGED Local

\* Page.getFrameTree names the main frame: it waits a little for an event to tell,
\* then makes a call that may bring one about, and names the frame "main" if none came.
GetFrameTree(p) ==
    /\ Begin(p, "frameTree")
    /\ IF frameID[p] # NoFrame
         THEN Then(p, Started(p, "frameTree", frameID[p], NoCtx), "name")
         ELSE Then(p, Started(p, "frameTree", NoFrame, NoCtx), "frame")
    /\ UNCHANGED <<Local, inbox>>

PollFrame(p) ==
    /\ pc[Handler(p)] = "frame"
    /\ p \in sessions /\ frameID[p] # NoFrame
    /\ Then(p, [h[p] EXCEPT !.frame = frameID[p]], "name")
    /\ UNCHANGED <<Local, inbox>>

ProbeForFrame(p) ==
    /\ pc[Handler(p)] = "frame"
    /\ Send(p, Call("probe", NoFrame, NoCtx))
    /\ UNCHANGED <<Local, h>>

ReadFrameAgain(p) ==
    /\ pc[Handler(p)] = "frameAgain"
    /\ Then(p, [h[p] EXCEPT !.frame = IF frameID[p] = NoFrame THEN Placeholder ELSE frameID[p]],
            "name")
    /\ UNCHANGED <<Local, inbox>>

\* The frame is read once more here, to tell whether it is the main frame.
NameFrame(p) ==
    /\ pc[Handler(p)] = "name"
    /\ named' = [named EXCEPT ![p] = IF frameID[p] = h[p].frame THEN TargetId ELSE h[p].frame]
    /\ Done(p)
    /\ UNCHANGED <<bridge, ev, enabling, browser, inbox, queue, reEmitted>>

\* The world gets a number of its own, for the context of the session numbered last.
CreateIsolatedWorld(p) ==
    \E w \in Worlds :
        /\ Begin(p, "isolatedWorld") /\ Len(isolatedWorlds[p]) < MaxWorlds
        /\ ctxCounter' = ctxCounter + 1
        /\ LET own == {i \in DOMAIN ctxMap : ctxMap[i].owner = p}
               last == CHOOSE i \in own : \A j \in own : j <= i
           IN  ctxMap' = IF own = {} THEN ctxMap
                         ELSE With(ctxMap, NextCtxID, [ctx |-> ctxMap[last].ctx, owner |-> p, world |-> w])
        /\ Then(p, [Started(p, "isolatedWorld", NoFrame, NoCtx) EXCEPT !.world = w], "record")
    /\ UNCHANGED <<scenario, isBiDi, sessions, cleaned, frameID, pendingFrameIDs, subFrames, latestCtx,
                   ctxUniqueOwners, isolatedWorlds, ev, enabling, browser, inbox, queue,
                   named, reEmitted>>

RecordIsolatedWorld(p) ==
    /\ pc[Handler(p)] = "record"
    /\ isolatedWorlds' = [isolatedWorlds EXCEPT ![p] = Append(@, h[p].world)]
    /\ Done(p)
    /\ UNCHANGED <<scenario, isBiDi, sessions, cleaned, frameID, pendingFrameIDs, subFrames, latestCtx,
                   contextMaps, ev, enabling, browser, inbox, queue, named, reEmitted>>

\* Runtime.enable answers at once; its goroutine numbers the latest context anew.
EnableRuntime(p) ==
    /\ Begin(p, "enable") /\ enabling[p] = NoCtx /\ frameID[p] # NoFrame
    /\ ctxCounter < MaxIds
    /\ enabling' = [enabling EXCEPT ![p] = Latest(p)]
    /\ UNCHANGED <<bridge, pc, h, ev, browser, inbox, queue, named, reEmitted>>

EnableStores(p) ==
    /\ enabling[p] # NoCtx
    /\ ctxCounter' = ctxCounter + 1
    /\ ctxMap' = With(ctxMap, NextCtxID, [ctx |-> enabling[p], owner |-> p, world |-> "main"])
    /\ enabling' = [enabling EXCEPT ![p] = NoCtx]
    /\ UNCHANGED <<scenario, isBiDi, sessions, cleaned, frameID, pendingFrameIDs, subFrames, latestCtx,
                   ctxUniqueOwners, isolatedWorlds, pc, h, ev, browser, inbox, queue,
                   named, reEmitted>>

------------------------------------------------------------------------------
(* closeRecord: by Page.close, by the end of a connection, or by the read   *)
(* loop when the browser reports the page's end.                            *)

CleanedPage(t) == IF t = Reader THEN ev.event.page ELSE t[2]

Closes(t) ==
    /\ pc[t] = "idle"
    /\ \/ \E p \in Pages : t = Handler(p) /\ Begin(p, "close")
                           /\ h' = [h EXCEPT ![p] = Started(p, "close", NoFrame, NoCtx)]
       \/ "disconnect" \in scenario.happens /\ t[1] = "closer" /\ t[2] \in sessions \ cleaned /\ UNCHANGED h
    /\ Goto(t, "begin")
    /\ UNCHANGED <<Local, inbox>>

Forgets(t) ==
    /\ Goto(t, "idle")
    /\ IF t = Reader THEN ev' = Idle ELSE UNCHANGED ev
    /\ IF t[1] = "handler" THEN h' = [h EXCEPT ![t[2]] = NoCommand] ELSE UNCHANGED h

BeginCleanup(t) ==
    /\ pc[t] = "begin"
    /\ LET p == CleanedPage(t)
       IN  \/ p \in cleaned /\ Forgets(t) /\ UNCHANGED <<cleaned, inbox>>
           \/ /\ p \notin cleaned
              /\ cleaned' = cleaned \cup {p}
              /\ IF t = Reader THEN Goto(t, "clear") /\ UNCHANGED inbox
                 ELSE Goto(t, "wait")
                      /\ inbox' = [inbox EXCEPT ![t] = Call("close", NoFrame, NoCtx)]
              /\ UNCHANGED <<h, ev>>
    /\ UNCHANGED <<scenario, isBiDi, sessions, frameID, pendingFrameIDs, subFrames, latestCtx, contextMaps,
                   isolatedWorlds, enabling, browser, queue, named, reEmitted>>

\* clearConnectionState.
ClearState(t) ==
    LET p == CleanedPage(t)
    IN  /\ pc[t] = "clear" /\ Goto(t, "remove")
        /\ isolatedWorlds' = [isolatedWorlds EXCEPT ![p] = <<>>]
        /\ latestCtx' = [latestCtx EXCEPT ![p] = NoCtx]
        /\ subFrames' = [subFrames EXCEPT ![p] = {}]
        /\ ctxMap' = Without(ctxMap, OwnedBy(p))
        /\ ctxUniqueOwners' = Without(ctxUniqueOwners, UniqueOf(p))
        /\ pendingFrameIDs' = [pendingFrameIDs EXCEPT ![p] = NoFrame]
        /\ UNCHANGED <<sessions, frameID, ctxCounter, h, ev>>

RemoveSession(t) ==
    /\ pc[t] = "remove" /\ Forgets(t)
    /\ sessions' = sessions \ {CleanedPage(t)}
    /\ frameID' = [frameID EXCEPT ![CleanedPage(t)] = NoFrame]
    /\ UNCHANGED <<pendingFrameIDs, subFrames, latestCtx, contextMaps, isolatedWorlds>>

CleanupStep(t) ==
    \/ Closes(t)
    \/ BeginCleanup(t)
    \/ /\ ClearState(t) \/ RemoveSession(t)
       /\ UNCHANGED <<scenario, isBiDi, cleaned, enabling, browser, inbox, queue, named, reEmitted>>

------------------------------------------------------------------------------
(* The read loop.                                                           *)

\* Where the answer of thread t's call takes it.
After(t, ok) ==
    IF t[1] = "closer" THEN "clear"
    ELSE CASE h[t[2]].op = "navigate" /\ ok -> "roll"
           [] h[t[2]].op = "setContent"     -> "write"
           [] h[t[2]].op = "frameTree"      -> "frameAgain"
           [] h[t[2]].op = "close"          -> "clear"
           [] OTHER                         -> "idle"

Next1(k) == pc[Reader] = "idle" /\ queue # <<>> /\ Head(queue).kind = k /\ queue' = Tail(queue)

TakeReply ==
    /\ Next1("reply")
    /\ LET t == Head(queue).to
           l == After(t, Head(queue).ok)
       IN  /\ Goto(t, l)
           /\ IF t[1] = "closer" THEN UNCHANGED h
              ELSE h' = [h EXCEPT ![t[2]] = IF l = "idle" THEN NoCommand
                                            ELSE @]
    /\ UNCHANGED <<bridge, ev, enabling, browser, inbox, named, reEmitted>>

TakeAttached ==
    /\ Next1("attached")
    /\ LET p == Head(queue).page
       IN  /\ sessions' = sessions \cup {p}
           /\ frameID' = [frameID EXCEPT ![p] = pendingFrameIDs[p]]
           /\ pendingFrameIDs' = [pendingFrameIDs EXCEPT ![p] = NoFrame]
    /\ UNCHANGED <<scenario, isBiDi, cleaned, subFrames, latestCtx, contextMaps, isolatedWorlds, pc, h, ev,
                   enabling, browser, inbox, named, reEmitted>>

\* A frame not seen with a parent is the main frame.
\* Mutant: whatever frame navigates is the main frame.
RefreshAny(p, f) == IF p \in sessions THEN [frameID EXCEPT ![p] = f] ELSE frameID
RefreshMainFrame(p, f) ==
    IF p \in sessions /\ ~IsSubFrame(p, f) THEN [frameID EXCEPT ![p] = f] ELSE frameID

TakeNavigationStarted ==
    /\ Next1("started")
    /\ frameID' = RefreshMainFrame(Head(queue).page, Head(queue).frame)
    /\ UNCHANGED <<scenario, isBiDi, sessions, cleaned, pendingFrameIDs, subFrames, latestCtx, contextMaps,
                   isolatedWorlds, pc, h, ev, enabling, browser, inbox, named, reEmitted>>

\* The numbers of a session's contexts are dropped, and its client is told so.
ClearContextsForSession(p) ==
    IF p \in sessions
      THEN /\ ctxMap' = Without(ctxMap, OwnedBy(p))
           /\ reEmitted' = [reEmitted EXCEPT ![p] = {}]
      ELSE UNCHANGED <<ctxMap, reEmitted>>

\* BiDi does not report contexts cleared: what it calls a commit stands for it, except one
\* of about:blank on a page that has another URL (any may be one).
TakeNavigationCommitted ==
    /\ Next1("committed")
    /\ LET p == Head(queue).page
       IN  /\ frameID' = RefreshMainFrame(p, Head(queue).frame)
           /\ \/ isBiDi /\ ClearContextsForSession(p)
              \/ UNCHANGED <<ctxMap, reEmitted>>
    /\ UNCHANGED <<scenario, isBiDi, sessions, cleaned, pendingFrameIDs, subFrames, latestCtx, ctxUniqueOwners,
                   ctxCounter, isolatedWorlds, pc, h, ev, enabling, browser, inbox, named>>

TakeContextsCleared ==
    /\ Next1("cleared")
    /\ ClearContextsForSession(Head(queue).page)
    /\ UNCHANGED <<scenario, isBiDi, sessions, cleaned, frameID, pendingFrameIDs, subFrames, latestCtx,
                   ctxUniqueOwners, ctxCounter, isolatedWorlds, pc, h, ev, enabling, browser,
                   inbox, named>>

TakeFrameAttached ==
    /\ Next1("frameAttached")
    /\ LET p == Head(queue).page
           f == Head(queue).frame
       IN  /\ frameID' = IF f \in Mains /\ p \in sessions THEN [frameID EXCEPT ![p] = f] ELSE frameID
           /\ subFrames' = IF f \in Subs THEN [subFrames EXCEPT ![p] = @ \cup {f}] ELSE subFrames
    /\ UNCHANGED <<scenario, isBiDi, sessions, cleaned, pendingFrameIDs, latestCtx, contextMaps,
                   isolatedWorlds, pc, h, ev, enabling, browser, inbox, named, reEmitted>>

TakeFrameDetached ==
    /\ Next1("frameDetached")
    /\ LET p == Head(queue).page
           f == Head(queue).frame
       IN  /\ frameID' = [frameID EXCEPT ![p] = IF @ = f THEN NoFrame ELSE @]
           /\ subFrames' = [subFrames EXCEPT ![p] = @ \ {f}]
    /\ UNCHANGED <<scenario, isBiDi, sessions, cleaned, pendingFrameIDs, latestCtx, contextMaps,
                   isolatedWorlds, pc, h, ev, enabling, browser, inbox, named, reEmitted>>

TakeDetached ==
    /\ Next1("detached")
    /\ ev' = [Idle EXCEPT !.event = Head(queue)]
    /\ Goto(Reader, "begin")
    /\ UNCHANGED <<bridge, h, enabling, browser, inbox, named, reEmitted>>

\* A context is made: its session is looked up, it gets a number, and its frame is
\* noted if the session knows none, or kept for the session that is not there yet.
TakeContextCreated ==
    /\ Next1("created")
    /\ LET p == Head(queue).page
           f == Head(queue).frame
       IN  /\ ctxCounter' = ctxCounter + 1
           /\ ev' = [event |-> Head(queue), id |-> NextCtxID, todo |-> <<>>, page |-> Resolved(p)]
           /\ frameID' = IF p \in sessions /\ frameID[p] = NoFrame
                           THEN [frameID EXCEPT ![p] = f] ELSE frameID
           /\ pendingFrameIDs' = IF p \notin sessions /\ pendingFrameIDs[p] = NoFrame
                                   THEN [pendingFrameIDs EXCEPT ![p] = f] ELSE pendingFrameIDs
    /\ Goto(Reader, "store")
    /\ UNCHANGED <<scenario, isBiDi, sessions, cleaned, subFrames, latestCtx, ctxMap, ctxUniqueOwners,
                   isolatedWorlds, h, enabling, browser, inbox, named, reEmitted>>

\* The latest context of a session is whichever was reported last.
\* Mutant: a subframe's is not, if there is another.
LatestOfMain(old, new) == IF new[2] \in Subs /\ old # NoCtx THEN old ELSE new
NowLatest(old, new)    == new

\* Three maps learn of it, one after the other; then its client is told, and the worlds
\* to tell of again are read.
StoreContext ==
    /\ pc[Reader] = "store" /\ Goto(Reader, "latest")
    /\ ctxMap' = With(ctxMap, ev.id, [ctx |-> ev.event.ctx, owner |-> ev.page, world |-> "main"])
    /\ UNCHANGED <<latestCtx, ctxUniqueOwners, ctxCounter, ev, queue, reEmitted>>

StoreLatest ==
    /\ pc[Reader] = "latest" /\ Goto(Reader, "unique")
    /\ latestCtx' = [latestCtx EXCEPT ![ev.event.page] = NowLatest(@, ev.event.ctx)]
    /\ UNCHANGED <<ctxMap, ctxUniqueOwners, ctxCounter, ev, queue, reEmitted>>

StoreUnique ==
    /\ pc[Reader] = "unique"
    /\ ctxUniqueOwners' = With(ctxUniqueOwners, ev.event.ctx, ev.page)
    /\ IF ev.page = NoPage THEN Goto(Reader, "idle") /\ ev' = Idle
       ELSE Goto(Reader, "isolated") /\ UNCHANGED ev
    /\ UNCHANGED <<latestCtx, ctxMap, ctxCounter, queue, reEmitted>>

ReadIsolatedWorlds ==
    /\ pc[Reader] = "isolated" /\ Goto(Reader, "worlds")
    /\ ev' = [ev EXCEPT !.todo = isolatedWorlds[ev.page]]
    /\ reEmitted' = [reEmitted EXCEPT ![ev.page] = ToSet(isolatedWorlds[ev.page])]
    /\ UNCHANGED <<latestCtx, contextMaps, queue>>

\* Mutant: the owner of the number is forgotten.
AnnounceUnowned ==
    /\ pc[Reader] = "worlds" /\ ev.todo # <<>>
    /\ ctxCounter' = ctxCounter + 1
    /\ ctxMap' = With(ctxMap, NextCtxID, [ctx |-> ev.event.ctx, owner |-> NoPage,
                                           world |-> Head(ev.todo)])
    /\ ev' = [ev EXCEPT !.todo = Tail(@)]
    /\ UNCHANGED <<pc, latestCtx, ctxUniqueOwners, queue, reEmitted>>
AnnounceWorld ==
    /\ pc[Reader] = "worlds" /\ ev.todo # <<>>
    /\ ctxCounter' = ctxCounter + 1
    /\ ctxMap' = With(ctxMap, NextCtxID, [ctx |-> ev.event.ctx, owner |-> ev.page,
                                           world |-> Head(ev.todo)])
    /\ ev' = [ev EXCEPT !.todo = Tail(@)]
    /\ UNCHANGED <<pc, latestCtx, ctxUniqueOwners, queue, reEmitted>>

WorldsAnnounced ==
    /\ pc[Reader] = "worlds" /\ ev.todo = <<>>
    /\ Goto(Reader, "idle") /\ ev' = Idle
    /\ UNCHANGED <<latestCtx, ctxMap, ctxUniqueOwners, ctxCounter, queue, reEmitted>>

\* A context is gone: with Juggler one number of it is dropped, any of them.
TakeContextDestroyed ==
    /\ Next1("destroyed")
    /\ LET ids == {i \in DOMAIN ctxMap : ctxMap[i].ctx = Head(queue).ctx}
       IN  \E i \in IF ids = {} THEN {0} ELSE ids :
              ev' = [Idle EXCEPT !.event = Head(queue), !.id = i]
    /\ Goto(Reader, "drop")
    /\ UNCHANGED <<bridge, h, enabling, browser, inbox, named, reEmitted>>

DropContext ==
    /\ pc[Reader] = "drop" /\ Goto(Reader, "idle") /\ ev' = Idle
    /\ ctxMap' = Without(ctxMap, IF isBiDi
                                   THEN {i \in DOMAIN ctxMap : ctxMap[i].ctx = ev.event.ctx}
                                   ELSE {ev.id})
    /\ UNCHANGED <<latestCtx, ctxUniqueOwners, ctxCounter, queue, reEmitted>>

ReaderStep ==
    \/ TakeReply \/ TakeAttached \/ TakeNavigationStarted \/ TakeNavigationCommitted
    \/ TakeContextsCleared \/ TakeFrameAttached \/ TakeFrameDetached \/ TakeDetached
    \/ TakeContextCreated \/ TakeContextDestroyed
    \/ /\ \/ StoreContext \/ StoreLatest \/ StoreUnique
          \/ ReadIsolatedWorlds \/ AnnounceWorld \/ WorldsAnnounced
          \/ DropContext
       /\ UNCHANGED <<scenario, isBiDi, sessions, cleaned, frameID, pendingFrameIDs, subFrames,
                      isolatedWorlds, h, enabling, browser, inbox, named>>
    \/ CleanupStep(Reader)

HandlerStep(p) ==
    \/ Navigate(p) \/ WaitForMainFrame(p) \/ CallNavigate(p)
    \/ AwaitRollover(p) \/ RolloverTimesOut(p)
    \/ Ask(p) \/ LookUp(p) \/ ChooseContext(p) \/ WaitForAnyContext(p)
    \/ Reload(p) \/ SetContent(p) \/ WriteContent(p) \/ GetLayoutMetrics(p)
    \/ GetFrameTree(p) \/ PollFrame(p) \/ ProbeForFrame(p) \/ ReadFrameAgain(p) \/ NameFrame(p)
    \/ CreateIsolatedWorld(p) \/ RecordIsolatedWorld(p) \/ EnableRuntime(p)
    \/ CleanupStep(Handler(p))

Next ==
    \/ ReaderStep
    \/ \E p \in Pages : HandlerStep(p) \/ EnableStores(p) \/ BrowserStep(p)
                        \/ CleanupStep(Closer(p))
    \/ \E t \in Threads : BrowserServes(t)

Spec == Init /\ [][Next]_vars

\* Goroutines run, waits time out, and the browser (or the timeout of a call)
\* answers; nobody has to send a command, and pages do what they like.
FairSpec ==
    /\ Spec
    /\ WF_vars(ReaderStep)
    /\ \A p \in Pages :
          /\ WF_vars(pc[Handler(p)] # "idle" /\ HandlerStep(p))
          /\ WF_vars(pc[Closer(p)] # "idle" /\ CleanupStep(Closer(p)))
    /\ \A t \in Threads \ {Reader} : WF_vars(BrowserServes(t))

------------------------------------------------------------------------------
(* Properties.                                                              *)

Open(p) == p \in sessions \ cleaned /\ page[p] = "live"

\* The read loop has taken all the browser wrote about page p.
CaughtUp(p) ==
    /\ pc[Reader] = "idle"
    /\ \A i \in DOMAIN queue : queue[i].kind # "reply" => queue[i].page # p

\* The bridge's main frame is the page's, whichever frames came, went and were
\* replaced, announced or not, before the session was registered or after
\* (refreshMainFrame, pendingFrameIDs, noteSubFrame): a navigation sent to another
\* frame is accepted and does nothing.
FramesAgree == \A p \in Pages : Open(p) /\ CaughtUp(p) => frameID[p] = mainFrame[p]

\* The latest context is the one the page made last, over navigations, subframes and
\* contexts reported before their session (Runtime.executionContextCreated).
LatestIsNewest == \A p \in Pages : Open(p) /\ CaughtUp(p) => latestCtx[p] = newest[p]

\* The latest context exists: "only the last surviving one matters" (events.go).
LatestIsLive == \A p \in Pages : Open(p) /\ CaughtUp(p) => latestCtx[p] \in live

\* A command of a session is evaluated in a context of its own page, whatever unique id or
\* number its client gives and whatever is stored, cleared or forgotten between the check,
\* the lookup and the choice (contextOwned, uniqueContextOwned, latestContextForSession).
\* The checks let pass what nobody owns: if it did not when checked, and there was no
\* latest context to take its place, the context is whatever the name leads to.
OwnContext ==
    \A p \in Pages :
        LET c == inbox[Handler(p)].ctx
        IN  inbox[Handler(p)].kind = "evaluate" /\ c # NoCtx /\ ~h[p].unowned => c[1] = p

\* Isolated worlds announced again with the latest context can be used until the client is
\* told that contexts are cleared: each has a number of the session that leads to the
\* context (Runtime.executionContextCreated).
WorldsFollow ==
    \A p \in Pages :
        Open(p) /\ CaughtUp(p) /\ latestCtx[p] \in live
          => \A w \in reEmitted[p] :
                [ctx |-> latestCtx[p], owner |-> p, world |-> w] \in
                {ctxMap[i] : i \in DOMAIN ctxMap}

\* A navigation that waited and saw the context roll over has left the document that
\* was there when it began (the comment on the wait in Page.navigate).  Not if that
\* document had not been read from the browser then, nor if what rolled over is a
\* subframe's context: those end the wait, too.
NavigatesForward ==
    [][\A p \in Pages :
          AwaitRollover(p) /\ h[p].clean
            => Latest(p)[2] \in Subs \/ Latest(p)[3] > h[p].from]_vars

\* Every command is answered, whatever the page does meanwhile.
CommandsEnd == \A p \in Pages : pc[Handler(p)] # "idle" ~> pc[Handler(p)] = "idle"
==============================================================================
