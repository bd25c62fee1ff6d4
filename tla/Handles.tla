------------------------------- MODULE Handles -------------------------------
(***************************************************************************)
(* What clients hold on to between commands, with the Juggler backend:     *)
(* objects and nodes (runtime.go, dom.go), the selector that is remembered *)
(* for $eval (runtime.go), dialogs and PDF streams (page.go, io.go,        *)
(* events.go), and its end with the page (clearConnectionState).           *)
(*                                                                         *)
(* The client of a page has tasks, which run Puppeteer's programs: a task  *)
(* sends a command when the one before is answered, and gives its program  *)
(* up when one fails.  The handler runs one command of the client at a     *)
(* time, whichever task sent it.  A step is one critical section; what is  *)
(* only read is read in the step that acts on it.                          *)
(***************************************************************************)
EXTENDS Naturals, Integers, FiniteSets, Sequences, SequencesExt, TLC

CONSTANTS
    Pages,          \* pages, and their sessions
    Tasks,          \* what a client does at the same time
    NoPage,
    Scenarios,      \* who does what: a behaviour is of one of them
    MaxRuns,        \* bound: programs a client begins, or fewer if the scenario has it
    MaxObjects,     \* bound: objects of a page
    MaxDialogs      \* bound: dialogs of a page

\* Puppeteer's programs (a handle goes from world to world by describe, resolve, release;
\* "internal" and "user" take their handles as arguments), and those of other clients.
Programs ==
    [none      |-> <<>>,
     element   |-> <<"query", "describe", "resolve", "release">>,                  \* page.$
     elements  |-> <<"queryAll", "internal", "internal", "properties",
                     "describe", "resolve", "release">>,                          \* page.$$
     eval      |-> <<"query", "describe", "resolve", "release", "user", "release">>,
     evalAll   |-> <<"queryAll", "internal", "internal", "properties",
                     "describe", "resolve", "release", "user", "user", "release">>,
     function  |-> <<"user">>,                                            \* page.evaluate
     click     |-> <<"query", "describe", "resolve", "release", "internal", "release">>,
     keep      |-> <<"handle", "describe", "resolve", "quads", "release">>,
     use       |-> <<"handle", "properties", "release">>,
     upload    |-> <<"handle", "setFiles">>,
     find      |-> <<"document", "select", "focus", "resolve", "boxModel">>,
     findAll   |-> <<"selectAll", "html", "resolve", "quads">>,
     named     |-> <<"resolve", "focus">>,                                \* with any node id
     given     |-> <<"onObject">>,                                        \* with any object
     dropped   |-> <<"release">>,                                         \* the same, and so on
     adopted   |-> <<"describe", "resolve", "release">>,
     spread    |-> <<"focus", "properties">>,
     filled    |-> <<"setFiles">>,
     alert     |-> <<"alert">>,
     dialog    |-> <<"dialog">>,
     print     |-> <<"print", "read", "closeStream">>,
     stream    |-> <<"read", "closeStream">>]                             \* with any stream

\* Programs that begin with an object the client may have from anywhere.
OfAnyObject == {"given", "dropped", "adopted", "spread", "filled"}

ASSUME HandlesAssumption ==
    /\ NoPage \notin Pages
    /\ IsFiniteSet(Tasks)
    /\ MaxRuns \in Nat /\ MaxObjects \in Nat /\ MaxDialogs \in Nat
    /\ \A sc \in Scenarios :
          /\ DOMAIN sc.programs = Pages
          /\ \A p \in Pages : /\ DOMAIN sc.programs[p] \subseteq Tasks
                              /\ \A k \in DOMAIN sc.programs[p] :
                                    sc.programs[p][k] \subseteq DOMAIN Programs
          /\ sc.runs \in [Pages -> 0 .. MaxRuns]
          /\ sc.happens \subseteq {"dialogs", "failures", "ends"}

VARIABLES
    scenario,
    sessions,       \* pages whose session is registered
    cleaned,        \* pages whose record is no longer open
    nodeObjects,    \* node id |-> its object and owner (nodeObjects, nodeOwners)
    objectOwners,   \* object |-> page
    ctxCounter,     \* node ids come from the counter of context numbers
    lastQuery,      \* the selector remembered, by the run it is of; 0 is none
    lastQuerySkips, \* calls to skip before it is used
    lastDialog,     \* id of the dialog opened last; 0 is none
    pdfStreams,     \* stream |-> owner (pdfStreams, pdfOwners)
    \* goroutines
    pc,             \* handler of each page
    h,              \* its command
    call,           \* its call of the backend, and what came of it
    ending,         \* read loop: the page it cleans up, and how far
    \* the browser
    live,           \* pages that exist
    made,           \* objects made
    disposed,       \* objects released
    dialog,         \* the dialog open; 0 is none
    opened,         \* dialogs opened
    news,           \* events not read
    \* clients
    tasks, runs,
    streams,        \* streams handed out (time.Now().UnixNano(), taken to be unique)
    \* history
    left,           \* runs that ended before a function came: given up, or page.$
    late,           \* pages whose handler was busy when their state was cleared
    asked           \* dialogs that Page.handleDialog was sent for

nodes   == <<nodeObjects, objectOwners, ctxCounter>>
queries == <<lastQuery, lastQuerySkips>>
browser == <<live, made, disposed, dialog, opened, news>>
vars == <<scenario, sessions, cleaned, nodes, queries, lastDialog, pdfStreams, pc, h, call, ending,
          browser, tasks, runs, streams, left, late, asked>>

NoObject  == <<NoPage, 0>>
Objects   == Pages \X (1 .. MaxObjects)
NoTask    == [prog |-> "none", at |-> 0, run |-> 0, obj |-> NoObject, node |-> 0,
              of |-> NoObject, stream |-> 0]
NoCommand == [task |-> 0, cmd |-> "none", id |-> 0, retried |-> FALSE]
NoCall    == [kind |-> "none", obj |-> NoObject, dialog |-> 0, result |-> "none"]

TypeOK ==
    /\ sessions \subseteq Pages /\ cleaned \subseteq Pages /\ live \subseteq Pages
    /\ DOMAIN nodeObjects \subseteq 1 .. ctxCounter
    /\ \A i \in DOMAIN nodeObjects : nodeObjects[i] \in [obj : Objects, owner : Pages]
    /\ DOMAIN objectOwners \subseteq Objects /\ Range(objectOwners) \subseteq Pages
    /\ lastQuery \in [Pages -> 0 .. MaxRuns] /\ lastQuerySkips \in [Pages -> -1 .. 3]
    /\ lastDialog \in [Pages -> 0 .. MaxDialogs]
    /\ DOMAIN pdfStreams \subseteq 1 .. streams /\ Range(pdfStreams) \subseteq Pages
    /\ \A p \in Pages : call[p].obj \in Objects \cup {NoObject}
                        /\ (pc[p] = "idle") = (h[p] = NoCommand)
                        /\ dialog[p] <= opened[p]
    /\ disposed \subseteq Objects

Init ==
    /\ scenario \in Scenarios
    /\ sessions = Pages /\ cleaned = {}
    /\ nodeObjects = <<>> /\ objectOwners = <<>> /\ ctxCounter = 0
    /\ lastQuery = [p \in Pages |-> 0] /\ lastQuerySkips = [p \in Pages |-> 0]
    /\ lastDialog = [p \in Pages |-> 0] /\ pdfStreams = <<>>
    /\ pc = [p \in Pages |-> "idle"] /\ h = [p \in Pages |-> NoCommand]
    /\ call = [p \in Pages |-> NoCall]
    /\ ending = [page |-> NoPage, at |-> "none"]
    /\ live = Pages /\ made = [p \in Pages |-> 0] /\ disposed = {}
    /\ dialog = [p \in Pages |-> 0] /\ opened = [p \in Pages |-> 0] /\ news = <<>>
    /\ tasks = [p \in Pages |-> [k \in Tasks |-> NoTask]] /\ runs = [p \in Pages |-> 0]
    /\ streams = 0
    /\ left = [p \in Pages |-> {}] /\ late = {} /\ asked = [p \in Pages |-> {}]

Without(f, S) == Restrict(f, DOMAIN f \ S)
With(f, x, y) == [z \in DOMAIN f \cup {x} |-> IF z = x THEN y ELSE f[z]]
Goto(p, l)    == pc' = [pc EXCEPT ![p] = l]

------------------------------------------------------------------------------
(* The client.                                                              *)

MadeObjects == {o \in Objects : o[2] <= made[o[1]]}

StartProgram(p, k) ==
    /\ tasks[p][k].prog = "none" /\ runs[p] < scenario.runs[p] /\ k \in DOMAIN scenario.programs[p]
    /\ \E prog \in scenario.programs[p][k] :
       \E n \in IF prog = "named" THEN DOMAIN nodeObjects ELSE {0} :
       \E s \in IF prog = "stream" THEN 1 .. streams ELSE {0} :
       \E o \in IF prog \in OfAnyObject THEN MadeObjects ELSE {NoObject} :
          tasks' = [tasks EXCEPT ![p][k] = [NoTask EXCEPT !.prog = prog, !.at = 1, !.obj = o,
                                            !.run = runs[p] + 1, !.node = n, !.stream = s]]
    /\ runs' = [runs EXCEPT ![p] = @ + 1]
    /\ UNCHANGED <<scenario, sessions, cleaned, nodes, queries, lastDialog, pdfStreams, pc, h, call,
                   ending, browser, streams, left, late, asked>>

\* Task k's command is answered: the task, which learned t, goes on or gives up.
Answer(p, k, goesOn, t) ==
    LET more == goesOn /\ t.at < Len(Programs[t.prog])
        leaves == ~goesOn \/ (~more /\ t.prog = "element")
    IN  /\ Goto(p, "idle")
        /\ h' = [h EXCEPT ![p] = NoCommand] /\ call' = [call EXCEPT ![p] = NoCall]
        /\ tasks' = [tasks EXCEPT ![p][k] = IF more THEN [t EXCEPT !.at = @ + 1] ELSE NoTask]
        /\ left' = IF leaves THEN [left EXCEPT ![p] = @ \cup {t.run}] ELSE left

------------------------------------------------------------------------------
(* The handler: how a command begins, and how a call of the backend ends.   *)

Cmd(p, k)  == Programs[tasks[p][k].prog][tasks[p][k].at]
Mine(p)    == tasks[p][h[p].task]
Authorized(p) == p \in sessions \ cleaned

Takes(p, k, commands) ==
    /\ pc[p] = "idle" /\ tasks[p][k].prog # "none"
    /\ Cmd(p, k) \in commands /\ Authorized(p)
Begins(p, k) == h' = [h EXCEPT ![p] = [NoCommand EXCEPT !.task = k, !.cmd = Cmd(p, k)]]

\* callJuggler: the handler waits at l for what becomes of the call.
Sends(p, l, kind, obj) ==
    /\ Goto(p, l)
    /\ call' = [call EXCEPT ![p] = [NoCall EXCEPT !.kind = kind, !.obj = obj, !.result = "sent"]]
    /\ UNCHANGED <<tasks, left>>

Ended(p, l) == pc[p] = l /\ call[p].result \notin {"sent", "blocked"}
Ok(p)       == call[p].result = "ok"

\* Call's context: 30 seconds, and the call has failed.
\* Mutant: a call that opens a dialog waits until the dialog is closed.
TimesOutUnlessBlocked(p) == call[p].result = "sent" /\ call' = [call EXCEPT ![p].result = "failed"]
TimesOut(p) ==
    call[p].result \in {"sent", "blocked"} /\ call' = [call EXCEPT ![p].result = "failed"]

Refuse(p, k) ==
    /\ pc[p] = "idle" /\ tasks[p][k].prog # "none" /\ ~Authorized(p)
    /\ Answer(p, k, FALSE, tasks[p][k])
    /\ UNCHANGED <<nodes, queries, lastDialog, pdfStreams, streams, asked>>

\* Mutant: the number before the increment.
LastCtxID == ctxCounter
NextCtxID == ctxCounter + 1

OwnerOf(o) == IF o \in DOMAIN objectOwners THEN objectOwners[o] ELSE NoPage
Foreign(p, o) == OwnerOf(o) \notin {NoPage, p}

------------------------------------------------------------------------------
(* Runtime.callFunctionOn.                                                  *)

\* A query (cssQuerySelector, cssQuerySelectorAll): its selector is remembered, then
\* how many calls to skip, then it is run.
StoreSelector(p, k) ==
    /\ Takes(p, k, {"query", "queryAll"}) /\ Begins(p, k)
    /\ lastQuery' = [lastQuery EXCEPT ![p] = tasks[p][k].run]
    /\ Goto(p, "skips")
    /\ UNCHANGED <<nodes, lastQuerySkips, lastDialog, pdfStreams, call, tasks, streams, left, asked>>

Skips(cmd)    == IF cmd = "queryAll" THEN 3 ELSE 0

StoreSkips(p) ==
    /\ pc[p] = "skips" /\ UNCHANGED h
    /\ lastQuerySkips' = [lastQuerySkips EXCEPT ![p] = Skips(h[p].cmd)]
    /\ Sends(p, "queried", h[p].cmd, NoObject)
    /\ UNCHANGED <<nodes, lastQuery, lastDialog, pdfStreams, streams, asked>>

\* Nothing found is answered as null, and Puppeteer's program ends there.
QueryReturns(p) ==
    /\ Ended(p, "queried")
    /\ \/ /\ Ok(p) /\ call[p].obj # NoObject
          /\ ctxCounter' = NextCtxID /\ h' = [h EXCEPT ![p].id = NextCtxID]
          /\ Goto(p, "note") /\ UNCHANGED <<call, tasks, left>>
       \/ /\ ~(Ok(p) /\ call[p].obj # NoObject)
          /\ Answer(p, h[p].task, FALSE, Mine(p)) /\ UNCHANGED ctxCounter
    /\ UNCHANGED <<nodeObjects, objectOwners, queries, lastDialog, pdfStreams, streams, asked>>

\* The object found is kept under a node id that nobody is told, so that it is not released.
NoteObject(p) ==
    /\ pc[p] = "note"
    /\ LET o == call[p].obj
       IN  /\ nodeObjects' = With(nodeObjects, h[p].id, [obj |-> o, owner |-> p])
           /\ objectOwners' = With(objectOwners, o, p)
           /\ Answer(p, h[p].task, TRUE, [Mine(p) EXCEPT !.obj = o])
    /\ UNCHANGED <<ctxCounter, queries, lastDialog, pdfStreams, streams, asked>>

\* isPuppeteerInternal.  Mutant: Puppeteer's functions are taken for the user's.
NeverInternal(cmd) == FALSE
IsInternal(cmd)    == cmd = "internal"

\* Another function: Puppeteer's own (internal) forgets the selector; before any other
\* one the calls to skip are counted, and then it is combined with the selector.  The
\* owner is asked of the object the function is called on, not of its arguments.
CallFunction(p, k) ==
    /\ Takes(p, k, {"internal", "user", "onObject"})
    /\ LET o == tasks[p][k].obj
           refused == Cmd(p, k) = "onObject" /\ Foreign(p, o)
       IN  \/ refused /\ Answer(p, k, FALSE, tasks[p][k])
           \/ /\ ~refused /\ Begins(p, k)
              /\ IF lastQuery[p] = 0 THEN Sends(p, "called", "function", o)
                 ELSE /\ Goto(p, IF IsInternal(Cmd(p, k)) THEN "clear" ELSE "count")
                      /\ UNCHANGED <<call, tasks, left>>
    /\ UNCHANGED <<nodes, queries, lastDialog, pdfStreams, streams, asked>>

ClearPending(p) ==
    /\ pc[p] = "clear" /\ UNCHANGED h
    /\ lastQuery' = [lastQuery EXCEPT ![p] = 0]
    /\ lastQuerySkips' = [lastQuerySkips EXCEPT ![p] = 0]
    /\ Sends(p, "called", "function", Mine(p).obj)
    /\ UNCHANGED <<nodes, lastDialog, pdfStreams, streams, asked>>

Count(p) ==
    /\ pc[p] = "count" /\ Goto(p, IF lastQuerySkips[p] > 0 THEN "skip" ELSE "combine")
    /\ UNCHANGED <<nodes, queries, lastDialog, pdfStreams, h, call, tasks, streams, left, asked>>

\* A call skipped is answered with an object that is none.
Skip(p) ==
    /\ pc[p] = "skip"
    /\ lastQuerySkips' = [lastQuerySkips EXCEPT ![p] = @ - 1]
    /\ Answer(p, h[p].task, TRUE, Mine(p))
    /\ UNCHANGED <<nodes, lastQuery, lastDialog, pdfStreams, streams, asked>>

Combine(p) ==
    /\ pc[p] = "combine" /\ UNCHANGED h
    /\ lastQuery' = [lastQuery EXCEPT ![p] = 0]
    /\ Sends(p, "combined", "combined", NoObject)
    /\ UNCHANGED <<nodes, lastQuerySkips, lastDialog, pdfStreams, streams, asked>>

\* If its context was gone, once more with the latest one.
CombineReturns(p) ==
    /\ Ended(p, "combined")
    /\ \/ /\ call[p].result = "lost" /\ ~h[p].retried
          /\ h' = [h EXCEPT ![p].retried = TRUE]
          /\ Sends(p, "combined", "combined", NoObject)
       \/ /\ call[p].result # "lost" \/ h[p].retried
          /\ Answer(p, h[p].task, Ok(p), Mine(p))
    /\ UNCHANGED <<nodes, queries, lastDialog, pdfStreams, streams, asked>>

FunctionReturns(p) ==
    /\ Ended(p, "called") /\ Answer(p, h[p].task, Ok(p), Mine(p))
    /\ UNCHANGED <<nodes, queries, lastDialog, pdfStreams, streams, asked>>

------------------------------------------------------------------------------
(* Runtime.evaluate, releaseObject, getProperties.                          *)

\* The object of a value is nobody's until it is described; a value that is no object
\* ends Puppeteer's program.
Evaluate(p, k) ==
    /\ Takes(p, k, {"handle", "alert"}) /\ Begins(p, k)
    /\ Sends(p, "evaluated", Cmd(p, k), NoObject)
    /\ UNCHANGED <<nodes, queries, lastDialog, pdfStreams, streams, asked>>

EvaluateReturns(p) ==
    /\ Ended(p, "evaluated")
    /\ Answer(p, h[p].task, Ok(p) /\ (h[p].cmd = "alert" \/ call[p].obj # NoObject),
              [Mine(p) EXCEPT !.obj = call[p].obj])
    /\ UNCHANGED <<nodes, queries, lastDialog, pdfStreams, streams, asked>>

\* Objects that nodes lead to are not released, nor those of others; Puppeteer goes on if
\* it is refused.
\* Mutant: only the first node is looked at.
FirstStored(o) == 1 \in DOMAIN nodeObjects /\ nodeObjects[1].obj = o
IsStored(o)    == \E i \in DOMAIN nodeObjects : nodeObjects[i].obj = o

ReleaseObject(p, k) ==
    /\ Takes(p, k, {"release"})
    /\ LET o == tasks[p][k].obj
       IN  \/ Foreign(p, o) /\ Answer(p, k, TRUE, tasks[p][k])
           \/ ~Foreign(p, o) /\ (o = NoObject \/ IsStored(o)) /\ Answer(p, k, TRUE, tasks[p][k])
           \/ /\ ~Foreign(p, o) /\ o # NoObject /\ ~IsStored(o)
              /\ Begins(p, k) /\ Sends(p, "used", "dispose", o)
    /\ UNCHANGED <<nodes, queries, lastDialog, pdfStreams, streams, asked>>

\* Commands that send an object on as they got it; one that names a node only is answered
\* with nothing done.
UseObject(p, k, cmd) ==
    /\ Takes(p, k, {cmd})
    /\ \/ tasks[p][k].obj = NoObject /\ Answer(p, k, TRUE, tasks[p][k])
       \/ /\ tasks[p][k].obj # NoObject
          /\ Begins(p, k) /\ Sends(p, "used", cmd, tasks[p][k].obj)
    /\ UNCHANGED <<nodes, queries, lastDialog, pdfStreams, streams, asked>>
GetProperties(p, k)     == UseObject(p, k, "properties")
GetBoxModel(p, k)       == UseObject(p, k, "boxModel")
GetOuterHTML(p, k)      == UseObject(p, k, "html")
GetContentQuads(p, k)   == UseObject(p, k, "quads")
Focus(p, k)             == UseObject(p, k, "focus")
SetFileInputFiles(p, k) == UseObject(p, k, "setFiles")

\* Most answer something made up if the call failed.
UseReturns(p) ==
    /\ Ended(p, "used")
    /\ Answer(p, h[p].task, Ok(p) \/ h[p].cmd \notin {"properties", "setFiles"}, Mine(p))
    /\ UNCHANGED <<nodes, queries, lastDialog, pdfStreams, streams, asked>>

------------------------------------------------------------------------------
(* The DOM domain.                                                          *)

\* DOM.getDocument, querySelector and querySelectorAll evaluate an expression.
GetDocument(p, k) ==
    /\ Takes(p, k, {"document", "select", "selectAll"}) /\ Begins(p, k)
    /\ Sends(p, "selected", "evaluate", NoObject)
    /\ UNCHANGED <<nodes, queries, lastDialog, pdfStreams, streams, asked>>

\* The node id of an element found is new, and leads to nothing; the ids of all found are
\* 3, 4 and so on, the document's is 1, whatever these numbers may lead to.
QuerySelector(p) ==
    /\ Ended(p, "selected") /\ h[p].cmd = "select"
    /\ \E found \in IF Ok(p) THEN BOOLEAN ELSE {FALSE} :
          /\ ctxCounter' = IF found THEN NextCtxID ELSE ctxCounter
          /\ Answer(p, h[p].task, found, [Mine(p) EXCEPT !.node = NextCtxID])
    /\ UNCHANGED <<nodeObjects, objectOwners, queries, lastDialog, pdfStreams, streams, asked>>

QuerySelectorAll(p) ==
    /\ Ended(p, "selected") /\ h[p].cmd \in {"document", "selectAll"}
    /\ Answer(p, h[p].task, TRUE,
              [Mine(p) EXCEPT !.node = IF h[p].cmd = "document" THEN 1 ELSE 3])
    /\ UNCHANGED <<nodes, queries, lastDialog, pdfStreams, streams, asked>>

\* DOM.describeNode: a node id is made for the object, whoever it belongs to.
DescribeNode(p, k) ==
    /\ Takes(p, k, {"describe"})
    /\ ctxCounter' = NextCtxID
    /\ h' = [h EXCEPT ![p] = [NoCommand EXCEPT !.task = k, !.cmd = "describe", !.id = NextCtxID]]
    /\ Goto(p, "store")
    /\ UNCHANGED <<nodeObjects, objectOwners, queries, lastDialog, pdfStreams, call, tasks, streams,
                   left, asked>>

StoreNode(p) ==
    /\ pc[p] = "store" /\ UNCHANGED h
    /\ LET o == Mine(p).obj
       IN  /\ nodeObjects' = With(nodeObjects, h[p].id, [obj |-> o, owner |-> p])
           /\ objectOwners' = With(objectOwners, o, p)
           /\ Sends(p, "described", "describe", o)
    /\ UNCHANGED <<ctxCounter, queries, lastDialog, pdfStreams, streams, asked>>

\* Juggler describes it, and a function tells more; if one of them fails another function
\* is tried, and if that fails the answer is made up.
DescribeReturns(p) ==
    /\ \/ /\ Ended(p, "described") /\ UNCHANGED h
          /\ Sends(p, IF Ok(p) THEN "detailed" ELSE "fallback", "function", Mine(p).obj)
       \/ /\ Ended(p, "detailed") /\ ~Ok(p) /\ UNCHANGED h
          /\ Sends(p, "fallback", "function", Mine(p).obj)
       \/ /\ (Ended(p, "detailed") /\ Ok(p)) \/ Ended(p, "fallback")
          /\ Answer(p, h[p].task, TRUE, [Mine(p) EXCEPT !.node = h[p].id, !.of = Mine(p).obj])
    /\ UNCHANGED <<nodes, queries, lastDialog, pdfStreams, streams, asked>>

\* A node id that leads to nothing is the document's.
ResolveNode(p, k) ==
    /\ Takes(p, k, {"resolve"})
    /\ LET t == tasks[p][k]
       IN  \/ /\ t.node \in DOMAIN nodeObjects
              /\ LET node == nodeObjects[t.node]
                 IN  Answer(p, k, node.owner = p,
                            IF node.owner = p THEN [t EXCEPT !.obj = node.obj] ELSE t)
           \/ /\ t.node \notin DOMAIN nodeObjects
              /\ Begins(p, k) /\ Sends(p, "resolved", "handle", NoObject)
    /\ UNCHANGED <<nodes, queries, lastDialog, pdfStreams, streams, asked>>

\* If that fails, too, the answer names an object there is not.
ResolveReturns(p) ==
    /\ Ended(p, "resolved")
    /\ Answer(p, h[p].task, call[p].obj # NoObject, [Mine(p) EXCEPT !.obj = call[p].obj])
    /\ UNCHANGED <<nodes, queries, lastDialog, pdfStreams, streams, asked>>

------------------------------------------------------------------------------
(* Dialogs and streams.                                                     *)

\* The id of the dialog is forgotten before the call, whatever comes of it.
HandleDialog(p, k) ==
    /\ Takes(p, k, {"dialog"}) /\ Begins(p, k)
    /\ Goto(p, "called")
    /\ call' = [call EXCEPT ![p] = [NoCall EXCEPT !.kind = "dialog", !.dialog = lastDialog[p],
                                                  !.result = "sent"]]
    /\ asked' = [asked EXCEPT ![p] = @ \cup {lastDialog[p]}]
    /\ lastDialog' = [lastDialog EXCEPT ![p] = 0]
    /\ UNCHANGED <<nodes, queries, pdfStreams, tasks, left, streams>>

PrintToPDF(p, k) ==
    /\ Takes(p, k, {"print"}) /\ Begins(p, k)
    /\ Sends(p, "printed", "print", NoObject)
    /\ UNCHANGED <<nodes, queries, lastDialog, pdfStreams, streams, asked>>

StoreStream(p) ==
    /\ Ended(p, "printed")
    /\ \/ /\ Ok(p) /\ streams' = streams + 1
          /\ pdfStreams' = With(pdfStreams, streams + 1, p)
          /\ Answer(p, h[p].task, TRUE, [Mine(p) EXCEPT !.stream = streams + 1])
       \/ /\ ~Ok(p) /\ Answer(p, h[p].task, FALSE, Mine(p)) /\ UNCHANGED <<streams, pdfStreams>>
    /\ UNCHANGED <<nodes, queries, lastDialog, asked>>

StreamOf(p, s) == s \in DOMAIN pdfStreams /\ pdfStreams[s] = p

ReadStream(p, k) ==
    /\ Takes(p, k, {"read"})
    /\ Answer(p, k, StreamOf(p, tasks[p][k].stream), tasks[p][k])
    /\ UNCHANGED <<nodes, queries, lastDialog, pdfStreams, streams, asked>>

CloseStream(p, k) ==
    /\ Takes(p, k, {"closeStream"})
    /\ LET s == tasks[p][k].stream
           foreign == s \in DOMAIN pdfStreams /\ pdfStreams[s] # p
       IN  /\ Answer(p, k, ~foreign, tasks[p][k])
           /\ pdfStreams' = IF foreign THEN pdfStreams ELSE Without(pdfStreams, {s})
    /\ UNCHANGED <<nodes, queries, lastDialog, streams, asked>>

HandlerStep(p) ==
    /\ \/ \E k \in Tasks :
             \/ Refuse(p, k) \/ StoreSelector(p, k) \/ CallFunction(p, k) \/ Evaluate(p, k)
             \/ ReleaseObject(p, k) \/ GetProperties(p, k) \/ GetBoxModel(p, k)
             \/ GetOuterHTML(p, k) \/ GetContentQuads(p, k) \/ Focus(p, k)
             \/ SetFileInputFiles(p, k) \/ GetDocument(p, k) \/ DescribeNode(p, k)
             \/ ResolveNode(p, k) \/ HandleDialog(p, k) \/ PrintToPDF(p, k)
             \/ ReadStream(p, k) \/ CloseStream(p, k)
       \/ StoreSkips(p) \/ QueryReturns(p) \/ NoteObject(p) \/ ClearPending(p) \/ Count(p)
       \/ Skip(p) \/ Combine(p) \/ CombineReturns(p) \/ FunctionReturns(p) \/ EvaluateReturns(p)
       \/ UseReturns(p) \/ QuerySelector(p) \/ QuerySelectorAll(p) \/ StoreNode(p)
       \/ DescribeReturns(p) \/ ResolveReturns(p) \/ StoreStream(p)
    /\ UNCHANGED <<scenario, sessions, cleaned, ending, browser, runs, late>>

------------------------------------------------------------------------------
(* The browser.  A page with a dialog open answers nothing else.            *)

Event(kind, p) == [kind |-> kind, page |-> p, dialog |-> opened[p]]
OpenedNext(p)  == [Event("opened", p) EXCEPT !.dialog = opened[p] + 1]

Opens(p) ==
    /\ p \in live /\ dialog[p] = 0 /\ opened[p] < MaxDialogs
    /\ dialog' = [dialog EXCEPT ![p] = opened[p] + 1]
    /\ opened' = [opened EXCEPT ![p] = @ + 1]
    /\ news' = Append(news, OpenedNext(p))

Becomes(p, result, obj) == call' = [call EXCEPT ![p].result = result, ![p].obj = obj]

ServeObject(p) ==
    /\ call[p].kind \in {"query", "queryAll", "handle"} /\ dialog[p] = 0
    /\ \/ /\ made[p] < MaxObjects /\ made' = [made EXCEPT ![p] = @ + 1]
          /\ Becomes(p, "ok", <<p, made[p] + 1>>)
       \/ /\ made' = made /\ Becomes(p, "ok", NoObject)
    /\ UNCHANGED <<disposed, dialog, opened, news>>

ServeAlert(p) ==
    /\ call[p].kind = "alert" /\ Opens(p)
    /\ Becomes(p, "blocked", NoObject)
    /\ UNCHANGED <<made, disposed>>

ServeDialog(p) ==
    /\ call[p].kind = "dialog"
    /\ \/ /\ dialog[p] # 0 /\ call[p].dialog = dialog[p]
          /\ dialog' = [dialog EXCEPT ![p] = 0]
          /\ news' = Append(news, Event("closed", p))
          /\ Becomes(p, "ok", NoObject)
       \/ /\ dialog[p] = 0 \/ call[p].dialog # dialog[p]
          /\ Becomes(p, "failed", NoObject) /\ UNCHANGED <<dialog, news>>
    /\ UNCHANGED <<made, disposed, opened>>

\* Objects are found in a context of their own page alone.
Finds(p, o) == o = NoObject \/ (o[1] = p /\ o \notin disposed)

ServeOther(p) ==
    /\ call[p].kind \notin {"query", "queryAll", "handle", "alert", "dialog"} /\ dialog[p] = 0
    /\ Becomes(p, IF Finds(p, call[p].obj) THEN "ok" ELSE "failed", call[p].obj)
    /\ disposed' = IF call[p].kind = "dispose" /\ Finds(p, call[p].obj)
                   THEN disposed \cup {call[p].obj} ELSE disposed
    /\ UNCHANGED <<made, dialog, opened, news>>

\* A call of a page that is gone fails, and any may.
Serve(p) ==
    /\ call[p].result = "sent"
    /\ \/ p \in live /\ (ServeObject(p) \/ ServeAlert(p) \/ ServeDialog(p) \/ ServeOther(p))
       \/ /\ p \notin live \/ "failures" \in scenario.happens
          /\ \E result \in {"failed", "lost"} : Becomes(p, result, NoObject)
          /\ UNCHANGED <<made, disposed, dialog, opened, news>>
    /\ UNCHANGED live

Happens(p, what) == what \in scenario.happens /\ scenario.runs[p] > 0

\* The page opens a dialog by itself; the user answers one.
PageOpensDialog(p) == Happens(p, "dialogs") /\ Opens(p) /\ UNCHANGED <<call, live, made, disposed>>

UserAnswers(p) ==
    /\ Happens(p, "dialogs") /\ dialog[p] # 0
    /\ dialog' = [dialog EXCEPT ![p] = 0]
    /\ news' = Append(news, Event("closed", p))
    /\ call' = IF call[p].result = "blocked" THEN [call EXCEPT ![p].result = "ok"] ELSE call
    /\ UNCHANGED <<live, made, disposed, opened>>

PageEnds(p) ==
    /\ Happens(p, "ends") /\ p \in live
    /\ live' = live \ {p} /\ dialog' = [dialog EXCEPT ![p] = 0]
    /\ news' = Append(news, Event("detached", p))
    /\ call' = IF call[p].result = "blocked" THEN [call EXCEPT ![p].result = "failed"] ELSE call
    /\ UNCHANGED <<made, disposed, opened>>

BrowserStep(p) ==
    /\ \/ Serve(p) \/ PageOpensDialog(p) \/ UserAnswers(p) \/ PageEnds(p)
       \/ TimesOut(p) /\ UNCHANGED browser
    /\ UNCHANGED <<scenario, sessions, cleaned, nodes, queries, lastDialog, pdfStreams, pc, h, ending,
                   tasks, runs, streams, left, late, asked>>

------------------------------------------------------------------------------
(* The read loop.                                                           *)

Takes1(kind) == ending.at = "none" /\ news # <<>> /\ Head(news).kind = kind /\ news' = Tail(news)

\* Mutant: the first dialog not answered keeps its place.
FirstDialog(old, new) == IF old = 0 THEN new ELSE old
LastDialog(old, new)  == new

TakeDialogOpened ==
    /\ Takes1("opened")
    /\ LET p == Head(news).page
       IN  lastDialog' = IF p \in sessions
                           THEN [lastDialog EXCEPT ![p] = LastDialog(@, Head(news).dialog)]
                           ELSE lastDialog
    /\ UNCHANGED <<sessions, cleaned, nodes, queries, pdfStreams, ending, late>>

\* The client is told; the bridge keeps the id.
TakeDialogClosed ==
    /\ Takes1("closed")
    /\ UNCHANGED <<sessions, cleaned, nodes, queries, lastDialog, pdfStreams, ending, late>>

TakeDetached ==
    /\ Takes1("detached")
    /\ cleaned' = cleaned \cup {Head(news).page}
    /\ ending' = [page |-> Head(news).page, at |-> "clear"]
    /\ UNCHANGED <<sessions, nodes, queries, lastDialog, pdfStreams, late>>

\* clearConnectionState.
\* Mutant: the nodes go and the owners of their objects stay.
ClearNodes(p) ==
    /\ nodeObjects' = Without(nodeObjects, {i \in DOMAIN nodeObjects : nodeObjects[i].owner = p})
    /\ UNCHANGED objectOwners
ClearObjects(p) ==
    /\ nodeObjects' = Without(nodeObjects, {i \in DOMAIN nodeObjects : nodeObjects[i].owner = p})
    /\ objectOwners' = Without(objectOwners, {o \in DOMAIN objectOwners : objectOwners[o] = p})

ClearState ==
    LET p == ending.page
    IN  /\ ending.at = "clear" /\ ending' = [ending EXCEPT !.at = "remove"]
        /\ lastQuery' = [lastQuery EXCEPT ![p] = 0]
        /\ lastQuerySkips' = [lastQuerySkips EXCEPT ![p] = 0]
        /\ lastDialog' = [lastDialog EXCEPT ![p] = 0]
        /\ ClearObjects(p)
        /\ pdfStreams' = Without(pdfStreams, {s \in DOMAIN pdfStreams : pdfStreams[s] = p})
        /\ late' = IF pc[p] = "idle" THEN late ELSE late \cup {p}
        /\ UNCHANGED <<sessions, cleaned, ctxCounter, news>>

RemoveSession ==
    /\ ending.at = "remove" /\ ending' = [page |-> NoPage, at |-> "none"]
    /\ sessions' = sessions \ {ending.page}
    /\ UNCHANGED <<cleaned, nodes, queries, lastDialog, pdfStreams, news, late>>

ReaderStep ==
    /\ \/ TakeDialogOpened \/ TakeDialogClosed \/ TakeDetached \/ ClearState \/ RemoveSession
    /\ UNCHANGED <<scenario, pc, h, call, live, made, disposed, dialog, opened, tasks, runs, streams,
                   left, asked>>

Next ==
    \/ ReaderStep
    \/ \E p \in Pages : HandlerStep(p) \/ BrowserStep(p) \/ \E k \in Tasks : StartProgram(p, k)

Spec == Init /\ [][Next]_vars

\* Goroutines run, and calls time out; neither clients nor the browser have to do anything.
FairSpec ==
    /\ Spec
    /\ WF_vars(ReaderStep)
    /\ \A p \in Pages :
          /\ WF_vars(pc[p] # "idle" /\ HandlerStep(p))
          /\ WF_vars(TimesOut(p) /\ BrowserStep(p))

------------------------------------------------------------------------------
(* Properties.                                                              *)

\* The client names objects it was given on its own page alone (and any node id).
KeepsToItsOwn(p) ==
    \A k \in DOMAIN scenario.programs[p] : scenario.programs[p][k] \cap OfAnyObject = {}

\* What such a client holds stays good, whatever objects other clients describe, release or
\* use: no call of it names an object that was released or is of another page, and the node
\* id of an object leads back to it while its page is open (releaseObject spares stored
\* objects, nextCtxID, the owner check of resolveNode).
HandlesWork ==
    \A p \in Pages : KeepsToItsOwn(p) =>
        /\ call[p].result = "sent" /\ call[p].obj # NoObject
             => call[p].obj[1] = p /\ call[p].obj \notin disposed
        /\ \A k \in Tasks :
              LET t == tasks[p][k]
              IN  t.of # NoObject /\ p \notin cleaned
                    => t.node \in DOMAIN nodeObjects /\ nodeObjects[t.node] = [obj |-> t.of, owner |-> p]

OneTask(p) == Cardinality(DOMAIN scenario.programs[p]) = 1

\* The selector remembered for $eval is combined with the function of the $eval that
\* queried it, and no other function of a client that runs its programs in turn is combined
\* or skipped (isPuppeteerInternal and the "count" of Runtime.callFunctionOn), unless the
\* run that left the selector was given up before its function came, or was page.$, after
\* which nothing clears it.
SelectorForItsFunction ==
    [][\A p \in Pages \ cleaned :
          OneTask(p) /\ (Skip(p) \/ Combine(p)) =>
             \/ lastQuery[p] \in left[p]
             \/ /\ lastQuery[p] = Mine(p).run /\ Mine(p).prog = "eval"
                /\ pc[p] = "combine" /\ h[p].cmd = "user"]_vars

\* An open dialog whose event was read, and which no client was told to answer, is the one
\* Page.handleJavaScriptDialog answers, whoever answered the dialogs before it.
DialogKnown ==
    \A p \in sessions \ cleaned :
        /\ dialog[p] # 0 /\ dialog[p] \notin asked[p]
        /\ \A i \in DOMAIN news : news[i] # [kind |-> "opened", page |-> p, dialog |-> dialog[p]]
        => lastDialog[p] = dialog[p]

\* Nothing of a page outlives its session, unless a command of it was still running when
\* its state was cleared: that one may store something afterwards, for good.
CleanedUp ==
    \A p \in Pages \ (sessions \cup late) :
        /\ lastQuery[p] = 0 /\ lastQuerySkips[p] = 0 /\ lastDialog[p] = 0
        /\ p \notin Range(pdfStreams) /\ p \notin Range(objectOwners)
        /\ \A i \in DOMAIN nodeObjects : nodeObjects[i].owner # p

\* Every command is answered, also the one that opens a dialog nobody closes: the
\* client's answer to the dialog waits behind it.
CommandsAnswered == \A p \in Pages : pc[p] # "idle" ~> pc[p] = "idle"
==============================================================================
