-------------------------------- MODULE BiDi --------------------------------
(***************************************************************************)
(* The BiDi adapter (pkg/backend/bidi/client.go): the bridge calls it with  *)
(* Juggler methods, which it turns into one or several WebDriver BiDi       *)
(* commands, and subscribes to Juggler events, which it makes of BiDi ones. *)
(*                                                                          *)
(* Goroutines: the callers, a task for each call, and readLoop.  The wire   *)
(* keeps the order of what the browser sends, but the browser may answer    *)
(* commands in any order.  Of a session the adapter knows nothing but that  *)
(* it is the browsing context's id.  Matching answers to calls is the       *)
(* subject of RpcClient.                                                    *)
(***************************************************************************)
EXTENDS BiDiValues, FiniteSets, SequencesExt

CONSTANTS
    Contexts,       \* browsing contexts: tabs, and the sessions of the bridge
    NoContext,      \* ""
    Realms,
    Tasks,          \* calls of the bridge
    Elements,       \* of the page's array
    Scenarios,      \* what is called and what happens: a behaviour is of one of them
    MaxLength,      \* bound: length of the array, and of a list of cookies
    MaxChanges      \* bound: changes the page makes to the array

\* The realms are a bound, too: there is one for each page that is open in the beginning.
ASSUME BiDiAssumption ==
    /\ NoContext \notin Contexts /\ MaxLength \in Nat /\ MaxChanges \in Nat
    /\ IsFiniteSet(Realms)
    /\ \A sc \in Scenarios :
          /\ sc.open \subseteq Contexts /\ sc.enabled \in BOOLEAN /\ sc.tasks \subseteq Tasks
          /\ Injection(sc.open, Realms) # {}
          /\ sc.commands \subseteq {"enable", "newPage", "close", "navigate", "cookies",
                                    "properties", "call"}
          /\ sc.happens \subseteq {"realms", "workers", "closes", "changes", "failures", "end"}

VARIABLES
    scenario,
    \* the adapter
    subscribed,     \* Client.subscribed
    contextMap,     \* contexts with an entry, each mapped to itself
    realmMap,       \* realm -> context
    closed,         \* Client.done
    task,           \* task -> the call it makes and how far it is
    \* the browser
    listening,      \* has it been asked for events?
    inbox,          \* commands it has not answered
    wire,           \* answers and events the read loop has not taken
    pages,          \* open contexts
    realm,          \* realm -> its state and its context
    array,          \* an array of a page, which the bridge has a handle of
    changes,        \* changes made to it
    jar,            \* task -> cookies of its list that are set, in order
    \* what has been
    began, ended,   \* realm -> sessions its created and destroyed events were given with
    arrays,         \* task -> contents of the array since its call began
    got             \* task -> argument its function got in the page

adapter == <<subscribed, contextMap, realmMap, closed>>
browser == <<listening, pages, realm, array, changes, jar>>
history == <<began, ended, arrays, got>>
vars    == <<scenario, adapter, task, inbox, wire, browser, history>>

Idle == [pc |-> "idle", cmd |-> "none", context |-> NoContext, give |-> Null, n |-> 0, ask |-> "none",
         i |-> 0, length |-> 0, list |-> <<>>, lost |-> FALSE,
         ok |-> FALSE, reply |-> Null, answer |-> Null]

TypeOK ==
    /\ subscribed \in BOOLEAN /\ closed \in BOOLEAN /\ (subscribed => listening)
    /\ contextMap \subseteq Contexts /\ pages \subseteq Contexts
    /\ DOMAIN realmMap \subseteq Realms /\ Range(realmMap) \subseteq Contexts
    /\ \A t \in Tasks :
          /\ task[t].pc \in {"idle", "waits", "ready", "answered", "failed"}
          /\ task[t].i <= task[t].length /\ Len(task[t].list) <= task[t].i
          /\ task[t].pc = "answered" => task[t].i = task[t].length \/ task[t].list = <<>>
    /\ \A m \in inbox : m.n <= task[m.task].n
    /\ Len(array) <= MaxLength

Happens(what) == what \in scenario.happens
Live(r)       == realm[r].state = "live"
Cookies       == 1 .. MaxLength

\* A page is open when the adapter connects or, once enabled, has been announced to it.
Init ==
    /\ scenario \in Scenarios
    /\ LET home  == CHOOSE h \in Injection(scenario.open, Realms) : TRUE
           known == IF scenario.enabled THEN Range(home) ELSE {}
           of(r) == CHOOSE c \in scenario.open : home[c] = r
       IN  /\ realm = [r \in Realms |-> IF r \in Range(home)
                                        THEN [state |-> "live", context |-> of(r), first |-> TRUE]
                                        ELSE [state |-> "none", context |-> NoContext, first |-> FALSE]]
           /\ realmMap = [r \in known |-> of(r)]
           /\ began = [r \in Realms |-> IF r \in known THEN {of(r)} ELSE {}]
    /\ ended = [r \in Realms |-> {}]
    /\ subscribed = scenario.enabled /\ listening = scenario.enabled
    /\ contextMap = (IF scenario.enabled THEN scenario.open ELSE {}) /\ closed = FALSE
    /\ task = [t \in Tasks |-> Idle] /\ inbox = {} /\ wire = <<>>
    /\ pages = scenario.open
    /\ array \in (IF Happens("changes") THEN BoundedSeq(Elements, MaxLength) ELSE {<<>>})
    /\ changes = 0 /\ jar = [t \in Tasks |-> <<>>]
    /\ arrays = [t \in Tasks |-> {}] /\ got = [t \in Tasks |-> Null]

------------------------------------------------------------------------------
(* A call: sendBiDi, and what the handler makes of the answer.              *)

\* A session is resolved by the map and else taken for a context itself.
ResolveContext(session) == session

\* The task, with what it has learned (call), sends its next command.
Asks(t, ask, call) ==
    LET next == [call EXCEPT !.pc = "waits", !.n = @ + 1, !.ask = ask, !.reply = Null]
    IN  /\ task' = [task EXCEPT ![t] = next]
        /\ inbox' = inbox \cup {[task |-> t, n |-> next.n, ask |-> ask,
                                 context |-> ResolveContext(next.context), i |-> next.i]}

Ends(t, pc, call) ==
    task' = [task EXCEPT ![t] = [call EXCEPT !.pc = pc, !.reply = Null]] /\ UNCHANGED inbox

Answers(t, call) == Ends(t, "answered", call)
Fails(t)         == Ends(t, "failed", task[t])

\* callWithContext: what each method asks the browser first.
Calls(t) ==
    /\ t \in scenario.tasks /\ task[t].pc = "idle" /\ ~closed
    /\ \/ /\ "enable" \in scenario.commands
          /\ LET call == [task[t] EXCEPT !.cmd = "enable"]
             IN  IF subscribed THEN Answers(t, call) ELSE Asks(t, "session.new", call)
          /\ UNCHANGED arrays
       \/ /\ "newPage" \in scenario.commands
          /\ Asks(t, "create", [task[t] EXCEPT !.cmd = "newPage"]) /\ UNCHANGED arrays
       \/ \E cmd \in {"close", "navigate"} \cap scenario.commands, c \in Contexts :
             /\ c \in scenario.open \/ \E u \in Tasks : task[u].answer = c
             /\ Asks(t, cmd, [task[t] EXCEPT !.cmd = cmd, !.context = c]) /\ UNCHANGED arrays
       \/ /\ "cookies" \in scenario.commands
          /\ \E n \in Cookies : Asks(t, "setCookie", [task[t] EXCEPT !.cmd = "cookies", !.length = n])
          /\ UNCHANGED arrays
       \/ \E c \in scenario.open :
             /\ "properties" \in scenario.commands
             /\ Asks(t, "length", [task[t] EXCEPT !.cmd = "properties", !.context = c])
             /\ arrays' = [arrays EXCEPT ![t] = {array}]
       \/ \E c \in scenario.open, v \in Arguments :
             /\ "call" \in scenario.commands
             /\ Asks(t, "call", [task[t] EXCEPT !.cmd = "call", !.context = c, !.give = v])
             /\ UNCHANGED arrays
    /\ UNCHANGED <<scenario, adapter, wire, browser, began, ended, got>>

\* handleBrowserEnable: a session.new that fails is taken for a session that exists.
EnableReturns(t, ok) ==
    \/ /\ task[t].ask = "session.new"
       /\ Asks(t, "subscribe", task[t]) /\ UNCHANGED subscribed
    \/ /\ task[t].ask = "subscribe"
       /\ IF ok THEN Answers(t, task[t]) /\ subscribed' = TRUE
                ELSE Fails(t) /\ UNCHANGED subscribed

\* Mutant: the page is noted before the error is looked at.
NotesBeforeError(t, ok, c) ==
    /\ contextMap' = contextMap \cup {c}
    /\ IF ok THEN Answers(t, [task[t] EXCEPT !.answer = c]) ELSE Fails(t)

\* handleBrowserNewPage: the page is noted when the handler comes to it, which may be after its end.
NewPageReturns(t, ok, c) ==
    IF ok THEN Answers(t, [task[t] EXCEPT !.answer = c]) /\ contextMap' = contextMap \cup {c}
          ELSE Fails(t) /\ UNCHANGED contextMap

\* Commands that are one command of BiDi.
OneReturns(t, ok) == IF ok THEN Answers(t, task[t]) ELSE Fails(t)

\* Mutant: a cookie that is refused is skipped.
SkipsCookie(t, ok) ==
    LET call == [task[t] EXCEPT !.i = @ + 1]
    IN  IF call.i = call.length THEN Answers(t, call) ELSE Asks(t, "setCookie", call)

\* handleSetCookies: one after the other, to the first that fails.
CookieReturns(t, ok) ==
    LET call == [task[t] EXCEPT !.i = @ + 1]
    IN  IF ~ok THEN Fails(t)
        ELSE IF call.i = call.length THEN Answers(t, call) ELSE Asks(t, "setCookie", call)

\* Mutant: an element is named by its place in the answer.
NamedByPlace(t, e) == Append(task[t].list, [name |-> Len(task[t].list), value |-> e])

\* An element of the answer has the name of its index.
Named(t, e) == Append(task[t].list, [name |-> task[t].i, value |-> e])

\* handleRuntimeGetObjectProperties: the length, then the elements one by one.  One that cannot
\* be had is left out, and so are all when the length cannot.
LengthReturns(t, ok, n) ==
    IF ~ok \/ n = 0 THEN Answers(t, [task[t] EXCEPT !.lost = ~ok])
    ELSE Asks(t, "element", [task[t] EXCEPT !.length = n])

ElementReturns(t, ok, e) ==
    LET call == IF ok THEN [task[t] EXCEPT !.i = @ + 1, !.list = Named(t, e)]
                      ELSE [task[t] EXCEPT !.i = @ + 1, !.lost = TRUE]
    IN  IF call.i = call.length THEN Answers(t, call) ELSE Asks(t, "element", call)

\* handleRuntimeCallFunction
CallReturns(t, ok, v) ==
    IF ok THEN Answers(t, [task[t] EXCEPT !.answer = TranslateScriptResult(v)]) ELSE Fails(t)

\* The handler has its answer, an error, a deadline that is over or a client that is closed.
Returns(t, ok, value) ==
    /\ \/ task[t].cmd = "enable" /\ EnableReturns(t, ok) /\ UNCHANGED contextMap
       \/ task[t].cmd = "newPage" /\ NewPageReturns(t, ok, value) /\ UNCHANGED subscribed
       \/ /\ \/ task[t].cmd \in {"close", "navigate"} /\ OneReturns(t, ok)
             \/ task[t].cmd = "cookies" /\ CookieReturns(t, ok)
             \/ task[t].ask = "length" /\ LengthReturns(t, ok, value)
             \/ task[t].ask = "element" /\ ElementReturns(t, ok, value)
             \/ task[t].cmd = "call" /\ CallReturns(t, ok, value)
          /\ UNCHANGED <<subscribed, contextMap>>
    /\ UNCHANGED <<realmMap, closed>>

HandlerStep(t) ==
    /\ \/ task[t].pc = "ready" /\ Returns(t, task[t].ok, task[t].reply)
       \/ task[t].pc = "waits" /\ (closed \/ Happens("failures")) /\ Returns(t, FALSE, Null)
    /\ UNCHANGED <<scenario, wire, browser, history>>

------------------------------------------------------------------------------
(* readLoop.                                                                *)

\* The answer to a call that still waits.
TakeReply(m) ==
    /\ m.kind = "reply"
    /\ task' = IF task[m.task].pc = "waits" /\ task[m.task].n = m.n
               THEN [task EXCEPT ![m.task] = [@ EXCEPT !.pc = "ready", !.ok = m.ok, !.reply = m.value]]
               ELSE task
    /\ UNCHANGED <<contextMap, realmMap, began, ended>>

\* onContextCreated and onContextDestroyed: the bridge's attach and detach events.
TakeContextCreated(m) ==
    /\ m.kind = "contextCreated" /\ contextMap' = contextMap \cup {m.context}
    /\ UNCHANGED <<realmMap, task, began, ended>>

TakeContextDestroyed(m) ==
    /\ m.kind = "contextDestroyed" /\ contextMap' = contextMap \ {m.context}
    /\ UNCHANGED <<realmMap, task, began, ended>>

\* onRealmCreated: a worker's realm has no context.
TakeRealmCreated(m) ==
    /\ m.kind = "realmCreated"
    /\ realmMap' = IF m.context = NoContext THEN realmMap
                   ELSE [r \in DOMAIN realmMap \cup {m.realm} |->
                           IF r = m.realm THEN m.context ELSE realmMap[r]]
    /\ began' = [began EXCEPT ![m.realm] = @ \cup {m.context}]
    /\ UNCHANGED <<contextMap, task, ended>>

\* Mutant: the entry is deleted before it is read.
DeletedFirst(r) == NoContext

\* The context of a realm as the adapter knows it: the event does not say.
ContextOf(r) == IF r \in DOMAIN realmMap THEN realmMap[r] ELSE NoContext

\* onRealmDestroyed
TakeRealmDestroyed(m) ==
    /\ m.kind = "realmDestroyed"
    /\ ended' = [ended EXCEPT ![m.realm] = @ \cup {ContextOf(m.realm)}]
    /\ realmMap' = [r \in DOMAIN realmMap \ {m.realm} |-> realmMap[r]]
    /\ UNCHANGED <<contextMap, task, began>>

ReaderStep ==
    /\ ~closed /\ wire # <<>> /\ wire' = Tail(wire)
    /\ LET m == Head(wire)
       IN  \/ TakeReply(m)
           \/ TakeContextCreated(m) \/ TakeContextDestroyed(m)
           \/ TakeRealmCreated(m) \/ TakeRealmDestroyed(m)
    /\ UNCHANGED <<scenario, subscribed, closed, inbox, browser, arrays, got>>

\* The connection ends; so does the client, and the program after it.
ConnectionEnds ==
    /\ Happens("end") /\ ~closed /\ closed' = TRUE
    /\ UNCHANGED <<scenario, subscribed, contextMap, realmMap, task, inbox, wire, browser, history>>

------------------------------------------------------------------------------
(* The browser, as far as the adapter relies on it.                         *)

Reply(m, ok, value) == [kind |-> "reply", task |-> m.task, n |-> m.n, ok |-> ok, value |-> value]
ContextEvent(kind, c)  == [kind |-> kind, context |-> c]
RealmCreated(r, c)     == [kind |-> "realmCreated", realm |-> r, context |-> c]
RealmDestroyed(r)      == [kind |-> "realmDestroyed", realm |-> r]

\* Events are sent to a client that listens.
Events(seq) == IF listening THEN seq ELSE <<>>
RealmsOf(c) == {r \in Realms : Live(r) /\ realm[r].context = c}

\* A realm's id is used once.
Fresh == LET unused == {r \in Realms : realm[r].state = "none"}
         IN  IF unused = {} THEN {} ELSE {CHOOSE r \in unused : TRUE}

\* The page's end, in the orders in which its events may come.
EndsOf(c) ==
    LET realms == [i \in 1 .. Cardinality(RealmsOf(c)) |-> RealmDestroyed(SetToSeq(RealmsOf(c))[i])]
    IN  {realms \o <<ContextEvent("contextDestroyed", c)>>, <<ContextEvent("contextDestroyed", c)>> \o realms}

EndPage(c) ==
    /\ pages' = pages \ {c}
    /\ realm' = [r \in Realms |-> IF r \in RealmsOf(c) THEN [realm[r] EXCEPT !.state = "gone"] ELSE realm[r]]
    /\ UNCHANGED <<listening, array, changes, jar>>

\* A new document: the realm of the old one ends.
NewDocument(c, r) ==
    /\ realm' = [q \in Realms |->
                    IF q \in RealmsOf(c) THEN [realm[q] EXCEPT !.state = "gone"]
                    ELSE IF q = r THEN [state |-> "live", context |-> c, first |-> FALSE]
                    ELSE realm[q]]
    /\ UNCHANGED <<listening, pages, array, changes, jar>>
DocumentEvents(c, r) == [i \in 1 .. Cardinality(RealmsOf(c)) |-> RealmDestroyed(SetToSeq(RealmsOf(c))[i])]
                        \o <<RealmCreated(r, c)>>

ServeSession(m) ==
    \/ /\ m.ask = "session.new" /\ UNCHANGED browser
       /\ \E ok \in BOOLEAN : wire' = Append(wire, Reply(m, ok, Null))
    \/ /\ m.ask = "subscribe" /\ listening' = TRUE
       /\ \E told \in SUBSET {RealmCreated(r, realm[r].context) : r \in {r \in Realms : Live(r)}} :
             wire' = wire \o SetToSeq(told) \o <<Reply(m, TRUE, Null)>>
       /\ UNCHANGED <<pages, realm, array, changes, jar>>

ServeCreate(m) ==
    /\ m.ask = "create"
    /\ \E c \in Contexts \ (pages \cup {realm[r].context : r \in Realms}), r \in Fresh, k \in 1 .. 3 :
          /\ pages' = pages \cup {c}
          /\ realm' = [realm EXCEPT ![r] = [state |-> "live", context |-> c, first |-> FALSE]]
          /\ wire' = wire \o (IF listening
                              THEN InsertAt(<<ContextEvent("contextCreated", c), RealmCreated(r, c)>>,
                                            k, Reply(m, TRUE, c))
                              ELSE <<Reply(m, TRUE, c)>>)
    /\ UNCHANGED <<listening, array, changes, jar>>

ServePage(m) ==
    \/ /\ m.ask = "close" /\ m.context \in pages /\ EndPage(m.context)
       /\ \E ends \in EndsOf(m.context) : wire' = wire \o Events(ends) \o <<Reply(m, TRUE, Null)>>
    \/ /\ m.ask = "navigate" /\ m.context \in pages
       /\ \E r \in Fresh :
             /\ NewDocument(m.context, r)
             /\ wire' = wire \o Events(DocumentEvents(m.context, r)) \o <<Reply(m, TRUE, Null)>>
    \/ /\ m.ask \in {"close", "navigate"}
       /\ m.context \notin pages \/ m.ask = "navigate"
       /\ wire' = Append(wire, Reply(m, FALSE, Null)) /\ UNCHANGED browser

ServeCookie(m) ==
    /\ m.ask = "setCookie"
    /\ \/ jar' = [jar EXCEPT ![m.task] = Append(@, m.i)] /\ wire' = Append(wire, Reply(m, TRUE, Null))
       \/ jar' = jar /\ wire' = Append(wire, Reply(m, FALSE, Null))
    /\ UNCHANGED <<listening, pages, realm, array, changes>>

\* The array is an object of the first document.
ServeArray(m) ==
    /\ m.ask \in {"length", "element"}
    /\ wire' = Append(wire,
          IF ~\E r \in RealmsOf(m.context) : realm[r].first THEN Reply(m, FALSE, Null)
          ELSE IF m.ask = "length" THEN Reply(m, TRUE, Len(array))
          ELSE Reply(m, TRUE, IF m.i < Len(array) THEN array[m.i + 1] ELSE Undefined))
    /\ UNCHANGED browser

\* A function that returns a value, and the argument it gets.
ServeCall(m) ==
    /\ m.ask = "call"
    /\ LET arg == ToBiDiArg(task[m.task].give)
       IN  IF Acceptable(arg)
           THEN /\ got' = [got EXCEPT ![m.task] = Received(arg)]
                /\ \E v \in Values : wire' = Append(wire, Reply(m, TRUE, v))
           ELSE wire' = Append(wire, Reply(m, FALSE, Null)) /\ UNCHANGED got
    /\ UNCHANGED browser

Serve(m) ==
    /\ ~closed /\ inbox' = inbox \ {m}
    /\ \/ /\ \/ ServeSession(m) \/ ServeCreate(m) \/ ServePage(m) \/ ServeCookie(m) \/ ServeArray(m)
          /\ UNCHANGED got
       \/ ServeCall(m)
    /\ UNCHANGED <<scenario, adapter, task, began, ended, arrays>>

\* What happens in the browser of its own.
PageChanges ==
    \/ /\ Happens("changes") /\ changes < MaxChanges /\ changes' = changes + 1
       /\ \/ \E e \in Elements : Len(array) < MaxLength /\ array' = Append(array, e)
          \/ array # <<>> /\ array' = Tail(array)
       /\ arrays' = [t \in Tasks |-> IF task[t].pc = "idle" THEN {} ELSE arrays[t] \cup {array'}]
       /\ UNCHANGED <<listening, pages, realm, jar, wire>>
    \/ \E c \in pages :
          /\ \/ Happens("closes") /\ EndPage(c) /\ \E ends \in EndsOf(c) : wire' = wire \o Events(ends)
             \/ \E r \in Fresh : /\ Happens("realms") /\ NewDocument(c, r)
                                  /\ wire' = wire \o Events(DocumentEvents(c, r))
          /\ UNCHANGED arrays
    \/ \E r \in Realms :
          /\ Happens("workers") /\ realm[r].context = NoContext
          /\ \/ /\ r \in Fresh /\ realm' = [realm EXCEPT ![r].state = "live"]
                /\ wire' = wire \o Events(<<RealmCreated(r, NoContext)>>)
             \/ /\ Live(r) /\ realm' = [realm EXCEPT ![r].state = "gone"]
                /\ wire' = wire \o Events(<<RealmDestroyed(r)>>)
          /\ UNCHANGED <<listening, pages, array, changes, jar, arrays>>

BrowserStep ==
    /\ ~closed /\ PageChanges
    /\ UNCHANGED <<scenario, adapter, task, inbox, began, ended, got>>

Next ==
    \/ \E t \in Tasks : Calls(t) \/ HandlerStep(t)
    \/ ReaderStep \/ ConnectionEnds
    \/ \E m \in inbox : Serve(m)
    \/ BrowserStep

Spec == Init /\ [][Next]_vars

------------------------------------------------------------------------------
(* Properties.                                                              *)

\* The events of a realm, its execution context to the bridge, are given with one session: the
\* end, which does not name it, goes where the beginning went, a worker's to none, and that of
\* a realm the adapter was never told of to none.  What the adapter remembers for that are the
\* realms that began and have not ended: nothing is left of the pages that are gone.
RealmEndsWhereItBegan ==
    /\ \A r \in Realms : ended[r] \subseteq (IF began[r] = {} THEN {NoContext} ELSE began[r])
    /\ DOMAIN realmMap = {r \in Realms : began[r] \notin {{}, {NoContext}} /\ ended[r] = {}}

\* An element that an answer of getObjectProperties lists was at its index of the array at some
\* time of the call, in ascending order of them; none is missing, and none listed twice, if no
\* command failed on the way.  Elements that could not be had do not move the others.
ListTrue(t) ==
    LET list == task[t].list
    IN  /\ \A j \in DOMAIN list :
              \E a \in arrays[t] : IF list[j].name < Len(a) THEN list[j].value = a[list[j].name + 1]
                                   ELSE list[j].value = Undefined
        /\ \A j, k \in DOMAIN list : j < k => list[j].name < list[k].name
        /\ ~task[t].lost /\ Cardinality(arrays[t]) = 1 =>
              [j \in DOMAIN list |-> list[j].value] \in arrays[t]

\* The cookies a call has set are the first of its list, in order, all of them if it succeeds
\* and, if it fails, at most one that it does not know of.
CookiesTrue(t) ==
    /\ \A j \in DOMAIN jar[t] : jar[t][j] = j - 1
    /\ Len(jar[t]) \in task[t].i .. task[t].i + 1
    /\ task[t].pc = "answered" => Len(jar[t]) = task[t].length

\* A Juggler call that is several commands of BiDi answers what they did, whichever of them
\* failed and whatever happened between them.
AnswersTrue ==
    \A t \in Tasks :
        /\ task[t].cmd = "properties" /\ task[t].pc = "answered" => ListTrue(t)
        /\ task[t].cmd = "cookies" => CookiesTrue(t)

\* A call that succeeds returned the page's value, if JSON holds it, and gave its function the
\* client's argument; an array or object argument makes it fail, but for the empty array, which
\* the function gets as an object.
ValuesSurvive ==
    \A t \in Tasks :
        /\ task[t].cmd = "call" /\ task[t].pc = "ready" /\ task[t].ok /\ IsData[task[t].reply] =>
              TranslateScriptResult(task[t].reply) = Data[task[t].reply]
        /\ task[t].cmd = "call" /\ task[t].pc = "answered" =>
              got[t] = IF task[t].give = Of("array", <<>>) THEN Of("object", <<>>) ELSE task[t].give
=============================================================================
