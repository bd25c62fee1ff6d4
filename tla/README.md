# Formal models of foxbridge

foxbridge is a proxy in Go: CDP clients (Puppeteer, Playwright) connect to it over
WebSocket, and it drives a Firefox through Juggler (a pipe) or WebDriver BiDi (a
WebSocket). This directory holds TLA+ modules of its concurrent core, the TLC
configurations that check them on small instances, and proofs that TLAPS checks.

Contents: [the system](#the-system) · [plan](#plan) · [Ownership](#ownership) ·
[Lease](#lease) · [RpcClient](#rpcclient) · [Fetch](#fetch) · [Contexts](#contexts) ·
[Handles](#handles) · [Proxy](#proxy) · [BiDi](#bidi) · [runs](#runs) · [proofs](#proofs) ·
[what the models leave out](#what-the-models-leave-out) · [findings](#findings)

## The system

```
 client --ws--> cdp.Server.handleWS ---> Bridge.HandleMessage ---> backend.Call --pipe/ws--> Firefox
 client <--ws-- Connection.Send <------- Bridge.emitEvent <------- readLoop handlers <------ Firefox
```

Three kinds of goroutine meet in the bridge.

* One **handler** per connection (`handleWS`) reads a frame, runs the whole command and
  answers it before it reads the next one.
* One **close hook** per connection (`Connection.close`, once) runs when the handler's
  read fails, or on the goroutine that shuts the server down, while a command of that
  connection may still be running.
* The **read loop** of the backend client hands answers to the calls that wait for them
  and runs every event handler itself, one after the other. While a handler runs no
  answer is read.

All per-page state is in maps of `Bridge`, each under a lock of its own, and no lock is
held across an operation.

| component | state it keeps | operations | interacts with | what is hard | correct when |
|---|---|---|---|---|---|
| ownership registry (`ownership.go`) | connections, records of pages, creates in progress, claims, cancelled targets, browser sessions, request owners | beginCreate, claimTarget, expireClaim, cancelTarget, registerPair, beginCleanup, remove, closeConnection | all of the bridge | each operation is atomic, no sequence of them is; attach event, reply and disconnect in any order | no page for a client that is gone; a record is cleaned up once, and not forgotten |
| target domain and events (`target.go`, `events.go`, `bridge.go`) | pairs, pending queue, attached flags, sessions | createTarget, closeTarget, attachToTarget, setAutoAttach, setDiscoverTargets, attach and detach handlers, publishOwnedPair, closeRecord | registry, session manager, server, backend | the same page published and closed by three goroutines | announced once and in order; nothing left of a closed page |
| RPC client (`juggler/client.go`, `bidi/client.go`) | next id, pending map, done channel, event handlers | Call, Close, readLoop | transport, all callers, event handlers | answers racing timeouts and Close; a handler that calls | every call returns; the loop never blocks |
| Fetch (`fetch.go`, `network.go`) | patterns per session, the backend's switch, owners of requests | enable, disable, continue, fail, fulfill, the intercepted events | registry, RPC client, closeRecord | switch computed before it is sent; requests paused when the patterns go | the backend intercepts while somebody wants it; a paused request is resumed once |
| contexts (`runtime.go`, `events.go`) | numeric id to context, its owner, latest context, isolated worlds | evaluate, callFunctionOn, Runtime.enable, createIsolatedWorld, the context events | session manager, closeRecord | several numbers for one context, contexts reported before their session | the latest context is the newest; a command runs in a context of its own session |
| frames (`page.go`, `events.go`, `bridge.go`) | main frame per session, buffered ids, subframes | navigate, reload, setContent, getFrameTree, frame events | session manager | ids before the session, frames replaced without notice | the cached main frame is the page's; a navigation that was waited for has happened |
| handles (`dom.go`, `runtime.go`) | node ids, owners of objects, the selector remembered for `$eval` | describeNode, resolveNode, callFunctionOn, releaseObject | closeRecord | one client's tasks share them | what a client holds stays good and goes with its page |
| dialogs, streams (`page.go`, `io.go`) | dialog id per session, PDF streams | handleJavaScriptDialog, printToPDF, read, close | dialog events, closeRecord | a command blocked by a dialog | an open dialog can be answered |
| session manager (`cdp/session.go`) | three indexes over sessions | Add, Remove, Get* | everything | indexes overlap | indexes agree |
| CDP server (`cdp/server.go`) | connections, the http server | Start, Shutdown, Close, handleWS, Send, Broadcast | bridge, recorder | shutdown races with accept | every connection's hook runs once |
| recorder, replay (`pkg/recording`) | sequence number, file; position per client | Record, handleWS | server | order of frames | a recording replays |
| process, main (`firefox/process.go`, `cmd/foxbridge`) | command, client, waited flag | Start, Stop, Wait; start-up and shutdown | RPC client, server, recorder | Stop and Wait at once | the browser does not outlive the program, which ends |
| BiDi adapter (`bidi/client.go`) | subscribed flag, context map, realm map | every Juggler method as BiDi commands, BiDi events as Juggler ones | RPC client, bridge | several commands for one call, events that say less | answers are true; a realm's end reaches the session of its beginning |
| accessibility, input, emulation, CSS, storage, performance, console, stubs, doctor, command line | none | one command, one call | RPC client | translation only | - |

`PROJECT.json` lists the components with their status, and the hazards of this code at
the line where each bites, with the properties that watch them.

## Plan

1. **Ownership**, with **Lease** as what it promises: done. It is the state that every
   other component consults and the one all goroutines share.
2. **RpcClient**: done. It is what "the read loop is busy" means to everything else.
3. **Fetch**: done.
4. **Contexts**: frames and execution contexts of a page's life, against its client's
   commands and its cleanup: done.
5. **Handles**: what clients keep between commands: done.
6. **Proxy**: start, stop, connections, recording and replay: done.
7. **BiDi** with **BiDiValues**: the second backend: done.
8. **Proofs**: every invariant the passing runs check, the refinement of Lease and the two
   action properties: done. What is left to TLC is liveness.

## Ownership

`Ownership.tla` models `ownership.go`, the Target domain of the browser session, the two
target events and the functions of `bridge.go` they share. A step is one critical
section, one backend call, or one send.

| TLA+ | code |
|---|---|
| `closed`, `discover`, `autoAttach` | `connectionState` of each connection |
| `pending`, `claim`, `cancelledTargets` | the maps of those names |
| `state`, `owner`, `cancelled`, `cleaned` | the `targetRecord` of each page; `"none"` before `registerPair`; the maps hold it exactly while `Registered` |
| `sessions`, `ghosts` | pages whose tab and page session are in the `SessionManager`; pages with a session made by `attachToTarget` |
| `pairs`, `parked`, `attachedRoot` | `autoAttachState.pairs` and `.pending`, `pageAttachedRoot` |
| `pc`, `op`, `cur`, `own`, `todo` | of each goroutine: the next statement, the operation, the page in hand, the owner it read, what is left of a loop |
| `page`, `told` | the browser: the page's life, and the last target event about it the read loop took |
| `createdBy`, `sent`, `bare`, `late` | history, for the properties only; `late` has the pages whose `Page.close` ended without the read loop while that loop was between storing the record and the pair |

`HandlerStep(c)` has one disjunct per statement of `createTarget`, of the two loops, of
`attachToTarget`, `publishOwnedPair` and `closeRecord`; `CloserStep(c)` is
`ConnectionClosed` after `closeConnection`; `ReaderStep` is the two event handlers.
`op` tells a shared function who called it: `AfterClose`, `AfterPublish` and
`CleanupStart` are the three places where that matters.

Decisions a reader should know of:

* *Answers need the read loop.* A call that is in progress ends when the loop is idle
  (`Answered`), or with an error or a timeout (`Fails`). A call made by the loop itself
  can only fail: nobody reads its answer.
* *`disableFetchIfUnused`* changes nothing modelled here and is no step.
* *Generations* of creates are left out. A target's ID is returned to one create only, so
  the claim of a target always has the generation its timer asks for.
* *A closed connection* may still run commands: the server's `Shutdown` and `Close` run
  the close hook beside a busy handler, and frames already buffered are read after the
  socket is closed. `Shutdown` allows it. foxbridge's `main` never calls them; users of
  the package do.
* *The nil connection* of direct unit calls is left out, and with it
  `autoAttach.enabled`, which only it sets.
* *A popup* opens when its opener is live and its own attach event is handled; its
  `openerId` is the opener's target.

## Lease

`Lease.tla` is what ownership promises: a page is leased to at most one connection over
its whole life, to none that is gone, and a lease being released is never given back.
`Ownership` implements it with `phase <- state`, `holder <- owner`, `gone <- closed`
(`LeaseSpec`), where every page comes from `createTarget`. With popups it does not: see
the first finding.

## RpcClient

`RpcClient.tla` models `CallWithContext`, `readLoop` and `Close`. `pending`, `chan` and
`done` are the fields of those names (a channel per call with room for one answer);
`loopAt` and `hand` are the read loop, which is also a caller (`Loop`) while it runs an
event handler; `wire`, `asked` and `events` are the browser, which answers each request
at most once, in any order. A `select` with several ready cases takes any of them.
Closing the client is two steps, the channel and the transport.

## Fetch

`Fetch.tla` models `fetch.go`, the request events of `events.go`, the request owners of
`ownership.go`, and what `closeRecord` and `ConnectionClosed` do to them. The browser
intercepts per browser context while clients ask per page, so the bridge keeps the
patterns, drives one switch and resumes what nobody asked for. Pages are as `Ownership`
leaves them once published; of a page's life only its end is repeated here, with the same
steps (`BeginCleanup` ... `Remove`).

| TLA+ | code |
|---|---|
| `fetchPatterns`, `requestOwners` | the maps of those names; `NoPatterns` and `NoSession` for no entry |
| `state`, `cleaned`, `sessions`, `closed` | as in `Ownership`, by session instead of page |
| `cur`, `rq`, `want`, `on` | of each goroutine: its session, request, the patterns to set, the value of the switch it computed |
| `resumers` | goroutines started by `go func() { b.continueFetchRequest(...) }` |
| `switch`, `request`, `caught`, `byFrame`, `news`, `failures` | the browser: interception per context, the life of each request, events under way |
| `paused`, `asked` | history: requests announced to a client, requests whose session had patterns |

`FetchStep` has the statements of `handleFetch`: `Fetch.disable` clears the patterns, reads
whether any are left and sends that in three steps, `Fetch.enable` sets them before its
call and clears them when the call fails. `continueRequest`, `fulfillRequest`,
`failRequest` and `continueResponse` are one path (`RequestOwned`, `ActCall`,
`ActReturns`), since they differ in what they send. A request's events and those of its
page's end are read in the order they happened, as the pipe keeps it.

`Matching` says which requests a set of patterns selects; the characters of URL
wildcards are not modelled. A browser reports an intercepted request
in `Network.requestWillBeSent`, or, older ones, in `Browser.requestIntercepted`
(`Older`); the second path has no test whether the page enabled Fetch, so
`OnlyEnabledArePaused` speaks of the first. What is not constrained: after
`Fetch.disable` a paused request is the client's to answer, and a `Fetch.enable` that
loses a race with its page's cleanup leaves its patterns behind.

## Contexts

`Contexts.tla` models the caches by which the bridge finds the main frame and the execution
context of a page (`bridge.go`), the events that fill them (`events.go`), and the commands that
read them (`page.go`, `runtime.go`). Clients know them by the names the bridge told them; into the
call the bridge puts what it remembers. A context is `<<page, frame, document>>`, so that a
property can say which document a command went to.

| TLA+ | code |
|---|---|
| `sessions`, `frameID`, `pendingFrameIDs`, `subFrames` | the session manager's entry and its `FrameID`, and the maps of those names |
| `latestCtx`, `isolatedWorlds`, `ctxCounter` | the fields of those names |
| `ctxMap`, `ctxUniqueOwners` | `ctxMap` with `ctxOwners`, and the world a number was announced for; `ctxUniqueOwners` |
| `pc`, `h` | the handler of each page's client: next statement, command and what it has read |
| `ev` | the read loop: the event in hand, the number it allocated, worlds left to announce |
| `enabling` | the goroutine that `Runtime.enable` starts |
| `page`, `mainFrame`, `subs`, `docs`, `live`, `navs`, `inbox`, `queue` | the browser: what there is, calls it has not served, what it has written |
| `named` | what `Page.getFrameTree` told the client the main frame is called |
| `newest`, `reEmitted` | history |

`HandlerStep(p)` has one disjunct per statement of the commands; `ReaderStep` one per event
and, where the critical sections of an event handler can be told apart, one for each:
`executionContextCreated` takes a number, stores what it leads to, the latest context and the
owner of the unique id, reads the isolated worlds, then numbers each of them;
`executionContextDestroyed` looks for a number and drops it. The sections of a cleanup
(`ClearState`), and of a frame noted and what follows it, are of different maps and make one step.

`Runtime.evaluate` and `Runtime.callFunctionOn` take three steps before their call. `Ask` is the
check: the client gives a unique id or a number, of either page's contexts, made or not, forgotten
or the one that will be given next (`uniqueIds`, `0 .. NextCtxID`), and what nobody owns passes.
`LookUp` is what the number leads to by then, `ChooseContext` the preference for the latest
context. `unowned`, in the handler's `h`, is history: the name had no owner when it was checked,
and the latest context has not taken its place. `OwnContext` excepts it, because such a command
does reach another page (see [below](#seen-in-the-models)).

On Juggler a navigation is accepted, commits with its frame replaced or not, told of by
`Page.frameDetached` or not, and its contexts may be reported before or after the commit; the
frame and context of a page may be reported before its target is. On BiDi a frame keeps its id
and the adapter makes its own events: `Page.navigationCommitted` of
`browsingContext.navigationStarted`, that is before the document changes and also for a navigation
that never commits (`NavigationStarts`, after which `Commits` may follow), and the ends and
beginnings of contexts when it commits.

`NavigatesForward` is what the wait in `Page.navigate` is for: the answer means that the
document has changed. It excepts a document that was not yet read from the browser when the
call was made, and the context of an iframe that is created during the wait: both end it, and
both were found by TLC. `LatestIsLive` is the second finding's property; `LatestIsNewest` is
what the code does keep.

Left out, because nothing the properties speak of depends on it: loader ids and the lifecycle
events a client is sent, the comparison of URLs in `sameDocumentNavigation` (the command
`"fragment"` is a navigation that commits nothing), navigations of iframes by the client, what a
call does after its caller gave up, the unique ids of isolated worlds. Of `about:blank` only the
early return of `Page.navigationCommitted` is there, as a choice; on BiDi iframes are left out.
`pendingContextClear` is written and never read, though the docs have isolated worlds announced
again only when it is set. `isolatedWorlds` grows with every `createIsolatedWorld`, duplicates
included.

## Handles

`Handles.tla` models what a client holds on to between its commands, with the Juggler backend:
node ids and objects, the selector remembered for `$eval`, dialogs, PDF streams. The client has
tasks, each of which runs Puppeteer's programs (`Programs`): the commands that the Puppeteer of
`node_modules/puppeteer-core` sends for `page.$`, `page.$$eval`, `elementHandle.click` and so on. The
handler runs one command at a time, so tasks interleave between commands and the read loop and the
browser within them. Other clients may do what they like with any object there is, of whichever
page, described or not (`OfAnyObject`: call a function on it, release it, describe and resolve it,
focus it and read its properties, give it files). The code refuses an object that is another
session's in the first two only, and knows an owner for those only that were described or queried.

| TLA+ | code |
|---|---|
| `nodeObjects`, `objectOwners` | `nodeObjects` with `nodeOwners`, and `objectOwners` |
| `lastQuery`, `lastQuerySkips` | the maps of those names; a selector is known by the run of the program it came from |
| `lastDialog`, `pdfStreams` | `lastDialog`; `pdfStreams` with `pdfOwners` |
| `pc`, `h`, `call` | each handler, its command, and its call of the backend with what came of it |
| `ending` | the read loop between the statements of `closeRecord` |
| `live`, `made`, `disposed`, `dialog`, `opened`, `news` | the browser |
| `tasks`, `runs`, `streams` | the client; streams are handed out under the time, taken to be unique |
| `left`, `late`, `asked` | history: runs given up, and those of `page.$`; pages whose handler was busy at their cleanup; dialogs a client answered |

Commands that differ only in what they ask of an object are one operator (`UseObject`); that
`getBoxModel`, `getContentQuads`, `focus` and `describeNode` answer something made up when the
call failed is `UseReturns` and `DescribeReturns`.

`HandlesWork` speaks of the clients that keep to their own objects (`KeepsToItsOwn`), beside
others that do not.

`SelectorForItsFunction` is about the heuristic of `callFunctionOn`: the function after a query is
combined with the query's selector unless it is one of Puppeteer's own (`isPuppeteerInternal`).
Both `$$` and `$$eval`, which begins with `this.$$` (`ElementHandle.ts:573`), call such functions
next (`HandleIterator.ts:28`, `:72`), and these clear the selector; so it is `$eval` alone whose
function is combined, and the three calls to skip that the bridge counts for a
`cssQuerySelectorAll` (two, in the comment at `runtime.go:239`) are never skipped, but after a
`$$` that was given up before those calls. The property excepts runs given up, and `page.$`: no
function of Puppeteer's follows that query, the selector stays, and the next `page.evaluate` is
combined with it. It is about clients that run one program after the other; two `$eval` at once
mix their selectors.

What the model shows beside its properties: an evaluation that opens a dialog blocks the handler,
so the client's own answer waits for the call's timeout (`openclaw.mdx:85` lists alert, confirm
and prompt as working); `handleJavaScriptDialog` forgets the dialog's id before its call, so a call
that fails cannot be repeated (`asked`); `Page.dialogClosed` leaves the id; node ids from
`DOM.querySelector` lead to nothing, and `resolveNode` answers the document for them;
`describeNode` takes an object over from another session; a command still running when its page
is cleaned up may store something that nothing removes (`late`).

## Proxy

`Proxy.tla` models the program around the bridge: `main` and the process, the connections of the
CDP server, the recorder and the replay server.

| TLA+ | code |
|---|---|
| `main`, `waiter`, `exited` | `main`, its goroutine of `proc.Wait`, and how the program ended: `log.Fatalf` runs no deferred call |
| `browser`, `waited` | the process and `Process.waited` |
| `serving`, `conns`, `snapshot`, `closer` | `Server.Start`, `Server.conns`, and `Close` or `Shutdown` with what it has still to close |
| `handler`, `once`, `hooks`, `open`, `writer` | of each connection: `handleWS`, `closeOnce`, how often the hook ran, the socket, `writeMu` |
| `emitting`, `events` | the read loop in `Broadcast` |
| `sent`, `got` | the client |
| `recording`, `file`, `replay` | the recorder, its file, and a replay of it to the same client |

`Stop` holds the mutex while it asks the browser to close and until the process has ended, so it
is `Stop` and `Reap`, with `Kill` between; `Wait` takes the mutex before and after. `HookOnce`
relates the two ways a connection is closed, `ReplayServes` the order in which a recording is
made to the order in which it is read.

What the model shows beside its properties: a connection that is upgraded and not yet registered
is missed by `Close` and `Shutdown`; `main` calls neither; `log.Fatalf` leaves the browser
running; an event is written before it is recorded, so that a client that sends a command on
account of an event stalls in a replay where the command comes first; frames of several clients
are recorded into one file, which replays for none of them (the run records one). Not modelled:
a second `Server.Start` removes the socket of the first before it finds out
(`server.go:230`); `Close` before `Start` has set the server does nothing; a client that does not
read blocks its writer for good.

## BiDi

`BiDi.tla` models the adapter that answers Juggler calls with BiDi commands and makes Juggler
events of BiDi events; `BiDiValues.tla` the values it translates. Matching answers to calls is
the same code as in `RpcClient` and not repeated.

| TLA+ | code |
|---|---|
| `subscribed`, `contextMap`, `realmMap`, `closed` | the fields of `Client`; a context is mapped to itself |
| `task` | each call: its handler's next statement, the command it waits for, what it has put together |
| `listening`, `pages`, `realm`, `array`, `jar` | the browser: whether it was asked for events, its pages, their realms, an array and the cookies it has set for each call |
| `inbox`, `wire` | commands, answered in any order; answers and events, read in the order written |
| `began`, `ended`, `arrays`, `got` | history |

`RealmEndsWhereItBegan`: the event of a realm's end does not say whose it was, so the adapter
remembers; it also says that nothing else is remembered. `AnswersTrue`: `getObjectProperties` is
one command for the length and one for each element, `setCookies` one for each cookie.
`ValuesSurvive` compares the recursive translation with what the value is (`Data`) over all values
whose lists and objects have up to two members, nested up to `Depth`. What it leaves out is what
gets lost: `NaN` and `Infinity` arrive as 0, `undefined`
inside a value as null, a set as null, and keys of maps that are not strings as `""`. An array or
object argument is sent in a form that BiDi does not accept, so that the call fails, and an empty
array arrives as an object; that rests on `script.LocalValue` as the browser reads it
(`Acceptable`, external).

Left out: mouse and keyboard actions, headers, screenshots, PDF and dialogs, each a command or
two with nothing kept between; the handlers of intercepted requests; network and console events.
`disposeObject` does nothing, and `executionContextId` and `dialogId` are ignored.

## Runs

| run | instance | shows |
|---|---|---|
| `own_pages` | 1 connection, a page and its popup, all commands, failing calls | `TypeOK`, `ClosingHasCloser`, `NothingLeft`, `AnnouncedInOrder` |
| `own_clients` | 2 connections, 1 page, failing calls, shutdown | `OwnerLive`, implements `Lease` |
| `own_live` | 1 connection, a page and its popup, create/close/auto-attach, no failures, fair | `ClosingCompletes`, `ReleasedOnDisconnect`, `OwnedIsAttached` |
| `own_popup` | as small as the finding allows, fair | the first finding |
| `rpc` | 2 goroutines and the loop, 3 calls, 1 event, fair | `TypeOK`, `PendingMatchesCalls`, `CallsReturn`, `LoopGoesOn` |
| `rpc_self_call` | the same, safety only | the third finding |
| `fetch` | 1 connection, 2 pages of one context, 1 request, patterns that select it and that do not, both event paths, failing calls, fair | `TypeOK`, `AnswerableWhilePaused`, `OnlyEnabledArePaused`, `SoleClientIntercepts`, `HeldIsAnswered` |
| `contexts` | 7 scenarios of one page, or two, over 2 documents, 2 main frames, an iframe, an isolated world, contexts named by unique id or by any number so far; both backends, failing calls, fair | `TypeOK`, `FramesAgree`, `LatestIsNewest`, `OwnContext`, `WorldsFollow`, `NavigatesForward`, `CommandsEnd` |
| `contexts_latest` | the scenario with iframes | the second finding |
| `handles` | 6 scenarios of one client, or of one and another that names any object, with up to 5 programs in 2 tasks, 2 objects, 2 dialogs; failing calls, ends of pages, fair | `TypeOK`, `HandlesWork`, `DialogKnown`, `CleanedUp`, `SelectorForItsFunction`, `CommandsAnswered` |
| `proxy` | 3 scenarios: the program alone with failures, 2 clients and a server that closes, 1 client recorded; 2 commands, 2 events; fair | `TypeOK`, `HookOnce`, `BrowserStopped`, `ReplayServes`, `ProgramEnds` |
| `bidi` | 5 scenarios: 2 tasks, 2 contexts, 3 realms, arrays and cookies up to 2, all values of depth 2 | `TypeOK`, `RealmEndsWhereItBegan`, `AnswersTrue`, `ValuesSurvive` |

**Bounds.** `Commands` is the set of commands clients send; nothing else bounds how many
they send, and every run explores its whole state space. Two pages are enough for a page
and its popup, and every property is about one page and the goroutines that hold it; two
connections are enough for one that leaves while another owns or claims. A page appears
once, as target IDs are unique. In `RpcClient`, `MaxCalls` bounds `nextID` and
`MaxEvents` the events: three calls let an answer that came late meet a call in progress
and a call of the loop. In `Fetch` the second page is there to be enabled, disabled and
closed beside the one that makes the request; properties are about one request.
`SoleClientIntercepts` is stated for one client and open pages because with two clients,
or a page that ends, it is false (see [below](#seen-in-the-models)).

`Contexts`, `Handles`, `Proxy` and `BiDi` take a set of *scenarios*: who sends which commands, and
what else happens. A behaviour is of one scenario, and a run explores all of them; each puts
together the operations that share state. `MaxQueue` is how much the browser has written before it
starts something new: 0 in `contexts`, where everything one step of the browser writes (up to six
events) and the answers of all calls may still wait. Two documents are enough for a navigation
that one may take for the other; two objects for one that is stored and one that is not; five
programs for a query that is given up, another in its place, and functions that find what is left;
two dialogs for one that replaces another; two elements for an index to be wrong; three realms for
two documents of a page and a worker. The unique ids that clients give in `contexts` are those of
their pages' first documents, the numbers all there are by then. `MaxIds` bounds the numbers given
when a client asks for its context anew. `MaxIds`, `MaxWorlds`, `MaxRuns`, `MaxObjects`,
`MaxDialogs`, `MaxCommands`, `MaxEvents`, `MaxLength`, `MaxChanges` and `Depth` are the other
bounds, each named in its module. `Depth` is how deep the values nest that cross the BiDi adapter:
at 2 an element of an element has gone through both the translation and its recursion. The array
of a page has any length up to `MaxLength` from the beginning. `Realms` bounds the realms a
browser makes, and holds one for each page that is open in the beginning, since such a page has a
document.

**Deadlock** is not checked: clients may stop sending and connections never come back, so
the system may stop anywhere. That goroutines do not wait for each other for ever is
`ClosingCompletes`, `CallsReturn`, `LoopGoesOn`, `CommandsEnd`, `CommandsAnswered` and
`ProgramEnds`.

**Fairness.** Weak fairness of each handler, of each close hook and of the read loop:
they are goroutines with something to do, and the Go scheduler runs them. Weak fairness
of `ExpireClaim`: a timer fires. Of calls: `Call` has a deadline of 30 seconds. No
client has to send or to leave, no page has to close, and the browser of `RpcClient`
need not answer. In `Fetch` also each goroutine that resumes a request: it is running
already. Its call takes effect if the browser knows the request and its page, also where
other calls fail; a dead browser holds no requests. `own_live` sets `BackendFails` to
FALSE, so there the browser does what it is asked: a page whose `Page.close` failed is
not closed by anybody, and that is the code. In `Contexts` and `Handles` a handler that is in
the middle of a command goes on, and a call ends, by an answer or by its timeout
(`BrowserServes` may fail any call; `TimesOut`). In `Proxy` main goes on where it can, a
process that was killed ends, and `Stop` kills one that does not end within its five seconds;
a browser that is asked to close need not. Goroutines started by `Runtime.enable` need no
fairness: no property waits for them. `BiDi` has none: that its calls return is `CallsReturn`.

Every property of a passing run has a mutant in `PROJECT.json`: an operator that changes
the model as a plausible bug would, under which TLC finds that property violated.

## Proofs

Each theorem holds for every value of the constants that the module's assumption allows.
The assumptions say what the constants are (bounds are numbers, the values that stand for
"none" are not in the sets they stand beside, scenarios name known programs and clients) and
that `Clients` (Proxy), `Conns` (Fetch), `Tasks` (Handles), `Subs` (Contexts) and `Realms` (BiDi),
whose members a property counts or the browser lists in some order, are finite. In BiDi there is a
realm for each page that a scenario begins with. One theorem assumes more, and says so:
`LeaseHolds`.

| module | theorems | property |
|---|---|---|
| `OwnershipProofs` | `TypeCorrect`, `OwnersAreLive`, `LeaseHolds` | `TypeOK`, `OwnerLive`, `LeaseSpec` |
| | `ClosersFound`, `NothingStays`, `EventsInOrder` | `ClosingHasCloser`, `NothingLeft`, `AnnouncedInOrder` |
| `RpcClientProofs` | `TypeCorrect`, `PendingAgrees`, `DeliveryRoom` | `TypeOK`, `PendingMatchesCalls`, - |
| `FetchProofs` | `TypeCorrect`, `AskedBefore`, `PausedAnswerable`, `SoleIntercepts` | `TypeOK`, `OnlyEnabledArePaused`, `AnswerableWhilePaused`, `SoleClientIntercepts` |
| `ContextsProofs` | `TypeCorrect`, `ContextsOwn`, `NewestKnown`, `WorldsStay`, `MainKnown`, `GoesForward` | `TypeOK`, `OwnContext`, `LatestIsNewest`, `WorldsFollow`, `FramesAgree`, `NavigatesForward` |
| `HandlesProofs` | `TypeCorrect`, `StateGone`, `DialogReached` | `TypeOK`, `CleanedUp`, `DialogKnown` |
| `HeldProofs` | `HandlesStay`, `SelectorsMatch` | `HandlesWork`, `SelectorForItsFunction` |
| `ProxyProofs` | `TypeCorrect`, `ProcessReaped`, `HooksOnce`, `WritersTakeTurns`, `RecordReplays` | `TypeOK`, `BrowserStopped`, `HookOnce`, -, `ReplayServes` |
| `BiDiProofs` | `TypeCorrect`, `RealmsEnd`, `AnswersTold`, `ValuesReturn` | `TypeOK`, `RealmEndsWhereItBegan`, `AnswersTrue`, `ValuesSurvive` |

Hardly a property is inductive as it stands. What each invariant adds is the argument for
the property, and most of it says where a goroutine may be.

### OwnershipProofs

* `TypeCorrect`. `cur` may be `NoTarget`, and most steps use it as an index, so the invariant
  `Typed` adds `CurOK`: a goroutine at a counter of `HasPage` has a page in hand. It is split
  in `Control` (the goroutines) and `Data` (the rest), and `Control` is kept by a lemma for
  each way a goroutine moves (`GotoTyped`, `LeaveTyped`, `StartTyped`, `OwnTyped`), so that
  each action needs only its own definition.
* `OwnersAreLive`. The read loop reads the opener's owner in one step and registers the page
  in the next, so the invariant `Held` adds `ReaderOwn`: for a page without opener it has
  read no owner. `HeldQuiet` covers every step that leaves owners, claims and closed
  connections alone; what remains is `ClaimTarget`, `CancelTarget`, `RegisterPair`,
  `CloseConnection` and `ExpireClaim`.
* `LeaseHolds`: `Spec => LeaseSpec`, assuming that no page has an opener (with popups it
  is false, the first finding). A step of `Lease` must know how far the record has come
  while the code only looks at it: `beginCleanup` refuses a cleaned or closed record and
  opens no other, `remove` closes what it is given. `Tracked` says what a goroutine's
  counter tells of the record it holds (it exists; its cleanup has begun; it does not
  exist yet, for the read loop before `registerPair`) and `ToldFirst` that a page without
  attach event has no record. `Stable` is what every step but `RegisterPair` keeps of the
  records of others, and `MoveOn` and `TakeUp` are the two ways the mover keeps its own.
  The lemmas `Lease...` then give the step of `Lease` for each action.
* `ClosersFound`. `beginCleanup` turns a goroutine away from a record whose cleanup has begun,
  so that it leaves the record to another. That there is another is `Ending`: who is past
  `beginCleanup` works on a record that is marked and closing (`Marked`), alone
  (`OneCleaner`); a marked record is removed or has such a goroutine (`Cleaned`); and one
  that is closing and unmarked was handed to somebody (`Handed`), the close hook's own list
  included (`Queued`).
* `NothingStays`. `Cleared` closes two windows. The sessions of a page are added before its
  record is registered (`Ready`), so that a record that is open has them (`Opened`). And the
  read loop may still be storing or parking the pair of a page (`Storing`) that another
  goroutine has begun to close: that one waits for a reply of the backend before it removes
  anything, and the reply is read by the same loop. If it goes on without a reply, because the call
  failed or timed out, the page is `late` from that step on; no pair is being stored of any other page
  that is past it (`BeingStored`). So the theorem speaks of the pairs of all closed pages but these.
* `EventsInOrder`. Four paths publish a page, and each tests whether to send before it sends.
  `Ordered` has: which path a goroutine is on, by its counter (`Courses`); that one thread alone
  is between setting `pageAttachedRoot` and sending (`AttachedOnce`); that a cleanup whose end was
  sent is past announcing it (`DestroyedOnce`); and, for each counter of `publishOwnedPair`, what
  the connection has been told by then (`Sending`), which also needs that a connection with
  auto-attach and no discovery asked for just that (`Bare`).

### RpcClientProofs

`Agree` is `Typed` (a caller at work has an id, and only one at work), ids are taken from the
counter (`Issued`) and two calls never have the same (`Distinct`); an id is pending, in the
loop's hand or in its channel, in at most one of them (`OnePlace`), and in one of them while
its call waits (`Reachable`); until `Close`, what is pending has its call (`NoOrphan`).
`DeliveryRoom` follows: the channel that the loop writes to, with its room for one answer,
is empty, whoever has given up. After `Close` the pending map is not cleaned by anybody and
nothing is claimed of it.

### FetchProofs

* `AskedBefore` and `PausedAnswerable` rest on `RequestsSafe`: what the loop has in hand is a
  request made, with the session of its page (`Reading`); patterns are there only for a
  session that enabled Fetch, at every counter of the event's handler (`Asked`); a request has
  no owner but the session it comes from, and what was announced, or is about to be, has that
  owner while it waits and its page is open (`Owned`); a cleanup is of a page that is
  not open (`Cleaning`), so that `removeRequestOwners` touches no other page's requests.
* `SoleIntercepts`: `Intercepting` says that the switch of every session with patterns is on,
  but for the one whose `Fetch.enable` is under way, and that `Fetch.disable`, between
  computing the value and sending it, has the value that the patterns still give. Only that
  no other goroutine runs makes this so (`Undisturbed`).

### ContextsProofs

The read loop takes one event at a time of a queue that the browser fills, so the invariants
speak of what the queue holds: `Has`, `Once` and `Follows` (after each event of one kind
comes one of another), with what becomes of them when something is written or taken
(`HasJoined`, `FollowsRest` and so on). What an action of the browser writes is a sequence
`r`, `queue' = queue \o r`, and each invariant needs few facts of it (`Wrote`, `Served`).

* `TypeCorrect`. `Typed` adds to the types where each goroutine may be and with which command,
  what the read loop has in hand (`InHand`), what the browser may write (`News`), and that a
  context exists only in its page's document of now, in a frame that is there.
* `ContextsOwn`. `Owners`: a number that has an owner, a unique id or the latest context of a
  session leads to a context of its page. The read loop stores what was reported under the page
  that reported it, or under no owner. `Asked(p)` follows the name a handler has checked through
  the lookup and the choice (`Sought` while it is a number). Numbers are not given twice: a step
  stores one only under a number that is new or that the read loop was given before (`NumbersOn`),
  so one that had an owner leads to the same context later or to nothing. The context of the call
  that is sent is then of the page, or `unowned`.
* `NewestKnown`. The context made last is also the last in the queue, if one of its page is
  there (`LastMade`); until the read loop has stored it, it is in the queue or in hand
  (`Latests`). An older one that is read later cannot stay. That a cleanup empties the caches
  only of a page that is cleaned is `Cleaning`; a call is answered once, to a thread that
  waits (`Calls`), so that no other thread's cleanup goes on.

* `WorldsStay`. `Worldly` follows a number of a world through a navigation. The handler of
  `executionContextDestroyed` drops one number of the context, whichever it finds first and
  perhaps a world's, so the argument is that this context is gone for good and is not the
  latest that exists: `EndsDead` for what is queued, `Numbered` for what the read loop has in
  hand. When contexts are cleared the client is told so, and no world counts as announced
  (`reEmitted`) until the next context is read: nothing is asked of what the browser does after it says
  that a navigation starts. `Announced`: each world that counts leads to the latest context, or the
  read loop is at it, unless another context of the page is on its way (`Settled`). A
  context stored before its session has no worlds (`Worldless`), so that none is forgotten.
* `MainKnown`. `FramesKnown(p)` follows one page. The last event of a main frame that is queued
  names the page's (`LastNamed`), and a page that is open has such an event ahead or has it
  noted: in the session or, before the session is registered, in `pendingFrameIDs`
  (`MainNoted`). A page that has not noted any frame takes that of the first context it is
  told (`Noted`). A subframe could be taken for the main frame when it navigates, if the
  session did not know it as one; `SubsKnown` says it does, at every place of the queue where
  it navigates, now or after the `frameAttached` before it. `Unborn` says that a page is
  attached once and is silent before, so that nothing is left over of an earlier life.

* `GoesForward` is an action property. `Rolling(p)` speaks of the wait of a navigation that had
  read every context of the document it leaves: what is on its way to the session, in hand or
  its latest context since then is `Fresh`, of a subframe or of a later document. A context
  made during the wait is of the document of now; it is fresh because the commit that made it
  came after the call, or because it is a subframe's. What is left, that the page writes
  its first contexts again, would need it to be attached a second time during the wait: only
  pages that are attached have commands, and a page is attached once (`Unborn`).

`FramesKnown`, `Worldly` and `Rolling` were checked by TLC, as invariants of the instance of
the run `contexts`, before they were proved.

`createIsolatedWorld` looks for the session's context numbered last; that a set of numbers below
a bound has a greatest is from the library's well-founded order of `Nat` (`Greatest`). What the
browser writes of a set of contexts in some order is a `SetToSeq`, of a finite set, hence
`IsFiniteSet(Subs)`.

### HandlesProofs

* `TypeCorrect`. `Typed` has besides the types: the count of calls to skip is below zero only
  for a page that has ended (`Skipping`); a handler runs the command its task is at
  (`Running`), and its counter is one of that command (`Labelled`); what it is to note or to
  store is an object and not "none" (`InHand`). The last rests on the programs: one that describes an
  element holds one from its second command on (`Going`).
* `StateGone`. No command begins for a page whose state was cleared, as its session's record
  is marked before; a page that is past that point has an idle handler and nothing in the
  maps, unless a command was running at that moment (`Cleared`).
* `DialogReached`. Events are read in order, so the invariant speaks of the queue: the event of
  the page's last dialog is the last of its events (`LastUnread`), and once it was read the
  dialog is remembered, or a client was told to answer it (`Remembered`). An older event that
  is read later cannot replace it.

### HeldProofs

* `HandlesStay`. The invariant `Kept` relates the maps, the client's tasks, the call in progress
  and the browser. Nodes and owners lead to objects of their own page (`NodesOwn`); no object is
  used before it was made (`AllMade`); an id that was allocated and is not stored is one handler's
  (`Reserved`: `nextCtxID` is atomic, allocating and storing are not); a handler's object and its
  call's are its own page's, and disposed of only by the call that does it (`Busy`, `Calls`); an
  object just made is in no task and under no node (`Fresh`); two tasks hold the same object only
  if a node leads to it, which is what makes `releaseObject` spare it (`Held`); the id a task was
  told leads to its object (`Described`); and a command that did release an object is its
  program's last (`Released`). All of it is stated for the pages of clients that keep to their own
  objects; `AllMade` for every client, so that an object just made is not one that somebody named
  before. What another client does cannot dispose of such an object, since a call is made in a
  context of the caller's page and objects are found in their own page's alone (`Finds`,
  external), nor change a node id, which it allocates anew; that it takes the object's owner over
  when it describes it does not matter to the node ids, which have owners of their own, nor to
  `releaseObject`, which spares what any node leads to. It can only make the client's own call be
  refused.
* `SelectorsMatch` is an action property: what `callFunctionOn` combines. For a client with one
  task, `Selected` says of a selector that is remembered, and whose run was not given up or of
  `page.$`, that it is the task's own run's and that the task is at a command between its query
  and the first function after it (`Remembers`, `Awaits`, read off `Programs`): Puppeteer's own,
  which clears it, or the function of `$eval`. The count of calls to skip is 0 for a query of one
  element, and that of `$$` is cleared with the selector.

### ProxyProofs

* `ProcessReaped`: whoever has set `waited`, the process is gone; and `main` passes through
  `Stop` on every way but `log.Fatalf` (`Process`).
* `HooksOnce` and `WritersTakeTurns` rest on `Connected`: the two sides that may close a
  connection, its handler and the server's `Close`, each know it only while it is registered
  or was (`Hooked`); who writes holds `writeMu` (`Written`); a client has had the
  response to each command but the one in progress (`Answered`).
* `RecordReplays`: in the file of one client commands and responses alternate and count up
  (`Alternating`), and the file goes as far as its client has come (`UpTo`). After the
  program has ended the file stays, and `Position` says that the replay has sent what lies
  before its position and nothing behind it; so the next command of the client is the next of the
  file.

### BiDiProofs

The invariant `Inv` is `Typed`, `Course(r)` of each realm and `Exchange(t)` of each call. TLC
checked `Course` and `Exchange` as invariants of the instance of the run `bidi` before they were
proved.

* *The translation.* `BidiValueToPlain`, `IsData` and `Data` are recursive functions of the values,
  and a recursive function has its equation only if some function satisfies it. One is built level
  by level up to `Depth` (`Levels`, `IsDataValues`, `DataValues`, `PlainValues`), for which
  `DepthInduction` has a step from each depth to the next: a set of depths that lacks one lacks a
  least one, by the well-founded order of `Nat`. It speaks of a set, so that it needs no operator
  as a parameter. `ResultIsData` is then that the translation of a value that JSON holds is that
  value, of any depth; `ArgumentArrives` is the way to the page.
* `TypeCorrect`. `Typed` says besides the types which records are on the wire, of which kind
  (`News`), and which commands wait (`Command`); that a call stays within its list is part of
  `Exchange`.
* `RealmsEnd`. The wire is read in order, so `Course` speaks of what it holds: nothing of a realm
  that does not exist yet (`Unborn`) or whose end was taken (`Over`); beginnings of a realm, two
  when the adapter subscribes after it began, all name its page (`Beginning`); nothing follows
  its end (`Ending`). Until then the adapter remembers the realm exactly if its beginning was taken
  and named a page (`Known`), whether or not the page is still there.
* `AnswersTold`. `Truth(t, ok, v)` is what the answer to the command that `t` waits for may be:
  the length of the array is one it has had since the call began, an element one that was at that
  index, and a cookie that was answered is set. `Exchange` has that every answer on its way with
  the number of the command in progress is true (`Post`), those to earlier commands, given up by
  their timeout, having other numbers (`Mail`); so what is put together stays true while the array
  changes (`Listing`), and of a list of cookies one command at a time is under way, the next not
  sent before the one before it was answered (`Jar`).
* `ValuesReturn` joins the two: an answer is a value of the page (`Truth`) and its translation is
  by `ResultIsData`; the argument is the client's (`Gives`).

### Only model-checked

The liveness properties (`ClosingCompletes`, `ReleasedOnDisconnect`, `OwnedIsAttached`,
`CallsReturn`, `LoopGoesOn`, `HeldIsAnswered`, `CommandsEnd`, `CommandsAnswered`,
`ProgramEnds`): fairness and ENABLED are outside this prover's reach.

## What the models leave out

* Workers, browser sessions and `setAutoAttach` of a tab session (`pageAttachedTab`): they
  have records of their own, which no page's life depends on.
* In `Fetch`: a server shutdown while a command runs, several browser contexts,
  `Fetch.continueWithAuth`, which touches no state here, and the Network domain's own
  interception, which connected clients are denied (`network.go`).
* Deterministic mode, which calls the backend on the read loop; the same hazard as
  `disableFetchIfUnused` there, and `RpcClient` has it.
* Time: timers fire at any moment after they are set, polls may find or miss.
* In `Handles`: a `describeNode` that names both a node and an object.
* What each module leaves out of its own files is said in its section.
* The components with status `not_modelled` in `PROJECT.json`, each with its reason: pure
  transformations of one reply, stateless translations of one command into one call, I/O.

### Seen in the models

Behaviours that the models have and no run is about:

* `target.go:276`: `attachToTarget` checks the owner and adds a session in two steps; a session
  added after the page's cleanup has removed its sessions stays (`ghosts` in `Ownership`).
* `bridge.go:339`: the events of a page's end follow the reply of `Page.close`;
  `session-model.mdx:89` says they precede it.
* `fetch.go:200`, `bridge.go:371`: the value of the interception switch is computed before it
  is sent; a `Fetch.enable` of another session in between is switched off again.
* `events.go:745`: the patterns are read twice for one request; a `Fetch.disable` in between
  makes the handler announce a request the patterns exclude.

* `bridge.go:466`, `:473`: a context's name that nobody owns passes the check. A number that is
  stored for another page between the check (`runtime.go:80`) and the lookup (`:85`) leads to that
  page's context, if the session has no latest context; so does a unique id whose owner is not
  stored yet. `OwnContext` excepts these (`unowned`), and TLC finds them when it does not.
* `client.go:1213` of the BiDi adapter, `events.go:256`: a navigation that starts and never commits
  has the numbers of the session's contexts cleared, while the context lives; the session has none,
  and its worlds none, until the next context is made.
* `runtime.go:162`, `:455`: `callFunctionOn` and `releaseObject` refuse an object that another
  session owns, and take one without an owner. Objects have an owner once they were queried or
  described, and lose it when its page ends. `describeNode` (`dom.go:203`) makes the caller the
  owner of any object, and `getProperties`, `focus`, `setFileInputFiles` and the arguments of a
  function ask for no owner. Such a call is sent; that it finds nothing in the caller's page is up
  to the browser.
* `dom.go:178`: the node ids that `querySelectorAll` answers count from 3, and `getDocument`'s is 1,
  whatever objects these numbers may lead to (`QuerySelectorAll` in `Handles`).

## Findings

1. `own_popup` (`events.go:162`): the opener's owner is read, then the popup registered;
   a disconnect in between leaves the popup open and owned by a closed connection, against
   the comment of `ConnectionClosed`.
2. `contexts_latest` (`events.go:479`): an iframe that appears and disappears leaves its
   destroyed context as the latest one of the page, which every evaluation without an object
   prefers, until another context is created; `context-management.mdx:27` and the comment at
   `events.go:416` say that it is the one to use.
3. `rpc_self_call` (`bridge.go:374`): the detach handler calls the backend on the read
   loop and waits for an answer only that loop can read, until the timeout.
