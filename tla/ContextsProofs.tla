--------------------------- MODULE ContextsProofs ---------------------------
(***************************************************************************)
(* Theorems about frames and execution contexts, for any pages, frames,    *)
(* worlds, scenarios and bounds, and both kinds of backend:                *)
(*   TypeCorrect   every variable keeps its type                           *)
(*   NewestKnown   the latest context is the one the page made last        *)
(*   ContextsOwn   a name that was a session's own leads to its page or to *)
(*                 nothing                                                 *)
(*   WorldsStay    worlds announced with the latest context can be used    *)
(*   MainKnown     the cached main frame is the page's                     *)
(*   GoesForward   a navigation ends in a document after the one it left   *)
(***************************************************************************)
EXTENDS Contexts, FiniteSetTheorems, SequenceTheorems, WellFoundedInduction, TLAPS

------------------------------------------------------------------------------
(* Types.                                                                   *)

AnyFrame   == Frames \cup {NoFrame}
FrameNames == Frames \cup {NoFrame, TargetId, Placeholder}
AnyCtx     == AllCtx \cup {NoCtx}
AnyPage    == Pages \cup {NoPage}
AnyWorld   == Worlds \cup {"main"}
Callers    == {"handler", "closer"} \X Pages

Ops == {"none", "navigate", "fragment", "evaluate", "call", "callWithObjects", "reload",
        "setContent", "write", "metrics", "frameTree", "isolatedWorld", "close"}
Command == [op : Ops, frame : FrameNames, ctx : AnyCtx, prior : AnyCtx, world : AnyWorld,
            from : Nat, clean : BOOLEAN, number : Nat, unowned : BOOLEAN]
CallKinds == {"navigate", "fragment", "reload", "evaluate", "probe", "close"}
CallRec   == [kind : CallKinds, frame : FrameNames, ctx : AnyCtx]

\* What the browser writes.
FrameKinds  == {"frameAttached", "frameDetached", "started", "committed"}
PageKinds   == {"attached", "cleared", "detached"}
Made        == {Event("created", c[1], c[2], c) : c \in AllCtx}
Gone        == {Event("destroyed", c[1], f, c) : c \in AllCtx, f \in AnyFrame}
FrameNews   == [kind : FrameKinds, page : Pages, frame : Frames, ctx : {NoCtx}]
PageNews    == [kind : PageKinds, page : Pages, frame : {NoFrame}, ctx : {NoCtx}]
Replies     == [kind : {"reply"}, to : Callers, ok : BOOLEAN]
PageEvents  == Made \cup Gone \cup FrameNews \cup PageNews
News        == PageEvents \cup Replies

Entry == [ctx : AllCtx, owner : AnyPage, world : AnyWorld]

Caches ==
    /\ sessions \subseteq Pages /\ cleaned \subseteq Pages
    /\ frameID \in [Pages -> AnyFrame] /\ pendingFrameIDs \in [Pages -> AnyFrame]
    /\ subFrames \in [Pages -> SUBSET Subs] /\ latestCtx \in [Pages -> AnyCtx]
    /\ ctxCounter \in Nat
    /\ DOMAIN ctxMap \subseteq 1 .. ctxCounter
    /\ \A i \in DOMAIN ctxMap : ctxMap[i] \in Entry
    /\ DOMAIN ctxUniqueOwners \subseteq AllCtx
    /\ isolatedWorlds \in [Pages -> Seq(Worlds)]
    /\ reEmitted \in [Pages -> SUBSET Worlds]

HandlerPCs == {"idle", "prior", "mainFrame", "wait", "roll", "lookup", "choose", "anyContext",
               "write", "frame", "frameAgain", "name", "record", "begin", "clear", "remove"}
CloserPCs  == {"idle", "begin", "wait", "clear", "remove"}
Learns     == {"store", "latest", "unique"}
Learning   == Learns \cup {"isolated"}
ReaderPCs  == {"idle", "store", "latest", "unique", "isolated", "worlds", "drop", "begin", "clear", "remove"}
Cleans     == {"begin", "clear", "remove"}

Goroutines ==
    /\ pc \in [Threads -> HandlerPCs \cup ReaderPCs]
    /\ \A p \in Pages : pc[Handler(p)] \in HandlerPCs /\ pc[Closer(p)] \in CloserPCs
    /\ pc[Reader] \in ReaderPCs
    /\ h \in [Pages -> Command]
    /\ \A p \in Pages :
          /\ pc[Handler(p)] = "record" => h[p].world \in Worlds
          /\ pc[Handler(p)] \in {"mainFrame", "prior"} => h[p].op \in {"navigate", "fragment"}
          /\ pc[Handler(p)] \in Cleans => h[p].op = "close"
          /\ pc[Handler(p)] \notin Cleans \cup {"wait"} => h[p].op # "close"
    /\ enabling \in [Pages -> AnyCtx] /\ named \in [Pages -> FrameNames]
    /\ inbox \in [Threads -> {NoEvent} \cup CallRec] /\ inbox[Reader] = NoEvent

\* The event the read loop has in hand.
InHand ==
    /\ ev \in [event : {NoEvent} \cup PageEvents, id : Nat, todo : Seq(Worlds), page : AnyPage]
    /\ pc[Reader] = "idle" => ev = Idle
    /\ pc[Reader] \in Learns \cup {"isolated", "worlds"} => ev.event \in Made
    /\ pc[Reader] \in Learns => ev.page \in {NoPage, ev.event.page}
    /\ pc[Reader] = "store" => ev.id \in (1 .. ctxCounter) \ DOMAIN ctxMap
    /\ pc[Reader] \in {"isolated", "worlds"} => ev.page = ev.event.page
    /\ pc[Reader] = "drop" => ev.event \in Gone
    /\ pc[Reader] \in Cleans => ev.event \in PageNews

Navs == {"none", "accepted", "started"}
Browser ==
    /\ scenario \in Scenarios /\ isBiDi \in BOOLEAN
    /\ page \in [Pages -> {"new", "live", "gone"}]
    /\ mainFrame \in [Pages -> Mains]
    /\ subs \in [Pages -> [Subs -> {"none", "there", "left"}]]
    /\ docs \in [Pages -> 0 .. MaxDocs]
    /\ navs \in [Pages -> Navs] /\ newest \in [Pages -> AnyCtx]
    /\ live \subseteq AllCtx /\ IsFiniteSet(live)
    /\ \A p \in Pages : IF page[p] = "new" THEN docs[p] = 0 ELSE docs[p] \in 1 .. MaxDocs
    /\ \A c \in live : /\ page[c[1]] = "live" /\ c[3] = docs[c[1]]
                       /\ c[2] \in Subs => subs[c[1]][c[2]] = "there"
    /\ isBiDi => \A p \in Pages, s \in Subs : subs[p][s] # "there"
    /\ queue \in Seq(News)

Typed == Caches /\ Goroutines /\ InHand /\ Browser

------------------------------------------------------------------------------
(* What a queue holds, by sets of events.                                   *)

Has(q, T)       == \E i \in DOMAIN q : q[i] \in T
Once(q, T)      == \A i, j \in DOMAIN q : q[i] \in T /\ q[j] \in T => i = j
Follows(q, E, T) == \A i \in DOMAIN q : q[i] \in E => \E j \in i .. Len(q) : q[j] \in T
FirstIs(q, E, T) == \E j \in DOMAIN q : q[j] \in T /\ \A k \in 1 .. j - 1 : q[k] \notin E
HasAfter(q, A, T) == \E a \in DOMAIN q : q[a] \in A /\ \E j \in a + 1 .. Len(q) : q[j] \in T

\* Does what On turns on and Off turns off hold before the i-th event, if it does (b) now?
HoldsAt(q, b, On, Off, i) ==
    \/ b /\ \A k \in 1 .. i - 1 : q[k] \notin Off
    \/ \E j \in 1 .. i - 1 : q[j] \in On /\ \A k \in j .. i - 1 : q[k] \notin Off

Of(p)          == {e \in PageEvents : e.page = p}
Answers(t)     == {e \in Replies : e.to = t}
Attaches(p)    == {e \in Of(p) : e.kind = "attached"}
Makes(p)       == {e \in Of(p) : e.kind = "created"}
MakesCtx(p, c) == {e \in Makes(p) : e.ctx = c}
MadeIn(p, f)   == {e \in Makes(p) : e.frame = f}
Comes(p, s)    == {e \in Of(p) : e.kind = "frameAttached" /\ e.frame = s}
Leaves(p, s)   == {e \in Of(p) : e.kind = "frameDetached" /\ e.frame = s}
Moves(p, f)    == {e \in Of(p) : e.kind \in {"started", "committed"} /\ e.frame = f}
Names(p, f)    == Comes(p, f) \cup Moves(p, f)      \* says that f is the main frame
Turns(p)       == {e \in Of(p) : e.kind \in FrameKinds /\ e.frame \in Mains}

------------------------------------------------------------------------------
(* Calls and cleanups.                                                      *)

\* A call is answered once, and its thread waits until then.
Calls ==
    \A t \in Callers :
        /\ Once(queue, Answers(t)) /\ (Has(queue, Answers(t)) => pc[t] = "wait")
        /\ inbox[t] # NoEvent => pc[t] = "wait" /\ ~Has(queue, Answers(t))

\* Who has begun a cleanup has a page in hand that is cleaned.
Cleaning ==
    /\ pc[Reader] \in {"clear", "remove"} => ev.event.page \in cleaned
    /\ \A p \in Pages :
          /\ pc[Closer(p)] \in {"wait", "clear", "remove"} => p \in cleaned
          /\ pc[Handler(p)] \in {"wait", "clear", "remove"} /\ h[p].op = "close" => p \in cleaned

------------------------------------------------------------------------------
(* The latest context.                                                      *)

Storing(p) == pc[Reader] \in {"store", "latest"} /\ ev.event.page = p

\* The context made last is the last that is reported.
LastMade == \A p \in Pages : Follows(queue, Makes(p), MakesCtx(p, newest[p]))

Latests ==
    \A p \in Pages \ cleaned : page[p] # "new" =>
        \/ Has(queue, MakesCtx(p, newest[p]))
        \/ Storing(p) /\ ev.event.ctx = newest[p]
        \/ ~Storing(p) /\ latestCtx[p] = newest[p]

------------------------------------------------------------------------------
(* Whose contexts are.                                                      *)

Own(p, c) == c = NoCtx \/ c[1] = p
Owners ==
    /\ \A i \in DOMAIN ctxMap : ctxMap[i].owner # NoPage => Own(ctxMap[i].owner, ctxMap[i].ctx)
    /\ \A c \in DOMAIN ctxUniqueOwners : ctxUniqueOwners[c] # NoPage => Own(ctxUniqueOwners[c], c)
    /\ \A p \in Pages : Own(p, latestCtx[p]) /\ Own(p, enabling[p])

\* What a client named leads, unless nobody owned the name when it was checked, to a
\* context of its page, or to nothing any more: numbers are not given twice.
Sought(p) ==
    /\ h[p].number <= ctxCounter
    /\ h[p].number \in DOMAIN ctxMap => ctxMap[h[p].number].owner = p
    /\ pc[Reader] = "store" => h[p].number # ev.id
Asked(p) ==
    ~h[p].unowned =>
        /\ pc[Handler(p)] = "lookup" => Sought(p)
        /\ pc[Handler(p)] = "choose" => Own(p, h[p].ctx)
        /\ inbox[Handler(p)] # NoEvent => Own(p, inbox[Handler(p)].ctx)

------------------------------------------------------------------------------
(* Isolated worlds.                                                         *)

\* A context that is gone for good.
Dead(c) ==
    \/ page[c[1]] = "gone"
    \/ c[3] < docs[c[1]]
    \/ c[2] \in Subs /\ c[3] = docs[c[1]] /\ subs[c[1]][c[2]] = "left"

\* What is told gone is gone for good: no context takes the place of another.
EndsDead == \A e \in Gone : Has(queue, {e}) => Dead(e.ctx)

\* The read loop drops a number of a context that is gone.
Numbered ==
    pc[Reader] = "drop" =>
        /\ Dead(ev.event.ctx) /\ ev.id \in 0 .. ctxCounter
        /\ ev.id \in DOMAIN ctxMap => ctxMap[ev.id].ctx = ev.event.ctx

\* A page without session has no worlds; one with a session has those of its latest context.
Worldless ==
    /\ \A p \in Pages \ (sessions \cup cleaned) : reEmitted[p] = {}
    /\ pc[Reader] \in Learning =>
          IF ev.page = NoPage THEN ev.event.page \notin sessions
          ELSE ev.page \in sessions \cup cleaned
    /\ pc[Reader] \in {"unique", "isolated"} /\ ev.event.page \notin cleaned =>
          latestCtx[ev.event.page] = ev.event.ctx

\* While page p's latest context exists and no other is on its way, each world announced
\* with it has a number that leads there, or the read loop is about to announce it.
Leads(p, w) == \E i \in DOMAIN ctxMap : ctxMap[i] = [ctx |-> latestCtx[p], owner |-> p, world |-> w]
Coming(p, w) ==
    /\ pc[Reader] = "worlds" /\ ev.page = p /\ ev.event.ctx = latestCtx[p]
    /\ \E k \in 1 .. Len(ev.todo) : ev.todo[k] = w
Settled(p) ==
    /\ latestCtx[p] \in live /\ ~Has(queue, Makes(p))
    /\ ~(pc[Reader] \in Learning /\ ev.event.page = p)
Announced ==
    \A p \in Pages \ cleaned : Settled(p) =>
        \A w \in reEmitted[p] : Leads(p, w) \/ Coming(p, w)

Worldly == EndsDead /\ Numbered /\ Worldless /\ Announced

------------------------------------------------------------------------------
(* Frames.                                                                  *)

\* A page that is not open yet has told nothing; a page is attached once.
Unborn(p) ==
    /\ page[p] = "new" => /\ p \notin sessions \cup cleaned /\ pendingFrameIDs[p] = NoFrame
                          /\ ~Has(queue, Of(p))
                          /\ pc[Reader] # "idle" => ev.event.page # p
                          /\ pc[Handler(p)] # "begin" /\ pc[Closer(p)] # "begin"
    /\ Once(queue, Attaches(p)) /\ (Has(queue, Attaches(p)) => p \notin sessions)

\* A subframe is known as one whenever it navigates.
KnownAt(p, s, i) == HoldsAt(queue, s \in subFrames[p], Comes(p, s), Leaves(p, s), i)
SubsKnown(p) ==
    \A s \in Subs :
        /\ \A i \in DOMAIN queue : queue[i] \in Moves(p, s) => KnownAt(p, s, i)
        /\ subs[p][s] = "there" => KnownAt(p, s, Len(queue) + 1)

\* After an event that concerns main frames, one says which the main frame is.
LastNamed(p) == Follows(queue, Turns(p), Names(p, mainFrame[p]))

\* A frame noted is the main frame, or the first that will be noted is.
Noted(p, f) == f = mainFrame[p] \/ (f = NoFrame /\ FirstIs(queue, Makes(p), MadeIn(p, mainFrame[p])))
\* Of a page that is open, either the queue will say which the main frame is, or it is noted.
MainNoted(p) ==
    IF p \in sessions
      THEN Has(queue, Names(p, mainFrame[p])) \/ Noted(p, frameID[p])
      ELSE \/ HasAfter(queue, Attaches(p), Names(p, mainFrame[p]))
           \/ Has(queue, Attaches(p)) /\ Noted(p, pendingFrameIDs[p])

FramesKnown(p) ==
    /\ Unborn(p) /\ LastNamed(p)
    /\ p \notin cleaned => SubsKnown(p) /\ (page[p] = "live" => MainNoted(p))

------------------------------------------------------------------------------
(* Navigations.                                                             *)

\* A context that a navigation of page p may end with: of a subframe, or of a document
\* after the one that was there when it began.
Fresh(p, c) == c[2] \in Subs \/ c[3] > h[p].from

\* Only pages that are attached have commands.  While one navigates that had read all
\* contexts (clean), whatever is on its way, in hand or latest since is fresh.
Rolling(p) ==
    /\ pc[Handler(p)] # "idle" => page[p] # "new" /\ ~Has(queue, Attaches(p))
    /\ h[p].clean =>
          /\ pc[Handler(p)] \in {"wait", "roll"} /\ h[p].op \in {"navigate", "fragment"}
          /\ h[p].from <= docs[p]
          /\ \A e \in Makes(p) : Has(queue, {e}) \/ ev.event = e => Fresh(p, e.ctx)
          /\ p \in sessions /\ latestCtx[p] \notin {NoCtx, h[p].prior} => Fresh(p, latestCtx[p])

------------------------------------------------------------------------------
(* Lemmas about queues.                                                     *)

LEMMA Joined ==
    ASSUME NEW S, NEW q \in Seq(S), NEW r \in Seq(S)
    PROVE  /\ q \o r \in Seq(S) /\ Len(q \o r) = Len(q) + Len(r)
           /\ DOMAIN q = 1 .. Len(q) /\ DOMAIN r = 1 .. Len(r) /\ DOMAIN (q \o r) = 1 .. Len(q) + Len(r)
           /\ Len(q) \in Nat /\ Len(r) \in Nat
           /\ \A i \in DOMAIN q : (q \o r)[i] = q[i] /\ i \in DOMAIN (q \o r)
           /\ \A i \in DOMAIN r : (q \o r)[Len(q) + i] = r[i] /\ Len(q) + i \in DOMAIN (q \o r)
           /\ \A k \in DOMAIN (q \o r) :
                 \/ k \in DOMAIN q
                 \/ k - Len(q) \in DOMAIN r /\ (q \o r)[k] = r[k - Len(q)] /\ k > Len(q)
  OBVIOUS

LEMMA Rest ==
    ASSUME NEW S, NEW q \in Seq(S), q # <<>>
    PROVE  /\ Tail(q) \in Seq(S) /\ Len(Tail(q)) = Len(q) - 1 /\ Len(q) \in Nat \ {0}
           /\ DOMAIN q = 1 .. Len(q) /\ DOMAIN Tail(q) = 1 .. Len(q) - 1
           /\ Head(q) = q[1] /\ 1 \in DOMAIN q /\ q[1] \in S
           /\ \A i \in DOMAIN Tail(q) : Tail(q)[i] = q[i + 1] /\ i + 1 \in DOMAIN q
           /\ \A i \in DOMAIN q : i = 1 \/ (i - 1 \in DOMAIN Tail(q) /\ q[i] = Tail(q)[i - 1])
  OBVIOUS

LEMMA HasJoined ==
    ASSUME NEW S, NEW q \in Seq(S), NEW r \in Seq(S), NEW T
    PROVE  Has(q \o r, T) <=> Has(q, T) \/ Has(r, T)
  <1>1. ASSUME Has(q, T) \/ Has(r, T) PROVE Has(q \o r, T)
    <2>1. ASSUME NEW i \in DOMAIN q, q[i] \in T PROVE Has(q \o r, T)
      <3>1. i \in DOMAIN (q \o r) /\ (q \o r)[i] \in T
        BY <2>1, Joined
      <3> QED BY <3>1 DEF Has
    <2>2. ASSUME NEW i \in DOMAIN r, r[i] \in T PROVE Has(q \o r, T)
      <3>1. Len(q) + i \in DOMAIN (q \o r) /\ (q \o r)[Len(q) + i] \in T
        BY <2>2, Joined
      <3> QED BY <3>1 DEF Has
    <2> QED BY <1>1, <2>1, <2>2 DEF Has
  <1>2. ASSUME NEW k \in DOMAIN (q \o r), (q \o r)[k] \in T PROVE Has(q, T) \/ Has(r, T)
    BY <1>2, Joined DEF Has
  <1> QED BY <1>1, <1>2 DEF Has

LEMMA HasRest ==
    ASSUME NEW S, NEW q \in Seq(S), q # <<>>, NEW T
    PROVE  /\ Has(Tail(q), T) => Has(q, T)
           /\ Has(q, T) /\ Head(q) \notin T => Has(Tail(q), T)
           /\ Head(q) \in T => Has(q, T)
  BY Rest DEF Has

LEMMA OnceJoined ==
    ASSUME NEW S, NEW q \in Seq(S), NEW r \in Seq(S), NEW T
    PROVE  Once(q, T) /\ Once(r, T) /\ (~Has(q, T) \/ ~Has(r, T)) => Once(q \o r, T)
  <1> SUFFICES ASSUME Once(q, T), Once(r, T), ~Has(q, T) \/ ~Has(r, T),
                      NEW i \in DOMAIN (q \o r), NEW j \in DOMAIN (q \o r),
                      (q \o r)[i] \in T, (q \o r)[j] \in T
               PROVE  i = j
    BY DEF Once
  <1> QED BY Joined DEF Once, Has

LEMMA OnceRest ==
    ASSUME NEW S, NEW q \in Seq(S), q # <<>>, NEW T, Once(q, T)
    PROVE  Once(Tail(q), T) /\ (Head(q) \in T => ~Has(Tail(q), T))
  BY Rest DEF Once, Has

LEMMA FollowsJoined ==
    ASSUME NEW S, NEW q \in Seq(S), NEW r \in Seq(S), NEW E, NEW T, NEW U,
           Follows(r, E, T), Follows(q, E, U), U = T \/ ~Has(q, E) \/ Has(r, T)
    PROVE  Follows(q \o r, E, T)
  <1> SUFFICES ASSUME NEW i \in DOMAIN (q \o r), (q \o r)[i] \in E
               PROVE  \E j \in i .. Len(q \o r) : (q \o r)[j] \in T
    BY DEF Follows
  <1>1. CASE i \in DOMAIN q
    <2>1. q[i] \in E
      BY <1>1, Joined
    <2>2. CASE U = T
      <3>1. PICK j \in i .. Len(q) : q[j] \in T
        BY <1>1, <2>1, <2>2 DEF Follows
      <3>2. j \in DOMAIN q /\ j \in i .. Len(q \o r)
        BY <1>1, <3>1, Joined
      <3> QED BY <3>1, <3>2, Joined
    <2>3. CASE Has(r, T)
      <3>1. PICK j \in DOMAIN r : r[j] \in T
        BY <2>3 DEF Has
      <3>2. Len(q) + j \in i .. Len(q \o r) /\ (q \o r)[Len(q) + j] \in T
        BY <1>1, <3>1, Joined
      <3> QED BY <3>2
    <2> QED BY <1>1, <2>1, <2>2, <2>3 DEF Has
  <1>2. CASE i \notin DOMAIN q
    <2>1. i - Len(q) \in DOMAIN r /\ r[i - Len(q)] \in E
      BY <1>2, Joined
    <2>2. PICK j \in i - Len(q) .. Len(r) : r[j] \in T
      BY <2>1 DEF Follows
    <2>3. Len(q) + j \in i .. Len(q \o r) /\ (q \o r)[Len(q) + j] \in T
      BY <2>1, <2>2, Joined
    <2> QED BY <2>3
  <1> QED BY <1>1, <1>2

LEMMA FollowsRest ==
    ASSUME NEW S, NEW q \in Seq(S), q # <<>>, NEW E, NEW T, Follows(q, E, T)
    PROVE  /\ Follows(Tail(q), E, T)
           /\ Head(q) \in E /\ Head(q) \notin T => Has(Tail(q), T)
  <1>1. ASSUME NEW i \in DOMAIN Tail(q), Tail(q)[i] \in E
        PROVE  \E j \in i .. Len(Tail(q)) : Tail(q)[j] \in T
    <2>1. PICK j \in i + 1 .. Len(q) : q[j] \in T
      BY <1>1, Rest DEF Follows
    <2>2. j - 1 \in i .. Len(Tail(q)) /\ Tail(q)[j - 1] \in T
      BY <1>1, <2>1, Rest
    <2> QED BY <2>2
  <1>2. ASSUME Head(q) \in E, Head(q) \notin T PROVE Has(Tail(q), T)
    <2>1. PICK j \in 1 .. Len(q) : q[j] \in T
      BY <1>2, Rest DEF Follows
    <2>2. j # 1
      BY <1>2, <2>1, Rest
    <2>3. j - 1 \in DOMAIN Tail(q) /\ Tail(q)[j - 1] \in T
      BY <2>1, <2>2, Rest
    <2> QED BY <2>3 DEF Has
  <1> QED BY <1>1, <1>2 DEF Follows

LEMMA FirstJoined ==
    ASSUME NEW S, NEW q \in Seq(S), NEW r \in Seq(S), NEW E, NEW T
    PROVE  /\ FirstIs(q, E, T) => FirstIs(q \o r, E, T)
           /\ ~Has(q, E) /\ FirstIs(r, E, T) => FirstIs(q \o r, E, T)
  <1>1. ASSUME FirstIs(q, E, T) PROVE FirstIs(q \o r, E, T)
    <2>1. PICK j \in DOMAIN q : q[j] \in T /\ \A k \in 1 .. j - 1 : q[k] \notin E
      BY <1>1 DEF FirstIs
    <2>2. \A k \in 1 .. j - 1 : k \in DOMAIN q
      BY Joined
    <2> QED BY <2>1, <2>2, Joined DEF FirstIs
  <1>2. ASSUME ~Has(q, E), FirstIs(r, E, T) PROVE FirstIs(q \o r, E, T)
    <2>1. PICK j \in DOMAIN r : r[j] \in T /\ \A k \in 1 .. j - 1 : r[k] \notin E
      BY <1>2 DEF FirstIs
    <2>2. ASSUME NEW k \in 1 .. Len(q) + j - 1 PROVE (q \o r)[k] \notin E
      <3>1. CASE k \in DOMAIN q
        BY <1>2, <3>1, Joined DEF Has
      <3>2. CASE k \notin DOMAIN q
        <4>1. k - Len(q) \in 1 .. j - 1 /\ k \in DOMAIN (q \o r)
          BY <2>1, <3>2, Joined
        <4> QED BY <2>1, <3>2, <4>1, Joined
      <3> QED BY <3>1, <3>2
    <2>3. Len(q) + j \in DOMAIN (q \o r) /\ (q \o r)[Len(q) + j] \in T
      BY <2>1, Joined
    <2> QED BY <2>2, <2>3 DEF FirstIs
  <1> QED BY <1>1, <1>2

LEMMA FirstRest ==
    ASSUME NEW S, NEW q \in Seq(S), q # <<>>, NEW E, NEW T, FirstIs(q, E, T)
    PROVE  /\ Head(q) \notin T => FirstIs(Tail(q), E, T)
           /\ Head(q) \in E => Head(q) \in T
  <1>1. PICK j \in DOMAIN q : q[j] \in T /\ \A k \in 1 .. j - 1 : q[k] \notin E
    BY DEF FirstIs
  <1>2. ASSUME Head(q) \notin T PROVE FirstIs(Tail(q), E, T)
    <2>1. j # 1
      BY <1>1, <1>2, Rest
    <2>2. j - 1 \in DOMAIN Tail(q) /\ Tail(q)[j - 1] \in T
      BY <1>1, <2>1, Rest
    <2>3. ASSUME NEW k \in 1 .. (j - 1) - 1 PROVE Tail(q)[k] \notin E
      BY <1>1, <2>2, Rest
    <2> QED BY <2>2, <2>3 DEF FirstIs
  <1>3. ASSUME Head(q) \in E PROVE Head(q) \in T
    <2>1. j = 1 \/ 1 \in 1 .. j - 1
      BY Rest
    <2> QED BY <1>1, <1>3, <2>1, Rest
  <1> QED BY <1>2, <1>3

LEMMA AfterHas ==
    ASSUME NEW q, NEW A, NEW T, NEW a \in DOMAIN q, NEW j \in a + 1 .. Len(q), q[a] \in A, q[j] \in T
    PROVE  HasAfter(q, A, T)
  <1>1. \E k \in a + 1 .. Len(q) : q[k] \in T
    OBVIOUS
  <1> QED BY <1>1, Zenon DEF HasAfter

LEMMA AfterJoined ==
    ASSUME NEW S, NEW q \in Seq(S), NEW r \in Seq(S), NEW A, NEW T
    PROVE  HasAfter(q, A, T) \/ (Has(q, A) /\ Has(r, T)) \/ HasAfter(r, A, T) => HasAfter(q \o r, A, T)
  <1>1. ASSUME HasAfter(q, A, T) PROVE HasAfter(q \o r, A, T)
    <2>0. PICK a \in DOMAIN q : q[a] \in A /\ \E j \in a + 1 .. Len(q) : q[j] \in T
      BY <1>1 DEF HasAfter
    <2>1. PICK j \in a + 1 .. Len(q) : q[j] \in T
      BY <2>0
    <2>2. j \in DOMAIN q /\ j \in a + 1 .. Len(q \o r)
      BY <2>1, Joined
    <2>3. a \in DOMAIN (q \o r) /\ (q \o r)[a] \in A /\ (q \o r)[j] \in T
      BY <2>0, <2>1, <2>2, Joined
    <2> QED BY <2>2, <2>3, AfterHas
  <1>2. ASSUME Has(q, A), Has(r, T) PROVE HasAfter(q \o r, A, T)
    <2>1. PICK a \in DOMAIN q : q[a] \in A
      BY <1>2 DEF Has
    <2>2. PICK j \in DOMAIN r : r[j] \in T
      BY <1>2 DEF Has
    <2>3. Len(q) + j \in a + 1 .. Len(q \o r)
      BY <2>1, <2>2, Joined
    <2>4. a \in DOMAIN (q \o r) /\ (q \o r)[a] \in A /\ (q \o r)[Len(q) + j] \in T
      BY <2>1, <2>2, Joined
    <2> QED BY <2>3, <2>4, AfterHas
  <1>3. ASSUME HasAfter(r, A, T) PROVE HasAfter(q \o r, A, T)
    <2>0. PICK a \in DOMAIN r : r[a] \in A /\ \E j \in a + 1 .. Len(r) : r[j] \in T
      BY <1>3 DEF HasAfter
    <2>1. PICK j \in a + 1 .. Len(r) : r[j] \in T
      BY <2>0
    <2>2. j \in DOMAIN r /\ Len(q) + j \in (Len(q) + a) + 1 .. Len(q \o r)
      BY <2>1, Joined
    <2>3. Len(q) + a \in DOMAIN (q \o r) /\ (q \o r)[Len(q) + a] = r[a]
      BY <2>0, Joined
    <2>4. (q \o r)[Len(q) + j] = r[j]
      <3>1. \A i \in DOMAIN r : (q \o r)[Len(q) + i] = r[i]
        BY Joined
      <3> QED BY <2>2, <3>1
    <2> QED BY <2>0, <2>1, <2>2, <2>3, <2>4, AfterHas
  <1> QED BY <1>1, <1>2, <1>3

LEMMA AfterRest ==
    ASSUME NEW S, NEW q \in Seq(S), q # <<>>, NEW A, NEW T, HasAfter(q, A, T)
    PROVE  /\ Head(q) \notin A => HasAfter(Tail(q), A, T)
           /\ Has(Tail(q), T) /\ Has(q, A)
  <1>0. PICK a \in DOMAIN q : q[a] \in A /\ \E j \in a + 1 .. Len(q) : q[j] \in T
    BY DEF HasAfter
  <1>1. PICK j \in a + 1 .. Len(q) : q[j] \in T
    BY <1>0
  <1>2. j \in DOMAIN q /\ j # 1 /\ j - 1 \in DOMAIN Tail(q) /\ Tail(q)[j - 1] \in T
    <2>1. j \in DOMAIN q /\ j # 1
      BY <1>1, Rest
    <2> QED BY <1>1, <2>1, Rest
  <1>3. ASSUME Head(q) \notin A PROVE HasAfter(Tail(q), A, T)
    <2>1. a # 1
      BY <1>0, <1>3, Rest
    <2>2. a - 1 \in DOMAIN Tail(q) /\ Tail(q)[a - 1] \in A
      BY <1>0, <2>1, Rest
    <2>3. j - 1 \in (a - 1) + 1 .. Len(Tail(q))
      BY <1>1, <2>1, Rest
    <2> QED BY <1>2, <2>2, <2>3, AfterHas
  <1>4. Has(Tail(q), T)
    BY <1>2 DEF Has
  <1>5. Has(q, A)
    BY <1>0 DEF Has
  <1> QED BY <1>3, <1>4, <1>5

LEMMA HoldsJoined ==
    ASSUME NEW S, NEW q \in Seq(S), NEW r \in Seq(S), NEW b, NEW On, NEW Off, NEW i \in 1 .. Len(q) + 1
    PROVE  HoldsAt(q, b, On, Off, i) => HoldsAt(q \o r, b, On, Off, i)
  <1>1. \A k \in 1 .. i - 1 : k \in DOMAIN q /\ (q \o r)[k] = q[k]
    BY Joined
  <1>2. \A j \in 1 .. i - 1 : \A k \in j .. i - 1 : k \in 1 .. i - 1
    OBVIOUS
  <1> QED BY <1>1, <1>2 DEF HoldsAt

\* What holds stays so where nothing turns it off.
LEMMA HoldsLater ==
    ASSUME NEW S, NEW q \in Seq(S), NEW b, NEW On, NEW Off, NEW i \in 1 .. Len(q) + 1, NEW l \in i .. Len(q) + 1,
           HoldsAt(q, b, On, Off, i), \A k \in i .. l - 1 : q[k] \notin Off
    PROVE  HoldsAt(q, b, On, Off, l)
  <1>1. CASE b /\ \A k \in 1 .. i - 1 : q[k] \notin Off
    <2>1. \A k \in 1 .. l - 1 : k \in 1 .. i - 1 \/ k \in i .. l - 1
      OBVIOUS
    <2> QED BY <1>1, <2>1 DEF HoldsAt
  <1>2. ASSUME NEW j \in 1 .. i - 1, q[j] \in On, \A k \in j .. i - 1 : q[k] \notin Off
        PROVE  HoldsAt(q, b, On, Off, l)
    <2>1. j \in 1 .. l - 1 /\ \A k \in j .. l - 1 : k \in j .. i - 1 \/ k \in i .. l - 1
      OBVIOUS
    <2>2. \A k \in j .. l - 1 : q[k] \notin Off
      BY <1>2, <2>1
    <2> QED BY <1>2, <2>1, <2>2 DEF HoldsAt
  <1> QED BY <1>1, <1>2 DEF HoldsAt

LEMMA HoldsRest ==
    ASSUME NEW S, NEW q \in Seq(S), q # <<>>, NEW b, NEW c, NEW On, NEW Off, On \cap Off = {},
           NEW i \in 1 .. Len(q), HoldsAt(q, b, On, Off, i + 1),
           Head(q) \in On => c, b /\ Head(q) \notin Off => c
    PROVE  HoldsAt(Tail(q), c, On, Off, i)
  <1>1. \A k \in 1 .. i - 1 : k \in DOMAIN Tail(q) /\ Tail(q)[k] = q[k + 1] /\ k + 1 \in 1 .. i
    BY Rest
  <1>2. q[1] = Head(q) /\ 1 \in 1 .. i /\ i \in Nat
    BY Rest
  <1>3. CASE b /\ \A k \in 1 .. (i + 1) - 1 : q[k] \notin Off
    <2>1. c
      BY <1>2, <1>3
    <2>2. \A k \in 1 .. i - 1 : Tail(q)[k] \notin Off
      BY <1>1, <1>3
    <2> QED BY <2>1, <2>2 DEF HoldsAt
  <1>4. ASSUME NEW j \in 1 .. (i + 1) - 1, q[j] \in On, \A k \in j .. (i + 1) - 1 : q[k] \notin Off
        PROVE  HoldsAt(Tail(q), c, On, Off, i)
    <2>1. CASE j = 1
      <3>1. c
        BY <1>2, <1>4, <2>1
      <3>2. \A k \in 1 .. i - 1 : k + 1 \in j .. (i + 1) - 1
        BY <2>1
      <3>3. \A k \in 1 .. i - 1 : Tail(q)[k] \notin Off
        BY <1>1, <1>4, <3>2
      <3> QED BY <3>1, <3>3 DEF HoldsAt
    <2>2. CASE j # 1
      <3>1. j - 1 \in 1 .. i - 1 /\ Tail(q)[j - 1] \in On
        <4>1. j - 1 \in 1 .. i - 1 /\ (j - 1) + 1 = j
          BY <2>2
        <4> QED BY <1>1, <1>4, <4>1
      <3>2. \A k \in j - 1 .. i - 1 : k \in 1 .. i - 1 /\ k + 1 \in j .. (i + 1) - 1
        BY <2>2
      <3>3. \A k \in j - 1 .. i - 1 : Tail(q)[k] \notin Off
        BY <1>1, <1>4, <3>2
      <3> QED BY <3>1, <3>3 DEF HoldsAt
    <2> QED BY <2>1, <2>2
  <1> QED BY <1>3, <1>4 DEF HoldsAt

LEMMA HoldsCome ==
    ASSUME NEW S, NEW q \in Seq(S), NEW r \in Seq(S), NEW b, NEW On, NEW Off, Has(r, On), ~Has(r, Off)
    PROVE  HoldsAt(q \o r, b, On, Off, Len(q \o r) + 1)
  <1>1. PICK j \in DOMAIN r : r[j] \in On
    BY DEF Has
  <1>2. Len(q) + j \in 1 .. Len(q \o r) /\ (q \o r)[Len(q) + j] \in On
    BY <1>1, Joined
  <1>3. \A k \in Len(q) + j .. Len(q \o r) : (q \o r)[k] \notin Off
    <2> SUFFICES ASSUME NEW k \in Len(q) + j .. Len(q \o r) PROVE (q \o r)[k] \notin Off
      OBVIOUS
    <2>1. k \in DOMAIN (q \o r) /\ k \notin DOMAIN q
      BY <1>1, Joined
    <2> QED BY <2>1, Joined DEF Has
  <1>4. (Len(q \o r) + 1) - 1 = Len(q \o r)
    BY Joined
  <1> QED BY <1>2, <1>3, <1>4 DEF HoldsAt
------------------------------------------------------------------------------
(* Numbers: the least and the greatest of a set, which stand for induction. *)

LEMMA Least ==
    ASSUME NEW T \in SUBSET Nat, T # {}
    PROVE  \E x \in T : \A y \in T : x <= y
  <1> DEFINE R == {ss \in Nat \X Nat : ss[1] < ss[2]}
  <1>1. IsWellFoundedOn(R, Nat)
    BY NatLessThanWellFounded, Zenon DEF OpToRel
  <1>2. \E x \in T : \A y \in T : <<y, x>> \notin R
    <2> HIDE DEF R
    <2> QED BY <1>1, WFMin, Zenon
  <1>3. \A x, y \in Nat : <<y, x>> \notin R => x <= y
    OBVIOUS
  <1> QED BY <1>2, <1>3

LEMMA Greatest ==
    ASSUME NEW n \in Nat, NEW T, \A x \in T : x \in 0 .. n, T # {}
    PROVE  \E x \in T : \A y \in T : y <= x
  <1> DEFINE U == {n - x : x \in T}
  <1>1. U \in SUBSET Nat
    <2>1. \A x \in T : n - x \in Nat
      OBVIOUS
    <2> QED BY <2>1
  <1>2. U # {}
    OBVIOUS
  <1>3. PICK u \in U : \A v \in U : u <= v
    <2> HIDE DEF U
    <2> QED BY <1>1, <1>2, Least
  <1>4. PICK x \in T : u = n - x
    BY <1>3
  <1>5. \A y \in T : n - x <= n - y
    BY <1>3, <1>4
  <1> QED BY <1>5

------------------------------------------------------------------------------
(* Facts about threads and events.                                          *)

LEMMA ThreadFacts ==
    /\ Threads = Callers \cup {Reader} /\ Reader \notin Callers
    /\ \A p \in Pages : /\ Handler(p) \in Callers /\ Handler(p)[1] = "handler" /\ Handler(p)[2] = p
                        /\ Closer(p) \in Callers /\ Closer(p)[1] = "closer" /\ Closer(p)[2] = p
    /\ \A p, q \in Pages : /\ Handler(p) # Closer(q) /\ Handler(p) # Reader /\ Closer(p) # Reader
                           /\ Handler(p) = Handler(q) => p = q
                           /\ Closer(p) = Closer(q) => p = q
    /\ \A t \in Callers : t[2] \in Pages /\ (t = Handler(t[2]) \/ t = Closer(t[2]))
    /\ Reader[1] = "reader"
  BY DEF Threads, Callers, Reader, Handler, Closer

LEMMA ContextFacts ==
    ASSUME NEW c \in AllCtx
    PROVE  c[1] \in Pages /\ c[2] \in Frames /\ c[3] \in 1 .. MaxDocs /\ c = <<c[1], c[2], c[3]>>
  BY DEF AllCtx

LEMMA MadeFacts ==
    ASSUME NEW e \in Made
    PROVE  /\ e.kind = "created" /\ e.ctx \in AllCtx /\ e.page = e.ctx[1] /\ e.frame = e.ctx[2]
           /\ e.page \in Pages /\ e.frame \in Frames
  BY ContextFacts DEF Made, Event

LEMMA GoneFacts ==
    ASSUME NEW e \in Gone
    PROVE  /\ e.kind = "destroyed" /\ e.ctx \in AllCtx /\ e.page = e.ctx[1] /\ e.page \in Pages
           /\ e.frame \in AnyFrame
  BY ContextFacts DEF Gone, Event

\* The kind of a write tells what it holds.
LEMMA Kinds ==
    ASSUME NEW e \in News
    PROVE  /\ e.kind = "reply" => e \in Replies /\ e.to \in Callers /\ e \notin PageEvents
           /\ e.kind # "reply" => e \in PageEvents /\ e.page \in Pages
           /\ e.kind = "created" => e \in Made
           /\ e.kind = "destroyed" => e \in Gone
           /\ e.kind \in FrameKinds => e \in FrameNews /\ e.frame \in Frames
           /\ e.kind \in PageKinds => e \in PageNews
           /\ e \in Replies => e.kind = "reply"
  <1>1. \A x \in Replies : x.kind = "reply" /\ x.to \in Callers
    BY DEF Replies
  <1>2. \A x \in FrameNews : x.kind \in FrameKinds /\ x.page \in Pages /\ x.frame \in Frames
    BY DEF FrameNews
  <1>3. \A x \in PageNews : x.kind \in PageKinds /\ x.page \in Pages
    BY DEF PageNews
  <1> QED BY <1>1, <1>2, <1>3, MadeFacts, GoneFacts DEF News, PageEvents, FrameKinds, PageKinds

LEMMA Written ==
    ASSUME NEW p \in Pages
    PROVE  /\ \A f \in Frames, n \in 1 .. MaxDocs :
                 /\ <<p, f, n>> \in AllCtx
                 /\ Event("created", p, f, <<p, f, n>>) \in Made
           /\ \A c \in AllCtx, f \in AnyFrame : c[1] = p => Event("destroyed", p, f, c) \in Gone
           /\ \A f \in Frames, k \in FrameKinds : Event(k, p, f, NoCtx) \in FrameNews
           /\ \A k \in PageKinds : Event(k, p, NoFrame, NoCtx) \in PageNews
  <1>1. ASSUME NEW f \in Frames, NEW n \in 1 .. MaxDocs
        PROVE  <<p, f, n>> \in AllCtx /\ Event("created", p, f, <<p, f, n>>) \in Made
    <2>1. <<p, f, n>> \in AllCtx
      BY <1>1 DEF AllCtx
    <2> QED BY <2>1 DEF Made
  <1>2. ASSUME NEW c \in AllCtx, NEW f \in AnyFrame, c[1] = p
        PROVE  Event("destroyed", p, f, c) \in Gone
    BY <1>2 DEF Gone
  <1> QED BY <1>1, <1>2 DEF Event, FrameNews, PageNews

LEMMA Replied ==
    ASSUME NEW t \in Callers, NEW ok \in BOOLEAN
    PROVE  /\ Reply(t, ok) \in Replies /\ Reply(t, ok) \in News /\ Reply(t, ok) \in Answers(t)
           /\ \A u \in Callers : u # t => Reply(t, ok) \notin Answers(u)
           /\ \A p \in Pages : Reply(t, ok) \notin Of(p)
  <1>1. Reply(t, ok) \in Replies /\ Reply(t, ok).to = t /\ Reply(t, ok).kind = "reply"
    BY DEF Reply, Replies
  <1> QED BY <1>1, Kinds DEF News, Answers, Of
------------------------------------------------------------------------------
(* What steps of a kind have in common.                                     *)

\* Handler(p) runs a command, other than Page.close.
Fits(l, k) ==
    /\ l = "record" => k.world \in Worlds
    /\ l \in {"mainFrame", "prior"} => k.op \in {"navigate", "fragment"}
Asks(p, l) ==
    \E call \in CallRec : l = "wait" /\ inbox' = [inbox EXCEPT ![Handler(p)] = call]
Proceeds(p) ==
    \E l \in HandlerPCs \ Cleans, k \in Command :
        /\ pc' = [pc EXCEPT ![Handler(p)] = l] /\ h' = [h EXCEPT ![p] = k]
        /\ k.op # "close" /\ Fits(l, k)
        /\ inbox' = inbox \/ Asks(p, l)
Numbers(p) ==
    \/ UNCHANGED <<ctxMap, ctxCounter>>
    \/ /\ ctxCounter' = ctxCounter + 1
       /\ \/ UNCHANGED ctxMap
          \/ \E e \in Entry : /\ e.owner = p /\ Own(p, e.ctx)
                              /\ ctxMap' = With(ctxMap, ctxCounter + 1, e)
Commanded(p) ==
    /\ UNCHANGED <<scenario, isBiDi, sessions, cleaned, frameID, pendingFrameIDs, subFrames, latestCtx,
                   ctxUniqueOwners, ev, browser, queue, reEmitted>>
    /\ pc[Handler(p)] \notin Cleans \cup {"wait"}
    /\ Proceeds(p) /\ Numbers(p)
    /\ named' \in [Pages -> FrameNames] /\ isolatedWorlds' \in [Pages -> Seq(Worlds)]
    /\ \E c \in AnyCtx : Own(p, c) /\ enabling' = [enabling EXCEPT ![p] = c]

Frameless(p) == Navigate(p) \/ WaitForMainFrame(p) \/ CallNavigate(p) \/ AwaitRollover(p) \/ RolloverTimesOut(p)
Evaluates(p) ==
    Ask(p) \/ LookUp(p) \/ ChooseContext(p) \/ WaitForAnyContext(p) \/ WriteContent(p) \/ GetLayoutMetrics(p)
Loads(p)     == Reload(p) \/ SetContent(p) \/ GetFrameTree(p) \/ PollFrame(p) \/ ProbeForFrame(p) \/ ReadFrameAgain(p)
Others(p)    == NameFrame(p) \/ CreateIsolatedWorld(p) \/ RecordIsolatedWorld(p) \/ EnableRuntime(p)

LEMMA CommandFacts ==
    /\ NoCommand \in Command /\ NoCommand.op = "none" /\ NoCommand.ctx = NoCtx
    /\ \A p \in Pages, op \in Ops, f \in FrameNames, c \in AnyCtx :
          Started(p, op, f, c) \in Command /\ Started(p, op, f, c).op = op /\ Started(p, op, f, c).ctx = c
    /\ \A k \in CallKinds, f \in FrameNames, c \in AnyCtx :
          Call(k, f, c) \in CallRec /\ Call(k, f, c).ctx = c
    /\ NoCtx \in AnyCtx /\ NoFrame \in FrameNames /\ TargetId \in FrameNames /\ Placeholder \in FrameNames
    /\ \A p : Own(p, NoCtx)
  <1>1. /\ NoCtx \in AnyCtx /\ NoFrame \in FrameNames /\ TargetId \in FrameNames /\ Placeholder \in FrameNames
        /\ "main" \in AnyWorld /\ "none" \in Ops
    BY DEF AnyCtx, FrameNames, AnyWorld, Ops
  <1>2. NoCommand \in Command
    BY <1>1 DEF NoCommand, Command
  <1>3. ASSUME NEW p \in Pages, NEW op \in Ops, NEW f \in FrameNames, NEW c \in AnyCtx
        PROVE  Started(p, op, f, c) \in Command /\ Started(p, op, f, c).op = op /\ Started(p, op, f, c).ctx = c
    BY <1>2 DEF Started, Command
  <1>4. \A k \in CallKinds, f \in FrameNames, c \in AnyCtx :
          Call(k, f, c) \in CallRec /\ Call(k, f, c).ctx = c
    BY DEF Call, CallRec
  <1> QED BY <1>1, <1>2, <1>3, <1>4 DEF NoCommand, Own

LEMMA ReadFacts ==
    ASSUME Typed, Owners, NEW p \in Pages
    PROVE  /\ Latest(p) \in AnyCtx /\ Own(p, Latest(p))
           /\ frameID[p] \in FrameNames /\ named[p] \in FrameNames
           /\ \A f \in FrameNames : JugglerFrameIDForSession(p, f) \in FrameNames
           /\ h[p] \in Command /\ enabling[p] \in AnyCtx /\ Own(p, enabling[p])
           /\ docs[p] \in Nat
  <1>1. frameID[p] \in FrameNames /\ named[p] \in FrameNames /\ h[p] \in Command /\ docs[p] \in Nat
    BY DEF Typed, Caches, Goroutines, Browser, AnyFrame, FrameNames
  <1>2. Latest(p) \in AnyCtx /\ Own(p, Latest(p)) /\ enabling[p] \in AnyCtx
    BY CommandFacts DEF Typed, Caches, Goroutines, Owners, Latest
  <1> QED BY <1>1, <1>2 DEF JugglerFrameIDForSession, Owners

LEMMA Proceeding ==
    ASSUME NEW p \in Pages, NEW l \in HandlerPCs, l \notin Cleans, NEW k \in Command,
           Then(p, k, l), k.op # "close", Fits(l, k), UNCHANGED inbox
    PROVE  Proceeds(p)
  BY DEF Then, Goto, Proceeds

LEMMA Calling ==
    ASSUME NEW p \in Pages, NEW k \in Command, NEW call \in CallRec, ThenSend(p, k, call),
           k.op # "close"
    PROVE  Proceeds(p)
  <1>1. "wait" \in HandlerPCs \ Cleans /\ Fits("wait", k)
    BY DEF HandlerPCs, Cleans, Fits
  <1>2. Asks(p, "wait")
    BY DEF ThenSend, Send, Asks
  <1> QED BY <1>1, <1>2 DEF ThenSend, Send, Goto, Proceeds

\* A command that keeps to its handler.
LEMMA Simply ==
    ASSUME Typed, Owners, NEW p \in Pages, pc[Handler(p)] \notin Cleans \cup {"wait"},
           UNCHANGED <<bridge, ev, enabling, browser, queue, named, reEmitted>>, Proceeds(p)
    PROVE  Commanded(p)
  <1>1. enabling' = [enabling EXCEPT ![p] = enabling[p]] /\ named' \in [Pages -> FrameNames]
        /\ isolatedWorlds' \in [Pages -> Seq(Worlds)]
    BY DEF Typed, Goroutines, Caches, bridge
  <1>2. enabling[p] \in AnyCtx /\ Own(p, enabling[p])
    BY ReadFacts
  <1> QED BY <1>1, <1>2 DEF Commanded, Numbers, bridge

LEMMA FramelessMoves ==
    ASSUME Typed, Owners, NEW p \in Pages, Frameless(p)
    PROVE  Commanded(p)
  <1>0. h[p] \in Command /\ frameID[p] \in FrameNames /\ Latest(p) \in AnyCtx /\ docs[p] \in Nat
    BY ReadFacts
  <1>a. pc[Handler(p)] \notin Cleans \cup {"wait"} => h[p].op # "close"
    BY DEF Typed, Goroutines
  <1>1. CASE Navigate(p)
    <2>1. PICK op \in {"navigate", "fragment"}, f \in {NoFrame, named[p]} :
             /\ Begin(p, op)
             /\ LET frame == JugglerFrameIDForSession(p, f)
                IN  IF FrameKnown(frame)
                      THEN Then(p, Started(p, op, frame, NoCtx), "prior")
                      ELSE Then(p, Started(p, op, NoFrame, NoCtx), "mainFrame")
             /\ UNCHANGED <<Local, inbox>>
      BY <1>1 DEF Navigate
    <2>2. JugglerFrameIDForSession(p, f) \in FrameNames
      BY ReadFacts, CommandFacts
    <2>3. PICK k \in Command, l \in {"prior", "mainFrame"} :
             Then(p, k, l) /\ k.op = op /\ k.ctx = NoCtx
      BY <2>1, <2>2, CommandFacts DEF Ops
    <2>4. Proceeds(p)
      BY <2>1, <2>3, CommandFacts, Proceeding DEF HandlerPCs, Cleans, Fits
    <2> QED BY <2>1, <2>4, Simply DEF Begin, Local, Cleans
  <1>2. CASE WaitForMainFrame(p)
    <2>1. PICK k \in Command, l \in {"prior", "idle"} :
             Then(p, k, l) /\ k.op # "close" /\ Fits(l, k)
      <3>1. CASE Then(p, [h[p] EXCEPT !.frame = frameID[p]], "prior")
        <4>1. /\ [h[p] EXCEPT !.frame = frameID[p]] \in Command
              /\ [h[p] EXCEPT !.frame = frameID[p]].op = h[p].op
              /\ [h[p] EXCEPT !.frame = frameID[p]].ctx = h[p].ctx
          BY <1>0 DEF Command
        <4>2. h[p].op \in {"navigate", "fragment"}
          BY <1>2 DEF WaitForMainFrame, Typed, Goroutines
        <4> QED BY <1>0, <3>1, <4>1, <4>2 DEF Fits
      <3>2. CASE Done(p)
        BY <3>2, CommandFacts DEF Done, Fits
      <3> QED BY <1>2, <3>1, <3>2 DEF WaitForMainFrame
    <2>2. Proceeds(p)
      BY <1>2, <2>1, Proceeding DEF WaitForMainFrame, HandlerPCs, Cleans
    <2> QED BY <1>2, <2>2, Simply DEF WaitForMainFrame, Local, Cleans
  <1>3. CASE CallNavigate(p)
    <2> DEFINE k == [h[p] EXCEPT !.prior = Latest(p), !.from = docs[p], !.clean = ~Unread(p)]
               call == Call(h[p].op, h[p].frame, NoCtx)
    <2>0. (~Unread(p)) \in BOOLEAN
      OBVIOUS
    <2>1. k \in Command /\ k.op = h[p].op /\ k.ctx = h[p].ctx
      BY <1>0, <2>0 DEF Command
    <2>2. h[p].op \in {"navigate", "fragment"}
      BY <1>3 DEF CallNavigate, Typed, Goroutines
    <2>3. call \in CallRec /\ call.ctx = NoCtx
      BY <1>0, <2>2, CommandFacts DEF Command, CallKinds
    <2>4. ThenSend(p, k, call)
      BY <1>3 DEF CallNavigate
    <2> HIDE DEF k, call
    <2>5. Proceeds(p)
      BY <1>0, <2>1, <2>2, <2>3, <2>4, CommandFacts, Calling
    <2> QED BY <1>3, <2>5, Simply DEF CallNavigate, Local, Cleans
  <1>4. CASE AwaitRollover(p) \/ RolloverTimesOut(p)
    <2>1. pc[Handler(p)] = "roll" /\ Done(p) /\ UNCHANGED <<Local, inbox>>
      BY <1>4 DEF AwaitRollover, RolloverTimesOut
    <2>2. Proceeds(p)
      BY <2>1, CommandFacts, Proceeding DEF Done, HandlerPCs, Cleans, Fits
    <2> QED BY <2>1, <2>2, Simply DEF Local, Cleans
  <1> QED BY <1>1, <1>2, <1>3, <1>4 DEF Frameless

LEMMA EvaluatesMoves ==
    ASSUME Typed, Owners, NEW p \in Pages, Evaluates(p)
    PROVE  Commanded(p)
  <1>0. /\ h[p] \in Command /\ Latest(p) \in AnyCtx /\ Own(p, Latest(p))
        /\ h[p].ctx \in AnyCtx
    BY ReadFacts DEF Command
  <1>a. pc[Handler(p)] \notin Cleans \cup {"wait"} => h[p].op # "close"
    BY DEF Typed, Goroutines
  <1>1. CASE Ask(p)
    <2>1. PICK op \in {"evaluate", "call", "callWithObjects"},
               c \in {NoCtx} \cup scenario.uniqueIds, i \in 0 .. ctxCounter + 1 :
             /\ Begin(p, op)
             /\ Then(p, [Started(p, op, NoFrame, c) EXCEPT !.number = i, !.unowned = Unowned(c, i)],
                     IF i = 0 THEN "choose" ELSE "lookup")
             /\ UNCHANGED <<Local, inbox>>
      BY <1>1 DEF Ask, NextCtxID
    <2>2. c \in AnyCtx /\ i \in Nat
      BY ContextsAssumption DEF Typed, Browser, AnyCtx
    <2> DEFINE k == [Started(p, op, NoFrame, c) EXCEPT !.number = i, !.unowned = Unowned(c, i)]
               l == IF i = 0 THEN "choose" ELSE "lookup"
    <2>3. Unowned(c, i) \in BOOLEAN
      BY DEF Unowned
    <2>4. k \in Command /\ k.op = op
      <3>1. Started(p, op, NoFrame, c) \in Command /\ Started(p, op, NoFrame, c).op = op
        BY <2>2, CommandFacts DEF Ops
      <3> QED BY <2>2, <2>3, <3>1 DEF Command
    <2>5. Proceeds(p)
      <3>1. l \in HandlerPCs /\ l \notin Cleans /\ l \notin {"record", "mainFrame", "prior"}
        BY DEF HandlerPCs, Cleans
      <3>2. Then(p, k, l) /\ k.op # "close"
        BY <2>1, <2>4
      <3> HIDE DEF k, l
      <3> QED BY <2>1, <2>4, <3>1, <3>2, Proceeding DEF Fits
    <2> QED BY <2>1, <2>5, Simply DEF Begin, Local, Cleans
  <1>b. CASE LookUp(p)
    <2>1. PICK c \in AnyCtx, b \in BOOLEAN :
             Then(p, [h[p] EXCEPT !.ctx = c, !.number = 0, !.unowned = b], "choose")
      <3> DEFINE i == h[p].number
                 c == IF i \in DOMAIN ctxMap THEN ctxMap[i].ctx ELSE NoCtx
      <3>1. c \in AnyCtx
        BY DEF Typed, Caches, Entry, AnyCtx
      <3>2. (h[p].unowned /\ c # NoCtx) \in BOOLEAN
        OBVIOUS
      <3>3. Then(p, [h[p] EXCEPT !.ctx = c, !.number = 0, !.unowned = h[p].unowned /\ c # NoCtx], "choose")
        BY <1>0, <1>b DEF LookUp, Command
      <3> HIDE DEF c
      <3> QED BY <3>1, <3>2, <3>3
    <2> DEFINE k == [h[p] EXCEPT !.ctx = c, !.number = 0, !.unowned = b]
    <2>2. k \in Command /\ k.op = h[p].op
      BY <1>0 DEF Command
    <2>3. Then(p, k, "choose") /\ pc[Handler(p)] = "lookup" /\ UNCHANGED <<Local, inbox>>
      BY <1>b, <2>1 DEF LookUp
    <2> HIDE DEF k
    <2>4. Proceeds(p)
      BY <1>a, <2>2, <2>3, Proceeding DEF HandlerPCs, Cleans, Fits
    <2> QED BY <2>3, <2>4, Simply DEF Local, Cleans
  <1>2. ASSUME NEW c \in AnyCtx, Evaluate(p, c), h[p].op # "close" PROVE Proceeds(p)
    <2>0. PICK b \in BOOLEAN : ThenSend(p, [h[p] EXCEPT !.ctx = c, !.unowned = b], Call("evaluate", NoFrame, c))
      <3>1. (h[p].unowned /\ c # Latest(p)) \in BOOLEAN
        OBVIOUS
      <3>2. ThenSend(p, [h[p] EXCEPT !.ctx = c, !.unowned = h[p].unowned /\ c # Latest(p)],
                     Call("evaluate", NoFrame, c))
        BY <1>0, <1>2 DEF Evaluate, Command
      <3> QED BY <3>1, <3>2
    <2> DEFINE k == [h[p] EXCEPT !.ctx = c, !.unowned = b]
    <2>1. k \in Command /\ k.op = h[p].op
      BY <1>0 DEF Command
    <2>2. ThenSend(p, k, Call("evaluate", NoFrame, c))
      BY <2>0
    <2>3. Call("evaluate", NoFrame, c) \in CallRec
      BY CommandFacts DEF CallKinds
    <2> HIDE DEF k
    <2> QED BY <1>2, <2>1, <2>2, <2>3, Calling
  <1>3. CASE ChooseContext(p)
    <2>1. pc[Handler(p)] = "choose" /\ UNCHANGED Local
      BY <1>3 DEF ChooseContext
    <2>2. Chosen(p, h[p].op, h[p].ctx) \in AnyCtx
      BY <1>0 DEF Chosen
    <2>3. CASE Evaluate(p, Chosen(p, h[p].op, h[p].ctx))
      BY <1>2, <1>a, <2>1, <2>2, <2>3, Simply DEF Local, Cleans
    <2>4. CASE Goto(Handler(p), "anyContext") /\ UNCHANGED <<h, inbox>>
      <3>1. Then(p, h[p], "anyContext")
        BY <2>4 DEF Then, Typed, Goroutines
      <3>2. Proceeds(p)
        BY <1>0, <1>a, <2>1, <2>4, <3>1, Proceeding DEF HandlerPCs, Cleans, Fits
      <3> QED BY <2>1, <3>2, Simply DEF Local, Cleans
    <2> QED BY <1>3, <2>3, <2>4 DEF ChooseContext
  <1>4. CASE WaitForAnyContext(p)
    <2>1. pc[Handler(p)] = "anyContext" /\ UNCHANGED Local
      BY <1>4 DEF WaitForAnyContext
    <2>2. Proceeds(p)
      <3>1. CASE Evaluate(p, Latest(p))
        BY <1>0, <1>2, <1>a, <2>1, <3>1 DEF Cleans
      <3>2. CASE Done(p) /\ UNCHANGED inbox
        BY <3>2, CommandFacts, Proceeding DEF Done, HandlerPCs, Cleans, Fits
      <3> QED BY <1>4, <3>1, <3>2 DEF WaitForAnyContext
    <2> QED BY <2>1, <2>2, Simply DEF Local, Cleans
  <1>5. Call("evaluate", NoFrame, NoCtx) \in CallRec /\ Call("evaluate", NoFrame, NoCtx).ctx = NoCtx
    BY CommandFacts DEF CallKinds
  <1>6. CASE WriteContent(p)
    <2> DEFINE k == [h[p] EXCEPT !.op = "write"]
    <2>1. k \in Command /\ k.op = "write" /\ k.ctx = h[p].ctx
      BY <1>0 DEF Command, Ops
    <2>2. ThenSend(p, k, Call("evaluate", NoFrame, NoCtx)) /\ pc[Handler(p)] = "write" /\ UNCHANGED Local
      BY <1>6 DEF WriteContent
    <2> HIDE DEF k
    <2>3. Proceeds(p)
      BY <1>0, <1>5, <2>1, <2>2, Calling, CommandFacts
    <2> QED BY <2>2, <2>3, Simply DEF Local, Cleans
  <1>7. CASE GetLayoutMetrics(p)
    <2> DEFINE k == Started(p, "metrics", NoFrame, NoCtx)
    <2>1. k \in Command /\ k.op = "metrics" /\ k.ctx = NoCtx
      BY CommandFacts DEF Ops
    <2>2. ThenSend(p, k, Call("evaluate", NoFrame, NoCtx)) /\ pc[Handler(p)] = "idle" /\ UNCHANGED Local
      BY <1>7 DEF GetLayoutMetrics, Begin
    <2> HIDE DEF k
    <2>3. Proceeds(p)
      BY <1>5, <2>1, <2>2, Calling, CommandFacts
    <2> QED BY <2>2, <2>3, Simply DEF Local, Cleans
  <1> QED BY <1>1, <1>b, <1>3, <1>4, <1>6, <1>7 DEF Evaluates

LEMMA LoadsMoves ==
    ASSUME Typed, Owners, NEW p \in Pages, Loads(p)
    PROVE  Commanded(p)
  <1>0. h[p] \in Command /\ frameID[p] \in FrameNames /\ named[p] \in FrameNames
    BY ReadFacts
  <1>a. pc[Handler(p)] \notin Cleans \cup {"wait"} => h[p].op # "close"
    BY DEF Typed, Goroutines
  <1>b. ASSUME NEW k \in Command, k.op # "close", NEW l \in {"name", "frame"},
               pc[Handler(p)] \notin Cleans \cup {"wait"},
               Then(p, k, l), UNCHANGED <<Local, inbox>>
        PROVE  Commanded(p)
    <2>1. Proceeds(p)
      BY <1>b, Proceeding DEF HandlerPCs, Cleans, Fits
    <2> QED BY <1>b, <2>1, Simply DEF Local
  <1>c. ASSUME NEW k \in Command, k.op # "close", NEW call \in CallRec, call.ctx = NoCtx,
               pc[Handler(p)] \notin Cleans \cup {"wait"},
               ThenSend(p, k, call), UNCHANGED Local
        PROVE  Commanded(p)
    <2>1. Proceeds(p)
      BY <1>c, Calling, CommandFacts
    <2> QED BY <1>c, <2>1, Simply DEF Local
  <1>d. ASSUME NEW f \in FrameNames
        PROVE  /\ [h[p] EXCEPT !.frame = f] \in Command /\ [h[p] EXCEPT !.frame = f].op = h[p].op
               /\ [h[p] EXCEPT !.frame = f].ctx = h[p].ctx
    BY <1>0 DEF Command
  <1>1. CASE Reload(p)
    <2>1. /\ Started(p, "reload", NoFrame, NoCtx) \in Command
          /\ Started(p, "reload", NoFrame, NoCtx).op = "reload"
          /\ Started(p, "reload", NoFrame, NoCtx).ctx = NoCtx
          /\ Call("reload", NoFrame, NoCtx) \in CallRec /\ Call("reload", NoFrame, NoCtx).ctx = NoCtx
      BY CommandFacts DEF Ops, CallKinds
    <2> QED BY <1>1, <1>c, <2>1, CommandFacts DEF Reload, Begin, Cleans
  <1>2. CASE SetContent(p)
    <2>1. PICK f \in {NoFrame, named[p]} :
             /\ Begin(p, "setContent")
             /\ ThenSend(p, Started(p, "setContent", JugglerFrameIDForSession(p, f), NoCtx),
                         Call("navigate", JugglerFrameIDForSession(p, f), NoCtx))
             /\ UNCHANGED Local
      BY <1>2 DEF SetContent
    <2>2. JugglerFrameIDForSession(p, f) \in FrameNames
      BY ReadFacts, CommandFacts
    <2> DEFINE g == JugglerFrameIDForSession(p, f)
    <2> HIDE DEF g
    <2>3. /\ Started(p, "setContent", g, NoCtx) \in Command
          /\ Started(p, "setContent", g, NoCtx).op = "setContent"
          /\ Started(p, "setContent", g, NoCtx).ctx = NoCtx
          /\ Call("navigate", g, NoCtx) \in CallRec /\ Call("navigate", g, NoCtx).ctx = NoCtx
      BY <2>2, CommandFacts DEF Ops, CallKinds, g
    <2> QED BY <1>c, <2>1, <2>3, CommandFacts DEF Begin, Cleans, g
  <1>3. CASE GetFrameTree(p)
    <2>1. PICK f \in {frameID[p], NoFrame}, l \in {"name", "frame"} :
             Then(p, Started(p, "frameTree", f, NoCtx), l)
      BY <1>3 DEF GetFrameTree
    <2>2. /\ Started(p, "frameTree", f, NoCtx) \in Command
          /\ Started(p, "frameTree", f, NoCtx).op = "frameTree"
          /\ Started(p, "frameTree", f, NoCtx).ctx = NoCtx
      BY <1>0, CommandFacts DEF Ops
    <2> QED BY <1>3, <1>b, <2>1, <2>2, CommandFacts DEF GetFrameTree, Begin, Cleans
  <1>4. CASE PollFrame(p)
    BY <1>0, <1>a, <1>b, <1>d, <1>4 DEF PollFrame, Cleans
  <1>5. CASE ProbeForFrame(p)
    <2>1. ThenSend(p, h[p], Call("probe", NoFrame, NoCtx)) /\ pc[Handler(p)] = "frame" /\ UNCHANGED Local
      BY <1>5 DEF ProbeForFrame, ThenSend, Typed, Goroutines
    <2>2. Call("probe", NoFrame, NoCtx) \in CallRec /\ Call("probe", NoFrame, NoCtx).ctx = NoCtx
      BY CommandFacts DEF CallKinds
    <2> QED BY <1>0, <1>a, <1>c, <2>1, <2>2 DEF Cleans
  <1>6. CASE ReadFrameAgain(p)
    <2>1. PICK f \in FrameNames : Then(p, [h[p] EXCEPT !.frame = f], "name")
      BY <1>0, <1>6, CommandFacts DEF ReadFrameAgain
    <2> QED BY <1>0, <1>a, <1>b, <1>d, <1>6, <2>1 DEF ReadFrameAgain, Cleans
  <1> QED BY <1>1, <1>2, <1>3, <1>4, <1>5, <1>6 DEF Loads

LEMMA OthersMove ==
    ASSUME Typed, Owners, NEW p \in Pages, Others(p)
    PROVE  Commanded(p)
  <1>0. /\ h[p] \in Command /\ frameID[p] \in FrameNames /\ Latest(p) \in AnyCtx
        /\ Own(p, Latest(p)) /\ enabling[p] \in AnyCtx /\ Own(p, enabling[p])
    BY ReadFacts
  <1>a. enabling = [enabling EXCEPT ![p] = enabling[p]]
    BY DEF Typed, Goroutines
  <1>b. ASSUME Done(p), UNCHANGED inbox PROVE Proceeds(p)
    BY <1>b, CommandFacts, Proceeding DEF Done, HandlerPCs, Cleans, Fits
  <1>1. CASE NameFrame(p)
    <2>1. pc[Handler(p)] = "name" /\ Done(p)
          /\ UNCHANGED <<bridge, ev, enabling, browser, inbox, queue, reEmitted>>
      BY <1>1 DEF NameFrame
    <2>2. h[p].frame \in FrameNames /\ TargetId \in FrameNames /\ named \in [Pages -> FrameNames]
      BY <1>0, CommandFacts DEF Command, Typed, Goroutines
    <2>3. named' \in [Pages -> FrameNames]
      BY <1>1, <2>2 DEF NameFrame
    <2>4. Proceeds(p)
      BY <1>b, <2>1
    <2>5. isolatedWorlds' \in [Pages -> Seq(Worlds)]
      BY <2>1 DEF Typed, Caches, bridge
    <2> QED BY <1>0, <1>a, <2>1, <2>3, <2>4, <2>5 DEF Commanded, Numbers, bridge, Cleans
  <1>2. CASE CreateIsolatedWorld(p)
    <2> DEFINE own == {i \in DOMAIN ctxMap : ctxMap[i].owner = p}
               last == CHOOSE i \in own : \A j \in own : j <= i
    <2>1. PICK w \in Worlds :
             /\ Begin(p, "isolatedWorld")
             /\ ctxCounter' = ctxCounter + 1
             /\ ctxMap' = IF own = {} THEN ctxMap
                          ELSE With(ctxMap, ctxCounter + 1, [ctx |-> ctxMap[last].ctx, owner |-> p, world |-> w])
             /\ Then(p, [Started(p, "isolatedWorld", NoFrame, NoCtx) EXCEPT !.world = w], "record")
             /\ UNCHANGED <<scenario, isBiDi, sessions, cleaned, frameID, pendingFrameIDs, subFrames,
                            latestCtx, ctxUniqueOwners, isolatedWorlds, ev, enabling, browser, inbox,
                            queue, named, reEmitted>>
      BY <1>2 DEF CreateIsolatedWorld, NextCtxID
    <2> DEFINE k == [Started(p, "isolatedWorld", NoFrame, NoCtx) EXCEPT !.world = w]
    <2>2. k \in Command /\ k.op = "isolatedWorld" /\ k.ctx = NoCtx /\ k.world = w
      <3>1. /\ Started(p, "isolatedWorld", NoFrame, NoCtx) \in Command
            /\ Started(p, "isolatedWorld", NoFrame, NoCtx).op = "isolatedWorld"
            /\ Started(p, "isolatedWorld", NoFrame, NoCtx).ctx = NoCtx
        BY CommandFacts DEF Ops
      <3> QED BY <3>1 DEF Command, AnyWorld
    <2>3. Proceeds(p)
      <3>1. Then(p, k, "record") /\ UNCHANGED inbox
        BY <2>1
      <3> HIDE DEF k
      <3> QED BY <2>1, <2>2, <3>1, CommandFacts, Proceeding DEF HandlerPCs, Cleans, Fits
    <2>4. Numbers(p)
      <3>1. CASE own = {}
        BY <2>1, <3>1 DEF Numbers
      <3>2. CASE own # {}
        <4>1. ctxCounter \in Nat /\ \A i \in own : i \in 0 .. ctxCounter
          BY DEF Typed, Caches
        <4>2. \E i \in own : \A j \in own : j <= i
          <5> HIDE DEF own
          <5> QED BY <3>2, <4>1, Greatest
        <4>3. last \in own
          BY <4>2
        <4> DEFINE e == [ctx |-> ctxMap[last].ctx, owner |-> p, world |-> w]
        <4>4. ctxMap[last] \in Entry /\ ctxMap[last].owner = p /\ p # NoPage /\ last \in DOMAIN ctxMap
          BY <4>3, AbsenceAssumption DEF Typed, Caches
        <4>5. e \in Entry /\ e.owner = p /\ Own(p, e.ctx)
          <5> HIDE DEF last
          <5> QED BY <4>4 DEF Entry, AnyPage, AnyWorld, Owners
        <4>6. ctxMap' = With(ctxMap, ctxCounter + 1, e) /\ ctxCounter' = ctxCounter + 1
          BY <2>1, <3>2
        <4> HIDE DEF e
        <4> QED BY <4>5, <4>6 DEF Numbers
      <3> QED BY <3>1, <3>2
    <2>5. isolatedWorlds' \in [Pages -> Seq(Worlds)] /\ named' \in [Pages -> FrameNames]
      BY <2>1 DEF Typed, Caches, Goroutines
    <2> HIDE DEF k, own, last
    <2> QED BY <1>0, <1>a, <2>1, <2>3, <2>4, <2>5 DEF Commanded, Begin, Cleans
  <1>3. CASE RecordIsolatedWorld(p)
    <2>1. /\ pc[Handler(p)] = "record" /\ Done(p)
          /\ isolatedWorlds' = [isolatedWorlds EXCEPT ![p] = Append(@, h[p].world)]
          /\ UNCHANGED <<scenario, isBiDi, sessions, cleaned, frameID, pendingFrameIDs, subFrames,
                         latestCtx, contextMaps, ev, enabling, browser, inbox, queue, named, reEmitted>>
      BY <1>3 DEF RecordIsolatedWorld
    <2>2. h[p].world \in Worlds /\ isolatedWorlds[p] \in Seq(Worlds) /\ named' \in [Pages -> FrameNames]
      BY <2>1 DEF Typed, Goroutines, Caches
    <2>3. isolatedWorlds' \in [Pages -> Seq(Worlds)]
      BY <2>1, <2>2 DEF Typed, Caches
    <2>4. Proceeds(p)
      BY <1>b, <2>1
    <2> QED BY <1>0, <1>a, <2>1, <2>2, <2>3, <2>4 DEF Commanded, Numbers, contextMaps, Cleans
  <1>4. CASE EnableRuntime(p)
    <2>1. /\ pc[Handler(p)] = "idle" /\ enabling' = [enabling EXCEPT ![p] = Latest(p)]
          /\ UNCHANGED <<bridge, pc, h, ev, browser, inbox, queue, named, reEmitted>>
      BY <1>4 DEF EnableRuntime, Begin
    <2>2. Then(p, h[p], "idle") /\ h[p].op # "close"
      BY <2>1 DEF Then, Goto, Typed, Goroutines, Cleans
    <2>3. Proceeds(p)
      BY <1>0, <2>1, <2>2, Proceeding DEF HandlerPCs, Cleans, Fits
    <2>4. isolatedWorlds' \in [Pages -> Seq(Worlds)] /\ named' \in [Pages -> FrameNames]
      BY <2>1 DEF Typed, Caches, Goroutines, bridge
    <2> QED BY <1>0, <2>1, <2>3, <2>4 DEF Commanded, Numbers, bridge, Cleans
  <1> QED BY <1>1, <1>2, <1>3, <1>4 DEF Others

\* Every step of a handler is a command's or a cleanup's.
LEMMA Commands ==
    ASSUME Typed, Owners, NEW p \in Pages, HandlerStep(p)
    PROVE  Commanded(p) \/ CleanupStep(Handler(p))
  BY FramelessMoves, EvaluatesMoves, LoadsMoves, OthersMove
     DEF HandlerStep, Frameless, Evaluates, Loads, Others
------------------------------------------------------------------------------
(* Types are kept, and the owners of contexts.                              *)

Maps ==
    /\ ctxCounter \in Nat /\ DOMAIN ctxMap \subseteq 1 .. ctxCounter
    /\ \A i \in DOMAIN ctxMap :
          /\ ctxMap[i] \in Entry
          /\ ctxMap[i].owner # NoPage => Own(ctxMap[i].owner, ctxMap[i].ctx)

LEMMA MapGrows ==
    ASSUME Typed, Owners, ctxCounter' \in {ctxCounter, ctxCounter + 1},
           NEW i \in Nat, i > 0, i <= ctxCounter', NEW e \in Entry, e.owner # NoPage => Own(e.owner, e.ctx),
           ctxMap' = With(ctxMap, i, e)
    PROVE  Maps'
  <1>1. ctxCounter \in Nat /\ ctxCounter' \in Nat /\ ctxCounter <= ctxCounter'
    BY DEF Typed, Caches
  <1>2. \A j \in DOMAIN ctxMap : j \in 1 .. ctxCounter'
    BY <1>1 DEF Typed, Caches
  <1>3. DOMAIN ctxMap' = DOMAIN ctxMap \cup {i} /\ ctxMap'[i] = e
        /\ \A j \in DOMAIN ctxMap : j # i => ctxMap'[j] = ctxMap[j]
    BY DEF With
  <1>4. i \in 1 .. ctxCounter'
    BY <1>1
  <1>5. \A j \in DOMAIN ctxMap' : ctxMap'[j] = e \/ (j \in DOMAIN ctxMap /\ ctxMap'[j] = ctxMap[j])
    BY <1>3
  <1> QED BY <1>1, <1>2, <1>3, <1>4, <1>5 DEF Maps, Typed, Caches, Owners

LEMMA MapShrinks ==
    ASSUME Typed, Owners, ctxCounter' \in {ctxCounter, ctxCounter + 1},
           UNCHANGED ctxMap \/ \E S : ctxMap' = Without(ctxMap, S)
    PROVE  Maps'
  <1>1. ctxCounter \in Nat /\ ctxCounter' \in Nat /\ ctxCounter <= ctxCounter'
    BY DEF Typed, Caches
  <1>2. \A j \in DOMAIN ctxMap : j \in 1 .. ctxCounter'
    BY <1>1 DEF Typed, Caches
  <1>3. \A j \in DOMAIN ctxMap' : j \in DOMAIN ctxMap /\ ctxMap'[j] = ctxMap[j]
    <2>1. CASE UNCHANGED ctxMap
      BY <2>1
    <2>2. ASSUME NEW S, ctxMap' = Without(ctxMap, S)
          PROVE  \A j \in DOMAIN ctxMap' : j \in DOMAIN ctxMap /\ ctxMap'[j] = ctxMap[j]
      BY <2>2 DEF Without, Restrict
    <2> QED BY <2>1, <2>2
  <1> QED BY <1>1, <1>2, <1>3 DEF Maps, Typed, Caches, Owners

LEMMA MapNumbers ==
    ASSUME Typed, Owners, NEW p \in Pages, Numbers(p)
    PROVE  /\ Maps' /\ ctxCounter' \in {ctxCounter, ctxCounter + 1}
           /\ DOMAIN ctxMap' \subseteq DOMAIN ctxMap \cup {ctxCounter + 1}
  <1>1. CASE \E e \in Entry : /\ e.owner = p /\ Own(p, e.ctx)
                              /\ ctxMap' = With(ctxMap, ctxCounter + 1, e) /\ ctxCounter' = ctxCounter + 1
    <2>1. PICK e \in Entry : /\ e.owner = p /\ Own(p, e.ctx)
                             /\ ctxMap' = With(ctxMap, ctxCounter + 1, e) /\ ctxCounter' = ctxCounter + 1
      BY <1>1
    <2>2. ctxCounter + 1 \in Nat /\ ctxCounter + 1 > 0 /\ ctxCounter + 1 <= ctxCounter'
      BY <2>1 DEF Typed, Caches
    <2>3. DOMAIN ctxMap' = DOMAIN ctxMap \cup {ctxCounter + 1}
      BY <2>1 DEF With
    <2> QED BY <2>1, <2>2, <2>3, MapGrows
  <1>2. CASE UNCHANGED ctxMap /\ ctxCounter' \in {ctxCounter, ctxCounter + 1}
    BY <1>2, MapShrinks
  <1> QED BY <1>1, <1>2 DEF Numbers

\* Others' steps leave the read loop what it has in hand.
LEMMA InHandKept ==
    ASSUME Typed, UNCHANGED ev, pc'[Reader] = pc[Reader], ctxCounter' \in {ctxCounter, ctxCounter + 1},
           DOMAIN ctxMap' \subseteq DOMAIN ctxMap \cup {ctxCounter + 1}
    PROVE  InHand'
  <1>1. ctxCounter \in Nat
    BY DEF Typed, Caches
  <1>2. \A i \in (1 .. ctxCounter) \ DOMAIN ctxMap : i \in (1 .. ctxCounter') \ DOMAIN ctxMap'
    BY <1>1
  <1> QED BY <1>2 DEF Typed, InHand

LEMMA TypedCommand ==
    ASSUME Typed, Owners, NEW p \in Pages, Commanded(p)
    PROVE  Typed' /\ Owners'
  <1>1. PICK l \in HandlerPCs \ Cleans, k \in Command :
           /\ pc' = [pc EXCEPT ![Handler(p)] = l] /\ h' = [h EXCEPT ![p] = k]
           /\ k.op # "close" /\ Fits(l, k)
           /\ inbox' = inbox \/ Asks(p, l)
    BY DEF Commanded, Proceeds
  <1>2. /\ Maps' /\ ctxCounter' \in {ctxCounter, ctxCounter + 1}
        /\ DOMAIN ctxMap' \subseteq DOMAIN ctxMap \cup {ctxCounter + 1}
    BY MapNumbers DEF Commanded
  <1>3. Caches'
    BY <1>2 DEF Commanded, Typed, Caches, Maps
  <1>4. /\ pc'[Handler(p)] = l /\ pc'[Reader] = pc[Reader]
        /\ \A q \in Pages : pc'[Closer(q)] = pc[Closer(q)] /\ (q # p => pc'[Handler(q)] = pc[Handler(q)])
        /\ pc' \in [Threads -> HandlerPCs \cup ReaderPCs]
    BY <1>1, ThreadFacts DEF Typed, Goroutines
  <1>5. h' \in [Pages -> Command] /\ h'[p] = k /\ \A q \in Pages : q # p => h'[q] = h[q]
    BY <1>1 DEF Typed, Goroutines
  <1>6. /\ inbox' \in [Threads -> {NoEvent} \cup CallRec] /\ inbox'[Reader] = NoEvent
    <2>1. CASE inbox' = inbox
      BY <2>1 DEF Typed, Goroutines
    <2>2. CASE Asks(p, l)
      <3>1. PICK call \in CallRec : inbox' = [inbox EXCEPT ![Handler(p)] = call]
        BY <2>2 DEF Asks
      <3> QED BY <3>1, ThreadFacts DEF Typed, Goroutines
    <2> QED BY <1>1, <2>1, <2>2
  <1>7. /\ enabling' \in [Pages -> AnyCtx] /\ Own(p, enabling'[p])
        /\ \A q \in Pages : q # p => enabling'[q] = enabling[q]
    BY DEF Commanded, Typed, Goroutines
  <1>8. Goroutines'
    <2>1. ASSUME NEW q \in Pages
          PROVE  /\ pc'[Handler(q)] \in HandlerPCs /\ pc'[Closer(q)] \in CloserPCs
                 /\ pc'[Handler(q)] = "record" => h'[q].world \in Worlds
                 /\ pc'[Handler(q)] \in {"mainFrame", "prior"} => h'[q].op \in {"navigate", "fragment"}
                 /\ pc'[Handler(q)] \in Cleans => h'[q].op = "close"
                 /\ pc'[Handler(q)] \notin Cleans \cup {"wait"} => h'[q].op # "close"
      <3>1. CASE q = p
        BY <1>1, <1>4, <1>5, <3>1 DEF Fits, Typed, Goroutines
      <3>2. CASE q # p
        BY <1>4, <1>5, <3>2 DEF Typed, Goroutines
      <3> QED BY <3>1, <3>2
    <2> QED BY <1>4, <1>5, <1>6, <1>7, <2>1 DEF Goroutines, Commanded, Typed
  <1>9. InHand' /\ Browser'
    BY <1>4, <1>2, InHandKept DEF Commanded, browser, Typed, Browser
  <1>10. Owners'
    <2>1. ASSUME NEW q \in Pages
          PROVE  Own(q, latestCtx'[q]) /\ Own(q, enabling'[q])
      BY <1>7 DEF Owners, Commanded
    <2>2. UNCHANGED ctxUniqueOwners
      BY DEF Commanded
    <2> QED BY <1>2, <2>1, <2>2 DEF Owners, Maps
  <1> QED BY <1>3, <1>8, <1>9, <1>10 DEF Typed

LEMMA TypedEnables ==
    ASSUME Typed, Owners, NEW p \in Pages, EnableStores(p)
    PROVE  Typed' /\ Owners'
  <1>1. /\ enabling[p] # NoCtx /\ ctxCounter' = ctxCounter + 1
        /\ ctxMap' = With(ctxMap, ctxCounter + 1, [ctx |-> enabling[p], owner |-> p, world |-> "main"])
        /\ enabling' = [enabling EXCEPT ![p] = NoCtx]
        /\ UNCHANGED <<scenario, isBiDi, sessions, cleaned, frameID, pendingFrameIDs, subFrames, latestCtx,
                       ctxUniqueOwners, isolatedWorlds, pc, h, ev, browser, inbox, queue,
                       named, reEmitted>>
    BY DEF EnableStores, NextCtxID
  <1>2. [ctx |-> enabling[p], owner |-> p, world |-> "main"] \in Entry
    BY <1>1, ReadFacts DEF Entry, AnyPage, AnyWorld, AnyCtx
  <1>3. Numbers(p)
    BY <1>1, <1>2, ReadFacts DEF Numbers
  <1>4. /\ Maps' /\ ctxCounter' \in {ctxCounter, ctxCounter + 1}
        /\ DOMAIN ctxMap' \subseteq DOMAIN ctxMap \cup {ctxCounter + 1}
    BY <1>3, MapNumbers
  <1>5. enabling' \in [Pages -> AnyCtx] /\ \A q \in Pages : Own(q, enabling'[q])
    BY <1>1, CommandFacts DEF Typed, Goroutines, Owners
  <1>6. Caches' /\ Goroutines'
    BY <1>1, <1>4, <1>5 DEF Typed, Caches, Maps, Goroutines
  <1>7. InHand' /\ Browser'
    BY <1>1, <1>4, InHandKept DEF browser, Typed, Browser
  <1>8. Owners'
    BY <1>1, <1>4, <1>5 DEF Owners, Maps
  <1> QED BY <1>6, <1>7, <1>8 DEF Typed

LEMMA GotoFacts ==
    ASSUME Typed, NEW t \in Threads, NEW l \in HandlerPCs \cup ReaderPCs, Goto(t, l)
    PROVE  /\ pc' \in [Threads -> HandlerPCs \cup ReaderPCs] /\ pc'[t] = l
           /\ \A u \in Threads : u # t => pc'[u] = pc[u]
  BY DEF Goto, Typed, Goroutines

LEMMA CleanedFacts ==
    ASSUME Typed, NEW t \in Threads, pc[t] \in Cleans
    PROVE  /\ CleanedPage(t) \in Pages
           /\ t = Reader => CleanedPage(t) = ev.event.page
           /\ t # Reader => CleanedPage(t) = t[2]
  <1>1. t = Reader => ev.event \in PageNews
    BY DEF Typed, InHand
  <1>2. \A e \in PageNews : e.page \in Pages
    BY DEF PageNews
  <1> QED BY <1>1, <1>2, ThreadFacts DEF CleanedPage

LEMMA IdleFacts ==
    /\ Idle \in [event : {NoEvent} \cup PageEvents, id : Nat, todo : Seq(Worlds), page : AnyPage]
    /\ Idle.event = NoEvent /\ Idle.id = 0 /\ Idle.todo = <<>> /\ Idle.page = NoPage
  BY DEF Idle, AnyPage

\* A thread goes to a step of a cleanup, or is done with it.
LEMMA StepsTyped ==
    ASSUME Typed, NEW t \in Threads, pc[t] \in Cleans, NEW l \in {"idle", "wait", "clear", "remove"}, Goto(t, l),
           t = Reader => l # "wait",
           IF t = Reader /\ l = "idle" THEN ev' = Idle ELSE UNCHANGED ev,
           IF t[1] = "handler" /\ l = "idle" THEN h' = [h EXCEPT ![t[2]] = NoCommand] ELSE UNCHANGED h,
           \/ UNCHANGED inbox
           \/ t # Reader /\ \E call \in CallRec : inbox' = [inbox EXCEPT ![t] = call],
           UNCHANGED <<enabling, named, ctxCounter>>, DOMAIN ctxMap' \subseteq DOMAIN ctxMap
    PROVE  Goroutines' /\ InHand'
  <1>1. /\ pc' \in [Threads -> HandlerPCs \cup ReaderPCs] /\ pc'[t] = l
        /\ \A u \in Threads : u # t => pc'[u] = pc[u]
    BY GotoFacts DEF HandlerPCs
  <1>2. /\ h' \in [Pages -> Command]
        /\ \A q \in Pages : h'[q] = h[q] \/ (t = Handler(q) /\ l = "idle" /\ h'[q] = NoCommand)
    <2>1. CASE t[1] = "handler" /\ l = "idle"
      <3>1. t[2] \in Pages /\ t = Handler(t[2])
        BY <2>1, ThreadFacts
      <3> QED BY <2>1, <3>1, CommandFacts DEF Typed, Goroutines
    <2>2. CASE ~(t[1] = "handler" /\ l = "idle")
      BY <2>2 DEF Typed, Goroutines
    <2> QED BY <2>1, <2>2
  <1>3. /\ inbox' \in [Threads -> {NoEvent} \cup CallRec] /\ inbox'[Reader] = NoEvent
    <2>1. CASE UNCHANGED inbox
      BY <2>1 DEF Typed, Goroutines
    <2>2. CASE t # Reader /\ \E call \in CallRec : inbox' = [inbox EXCEPT ![t] = call]
      BY <2>2, ThreadFacts DEF Typed, Goroutines
    <2> QED BY <2>1, <2>2
  <1>4. Goroutines'
    <2>1. ASSUME NEW q \in Pages
          PROVE  /\ pc'[Handler(q)] \in HandlerPCs /\ pc'[Closer(q)] \in CloserPCs
                 /\ pc'[Handler(q)] = "record" => h'[q].world \in Worlds
                 /\ pc'[Handler(q)] \in {"mainFrame", "prior"} => h'[q].op \in {"navigate", "fragment"}
                 /\ pc'[Handler(q)] \in Cleans => h'[q].op = "close"
                 /\ pc'[Handler(q)] \notin Cleans \cup {"wait"} => h'[q].op # "close"
      <3>1. CASE t = Handler(q)
        <4>1. pc'[Handler(q)] = l /\ pc'[Closer(q)] = pc[Closer(q)] /\ h[q].op = "close"
          BY <1>1, <3>1, ThreadFacts DEF Typed, Goroutines
        <4>2. l = "idle" => h'[q] = NoCommand
          BY <3>1, ThreadFacts, CommandFacts DEF Typed, Goroutines
        <4> QED BY <1>2, <4>1, <4>2, CommandFacts DEF Typed, Goroutines, HandlerPCs, Cleans
      <3>2. CASE t # Handler(q)
        <4>1. pc'[Handler(q)] = pc[Handler(q)] /\ h'[q] = h[q]
          BY <1>1, <1>2, <3>2, ThreadFacts
        <4>2. pc'[Closer(q)] \in CloserPCs
          BY <1>1, ThreadFacts DEF Typed, Goroutines, CloserPCs
        <4> QED BY <4>1, <4>2 DEF Typed, Goroutines
      <3> QED BY <3>1, <3>2
    <2>2. pc'[Reader] \in ReaderPCs
      BY <1>1, ThreadFacts DEF Typed, Goroutines, ReaderPCs
    <2> QED BY <1>1, <1>2, <1>3, <2>1, <2>2 DEF Typed, Goroutines
  <1>5. InHand'
    <2>1. CASE t = Reader /\ l = "idle"
      BY <1>1, <2>1, IdleFacts DEF InHand, Cleans, Learns
    <2>2. CASE t = Reader /\ l # "idle"
      <3>1. ev' = ev /\ pc'[Reader] \in Cleans /\ ev.event \in PageNews
        BY <1>1, <2>2 DEF Cleans, Typed, InHand
      <3>2. ev' \in [event : {NoEvent} \cup PageEvents, id : Nat, todo : Seq(Worlds), page : AnyPage]
        BY <3>1 DEF Typed, InHand
      <3> QED BY <3>1, <3>2 DEF InHand, Cleans, Learns
    <2>3. CASE t # Reader
      <3>1. ev' = ev /\ pc'[Reader] = pc[Reader] /\ ctxCounter' = ctxCounter
        BY <1>1, <2>3, ThreadFacts
      <3> QED BY <3>1, InHandKept
    <2> QED BY <2>1, <2>2, <2>3
  <1> QED BY <1>4, <1>5

LEMMA TypedCloses ==
    ASSUME Typed, Owners, NEW t \in Threads, Closes(t)
    PROVE  Typed' /\ Owners'
  <1>0. /\ pc[t] = "idle" /\ Goto(t, "begin") /\ UNCHANGED <<Local, inbox>>
    BY DEF Closes
  <1>1. t # Reader
    <2>1. Reader[1] # "closer" /\ \A p \in Pages : Reader # Handler(p)
      BY ThreadFacts
    <2> QED BY <2>1 DEF Closes
  <1>2. /\ pc' \in [Threads -> HandlerPCs \cup ReaderPCs] /\ pc'[t] = "begin"
        /\ \A u \in Threads : u # t => pc'[u] = pc[u]
    BY <1>0, GotoFacts DEF HandlerPCs
  <1>3. /\ h' \in [Pages -> Command]
        /\ \A q \in Pages : IF t = Handler(q) THEN h'[q] \in Command /\ h'[q].op = "close"
                            ELSE h'[q] = h[q]
    <2>1. CASE \E p \in Pages : t = Handler(p) /\ h' = [h EXCEPT ![p] = Started(p, "close", NoFrame, NoCtx)]
      <3>1. PICK p \in Pages : t = Handler(p) /\ h' = [h EXCEPT ![p] = Started(p, "close", NoFrame, NoCtx)]
        BY <2>1
      <3>2. Started(p, "close", NoFrame, NoCtx) \in Command /\ Started(p, "close", NoFrame, NoCtx).op = "close"
        BY CommandFacts DEF Ops
      <3> QED BY <3>1, <3>2, ThreadFacts DEF Typed, Goroutines
    <2>2. CASE t[1] = "closer" /\ UNCHANGED h
      BY <2>2, ThreadFacts DEF Typed, Goroutines
    <2> QED BY <2>1, <2>2 DEF Closes
  <1>4. Goroutines'
    <2>1. ASSUME NEW q \in Pages
          PROVE  /\ pc'[Handler(q)] \in HandlerPCs /\ pc'[Closer(q)] \in CloserPCs
                 /\ pc'[Handler(q)] = "record" => h'[q].world \in Worlds
                 /\ pc'[Handler(q)] \in {"mainFrame", "prior"} => h'[q].op \in {"navigate", "fragment"}
                 /\ pc'[Handler(q)] \in Cleans => h'[q].op = "close"
                 /\ pc'[Handler(q)] \notin Cleans \cup {"wait"} => h'[q].op # "close"
      <3>1. CASE t = Handler(q)
        BY <1>2, <1>3, <3>1, ThreadFacts DEF Typed, Goroutines, HandlerPCs, Cleans
      <3>2. CASE t # Handler(q)
        <4>1. pc'[Handler(q)] = pc[Handler(q)] /\ h'[q] = h[q]
          BY <1>2, <1>3, <3>2, ThreadFacts
        <4>2. pc'[Closer(q)] \in CloserPCs
          BY <1>2, ThreadFacts DEF Typed, Goroutines, CloserPCs
        <4> QED BY <4>1, <4>2 DEF Typed, Goroutines
      <3> QED BY <3>1, <3>2
    <2> QED BY <1>0, <1>1, <1>2, <1>3, <2>1, ThreadFacts DEF Typed, Goroutines, Local
  <1>5. Caches' /\ Browser'
    BY <1>0 DEF Typed, Caches, Browser, Local, bridge, browser
  <1>6. InHand'
    <2>1. pc'[Reader] = pc[Reader] /\ UNCHANGED <<ev, ctxCounter, ctxMap>>
      BY <1>0, <1>1, <1>2, ThreadFacts DEF Local, bridge
    <2> QED BY <2>1, InHandKept
  <1>7. Owners'
    BY <1>0 DEF Owners, Local, bridge
  <1> QED BY <1>4, <1>5, <1>6, <1>7 DEF Typed

LEMMA TypedBegins ==
    ASSUME Typed, Owners, NEW t \in Threads, BeginCleanup(t)
    PROVE  Typed' /\ Owners'
  <1>0. /\ pc[t] = "begin" /\ pc[t] \in Cleans
        /\ UNCHANGED <<scenario, isBiDi, sessions, frameID, pendingFrameIDs, subFrames, latestCtx, contextMaps,
                       isolatedWorlds, enabling, browser, queue, named, reEmitted>>
    BY DEF BeginCleanup, Cleans
  <1>1. CleanedPage(t) \in Pages
    BY <1>0, CleanedFacts
  <1>2. cleaned' \subseteq Pages
    BY <1>1 DEF BeginCleanup, Typed, Caches
  <1>3. Goroutines' /\ InHand'
    <2>0. UNCHANGED <<enabling, named, ctxCounter, ctxMap>>
      BY <1>0 DEF contextMaps
    <2>1. CASE Forgets(t) /\ UNCHANGED inbox
      <3>1. /\ Goto(t, "idle") /\ (IF t = Reader THEN ev' = Idle ELSE UNCHANGED ev)
            /\ (IF t[1] = "handler" THEN h' = [h EXCEPT ![t[2]] = NoCommand] ELSE UNCHANGED h)
        BY <2>1 DEF Forgets
      <3> QED BY <1>0, <2>0, <2>1, <3>1, StepsTyped
    <2>2. CASE t = Reader /\ Goto(t, "clear") /\ UNCHANGED <<inbox, h, ev>>
      BY <1>0, <2>0, <2>2, StepsTyped, ThreadFacts
    <2>3. CASE t # Reader /\ Goto(t, "wait") /\ UNCHANGED <<h, ev>>
               /\ inbox' = [inbox EXCEPT ![t] = Call("close", NoFrame, NoCtx)]
      <3>1. Call("close", NoFrame, NoCtx) \in CallRec
        BY CommandFacts DEF CallKinds
      <3> QED BY <1>0, <2>0, <2>3, <3>1, StepsTyped
    <2> QED BY <2>1, <2>2, <2>3 DEF BeginCleanup
  <1>4. Caches'
    BY <1>0, <1>2 DEF Typed, Caches, contextMaps
  <1>5. Browser'
    BY <1>0 DEF Typed, Browser, browser
  <1>6. Owners'
    BY <1>0 DEF Owners, contextMaps
  <1> QED BY <1>3, <1>4, <1>5, <1>6 DEF Typed

LEMMA TypedClears ==
    ASSUME Typed, Owners, NEW t \in Threads, ClearState(t),
           UNCHANGED <<scenario, isBiDi, cleaned, enabling, browser, inbox, queue, named, reEmitted>>
    PROVE  Typed' /\ Owners'
  <1>0. pc[t] \in Cleans
    BY DEF ClearState, Cleans
  <1> DEFINE p == CleanedPage(t)
  <1>1. p \in Pages
    BY <1>0, CleanedFacts
  <1>2. /\ Goto(t, "remove")
        /\ isolatedWorlds' = [isolatedWorlds EXCEPT ![p] = <<>>]
        /\ latestCtx' = [latestCtx EXCEPT ![p] = NoCtx]
        /\ subFrames' = [subFrames EXCEPT ![p] = {}]
        /\ ctxMap' = Without(ctxMap, OwnedBy(p))
        /\ ctxUniqueOwners' = Without(ctxUniqueOwners, UniqueOf(p))
        /\ pendingFrameIDs' = [pendingFrameIDs EXCEPT ![p] = NoFrame]
        /\ UNCHANGED <<sessions, frameID, ctxCounter, h, ev>>
    BY DEF ClearState
  <1> HIDE DEF p
  <1>3. Goroutines' /\ InHand'
    <2>1. DOMAIN ctxMap' \subseteq DOMAIN ctxMap
      BY <1>2 DEF Without, Restrict
    <2> QED BY <1>0, <1>2, <2>1, StepsTyped
  <1>4. Maps'
    BY <1>2, MapShrinks
  <1>5. /\ DOMAIN ctxUniqueOwners' \subseteq DOMAIN ctxUniqueOwners
        /\ \A c \in DOMAIN ctxUniqueOwners' : ctxUniqueOwners'[c] = ctxUniqueOwners[c]
    BY <1>2 DEF Without, Restrict
  <1>6. /\ latestCtx' \in [Pages -> AnyCtx] /\ \A q \in Pages : latestCtx'[q] \in {latestCtx[q], NoCtx}
        /\ pendingFrameIDs' \in [Pages -> AnyFrame] /\ subFrames' \in [Pages -> SUBSET Subs]
        /\ isolatedWorlds' \in [Pages -> Seq(Worlds)]
    BY <1>1, <1>2, CommandFacts DEF Typed, Caches, AnyFrame
  <1>7. Caches'
    BY <1>2, <1>4, <1>5, <1>6 DEF Typed, Caches, Maps
  <1>8. Browser'
    BY DEF Typed, Browser, browser
  <1>9. Owners'
    BY <1>4, <1>5, <1>6, CommandFacts DEF Owners, Maps
  <1> QED BY <1>3, <1>7, <1>8, <1>9 DEF Typed

LEMMA TypedRemoves ==
    ASSUME Typed, Owners, NEW t \in Threads, RemoveSession(t),
           UNCHANGED <<scenario, isBiDi, cleaned, enabling, browser, inbox, queue, named, reEmitted>>
    PROVE  Typed' /\ Owners'
  <1>0. pc[t] \in Cleans
    BY DEF RemoveSession, Cleans
  <1>1. CleanedPage(t) \in Pages
    BY <1>0, CleanedFacts
  <1>2. /\ Goto(t, "idle") /\ (IF t = Reader THEN ev' = Idle ELSE UNCHANGED ev)
        /\ (IF t[1] = "handler" THEN h' = [h EXCEPT ![t[2]] = NoCommand] ELSE UNCHANGED h)
        /\ sessions' \subseteq sessions /\ frameID' \in [Pages -> AnyFrame]
        /\ UNCHANGED <<pendingFrameIDs, subFrames, latestCtx, contextMaps, isolatedWorlds>>
    BY <1>1 DEF RemoveSession, Forgets, Typed, Caches, AnyFrame
  <1>3. Goroutines' /\ InHand'
    BY <1>0, <1>2, StepsTyped DEF contextMaps
  <1>4. Caches'
    BY <1>2 DEF Typed, Caches, contextMaps
  <1>5. Browser'
    BY DEF Typed, Browser, browser
  <1>6. Owners'
    BY <1>2 DEF Owners, contextMaps
  <1> QED BY <1>3, <1>4, <1>5, <1>6 DEF Typed

LEMMA TypedCleanup ==
    ASSUME Typed, Owners, NEW t \in Threads, CleanupStep(t)
    PROVE  Typed' /\ Owners'
  BY TypedCloses, TypedBegins, TypedClears, TypedRemoves DEF CleanupStep

LEMMA Taken ==
    ASSUME Typed, pc[Reader] = "idle", queue # <<>>, queue' = Tail(queue)
    PROVE  /\ Head(queue) \in News /\ queue' \in Seq(News) /\ ev = Idle
           /\ Head(queue).kind # "reply" => Head(queue).page \in Pages
  <1>1. queue \in Seq(News) /\ ev = Idle
    BY DEF Typed, Browser, InHand
  <1>2. Head(queue) \in News /\ Tail(queue) \in Seq(News)
    BY <1>1, Rest
  <1> QED BY <1>1, <1>2, Kinds

\* A step of the read loop leaves the other threads alone.
LEMMA ReaderTyped ==
    ASSUME Typed, NEW l \in ReaderPCs, Goto(Reader, l) \/ (UNCHANGED pc /\ l = pc[Reader]),
           UNCHANGED <<h, enabling, inbox, named>>
    PROVE  Goroutines' /\ pc'[Reader] = l
  <1>1. /\ pc' \in [Threads -> HandlerPCs \cup ReaderPCs] /\ pc'[Reader] = l
        /\ \A u \in Threads : u # Reader => pc'[u] = pc[u]
    <2>1. CASE Goto(Reader, l)
      BY <2>1, GotoFacts, ThreadFacts
    <2>2. CASE UNCHANGED pc /\ l = pc[Reader]
      BY <2>2 DEF Typed, Goroutines
    <2> QED BY <2>1, <2>2
  <1>2. \A q \in Pages : pc'[Handler(q)] = pc[Handler(q)] /\ pc'[Closer(q)] = pc[Closer(q)]
    BY <1>1, ThreadFacts
  <1> QED BY <1>1, <1>2 DEF Typed, Goroutines

LEMMA TypedReply ==
    ASSUME Typed, Owners, TakeReply
    PROVE  Typed' /\ Owners'
  <1> DEFINE t == Head(queue).to
             l == After(t, Head(queue).ok)
  <1>1. /\ Next1("reply") /\ Goto(t, l)
        /\ IF t[1] = "closer" THEN UNCHANGED h
           ELSE h' = [h EXCEPT ![t[2]] = IF l = "idle" THEN NoCommand ELSE @]
        /\ UNCHANGED <<bridge, ev, enabling, browser, inbox, named, reEmitted>>
    BY DEF TakeReply
  <1>2. t \in Callers /\ queue' \in Seq(News)
    BY <1>1, Taken, Kinds DEF Next1
  <1>3. t \in Threads /\ l \in HandlerPCs
    BY <1>2, ThreadFacts DEF After, HandlerPCs
  <1>4. /\ t[1] = "closer" => l = "clear"
        /\ t[1] = "handler" => /\ l \in {"roll", "write", "frameAgain", "clear", "idle"}
                               /\ l = "clear" <=> h[t[2]].op = "close"
    BY DEF After
  <1> HIDE DEF t, l
  <1>5. /\ pc' \in [Threads -> HandlerPCs \cup ReaderPCs] /\ pc'[t] = l
        /\ \A u \in Threads : u # t => pc'[u] = pc[u]
    BY <1>1, <1>3, GotoFacts
  <1>6. /\ h' \in [Pages -> Command]
        /\ \A q \in Pages : h'[q] = IF t = Handler(q) /\ l = "idle" THEN NoCommand ELSE h[q]
    <2>1. CASE t[1] = "closer"
      BY <1>1, <2>1, ThreadFacts DEF Typed, Goroutines
    <2>2. CASE t[1] # "closer"
      <3>1. t[2] \in Pages /\ t = Handler(t[2])
        BY <1>2, <2>2, ThreadFacts
      <3> QED BY <1>1, <2>2, <3>1, CommandFacts, ThreadFacts DEF Typed, Goroutines
    <2> QED BY <2>1, <2>2
  <1>7. ASSUME NEW q \in Pages
        PROVE  /\ pc'[Handler(q)] \in HandlerPCs /\ pc'[Closer(q)] \in CloserPCs
               /\ pc'[Handler(q)] = "record" => h'[q].world \in Worlds
               /\ pc'[Handler(q)] \in {"mainFrame", "prior"} => h'[q].op \in {"navigate", "fragment"}
               /\ pc'[Handler(q)] \in Cleans => h'[q].op = "close"
               /\ pc'[Handler(q)] \notin Cleans \cup {"wait"} => h'[q].op # "close"
    <2>1. CASE t = Handler(q)
      <3>1. /\ pc'[Handler(q)] = l /\ pc'[Closer(q)] = pc[Closer(q)]
            /\ l \in {"roll", "write", "frameAgain", "clear", "idle"} /\ (l = "clear" <=> h[q].op = "close")
        BY <1>4, <1>5, <2>1, ThreadFacts
      <3> QED BY <1>3, <1>6, <2>1, <3>1, CommandFacts DEF Typed, Goroutines, Cleans
    <2>2. CASE t # Handler(q)
      <3>1. pc'[Handler(q)] = pc[Handler(q)] /\ h'[q] = h[q]
        BY <1>5, <1>6, <2>2, ThreadFacts
      <3>2. pc'[Closer(q)] \in CloserPCs
        BY <1>4, <1>5, ThreadFacts DEF Typed, Goroutines, CloserPCs
      <3> QED BY <3>1, <3>2 DEF Typed, Goroutines
    <2> QED BY <2>1, <2>2
  <1>8. pc'[Reader] = pc[Reader]
    BY <1>2, <1>5, ThreadFacts
  <1>9. Goroutines'
    BY <1>1, <1>5, <1>6, <1>7, <1>8 DEF Typed, Goroutines
  <1>10. Caches' /\ InHand' /\ Browser'
    BY <1>1, <1>2, <1>8 DEF Typed, Caches, InHand, Browser, bridge, browser
  <1>11. Owners'
    BY <1>1 DEF Owners, bridge
  <1> QED BY <1>9, <1>10, <1>11 DEF Typed

\* Events that change caches of frames, or drop numbers.
Notes ==
    \/ TakeAttached \/ TakeNavigationStarted \/ TakeNavigationCommitted
    \/ TakeContextsCleared \/ TakeFrameAttached \/ TakeFrameDetached

LEMMA NotesTyped ==
    ASSUME Typed, Notes
    PROVE  /\ sessions' \subseteq Pages /\ frameID' \in [Pages -> AnyFrame]
           /\ pendingFrameIDs' \in [Pages -> AnyFrame] /\ subFrames' \in [Pages -> SUBSET Subs]
           /\ UNCHANGED ctxMap \/ \E S : ctxMap' = Without(ctxMap, S)
           /\ pc[Reader] = "idle" /\ queue # <<>> /\ queue' = Tail(queue)
           /\ reEmitted' \in [Pages -> SUBSET Worlds]
           /\ UNCHANGED <<scenario, isBiDi, cleaned, latestCtx, ctxUniqueOwners, ctxCounter, isolatedWorlds,
                          pc, h, ev, enabling, browser, inbox, named>>
  <1> DEFINE e == Head(queue)
  <1>0. /\ sessions \subseteq Pages /\ frameID \in [Pages -> AnyFrame]
        /\ pendingFrameIDs \in [Pages -> AnyFrame] /\ subFrames \in [Pages -> SUBSET Subs]
        /\ NoFrame \in AnyFrame /\ Frames \subseteq AnyFrame /\ reEmitted \in [Pages -> SUBSET Worlds]
    BY DEF Typed, Caches, AnyFrame
  <1>1. CASE TakeAttached
    <2>1. e.page \in Pages
      BY <1>1, Taken DEF TakeAttached, Next1
    <2> HIDE DEF e
    <2> QED BY <1>0, <1>1, <2>1 DEF TakeAttached, Next1, e, contextMaps
  <1>2. ASSUME NEW k \in FrameKinds, Next1(k)
        PROVE  e.page \in Pages /\ e.frame \in Frames /\ e.frame \in AnyFrame
    BY <1>2, <1>0, Taken, Kinds DEF Next1, FrameKinds
  <1>a. ASSUME NEW p \in Pages, ClearContextsForSession(p)
        PROVE  /\ UNCHANGED ctxMap \/ \E S : ctxMap' = Without(ctxMap, S)
               /\ reEmitted' \in [Pages -> SUBSET Worlds]
    BY <1>0, <1>a DEF ClearContextsForSession
  <1>3. CASE TakeNavigationStarted
    BY <1>0, <1>2, <1>3 DEF TakeNavigationStarted, Next1, RefreshMainFrame, contextMaps, FrameKinds
  <1>4. CASE TakeNavigationCommitted
    <2>1. e.page \in Pages /\ e.frame \in AnyFrame
      BY <1>2, <1>4 DEF TakeNavigationCommitted, FrameKinds
    <2>2. /\ Next1("committed") /\ frameID' = RefreshMainFrame(e.page, e.frame)
          /\ ClearContextsForSession(e.page) \/ UNCHANGED <<ctxMap, reEmitted>>
          /\ UNCHANGED <<scenario, isBiDi, sessions, cleaned, pendingFrameIDs, subFrames, latestCtx,
                         ctxUniqueOwners, ctxCounter, isolatedWorlds, pc, h, ev, enabling, browser, inbox,
                         named>>
      BY <1>4 DEF TakeNavigationCommitted
    <2> HIDE DEF e
    <2>3. /\ UNCHANGED ctxMap \/ \E S : ctxMap' = Without(ctxMap, S)
          /\ reEmitted' \in [Pages -> SUBSET Worlds]
      BY <1>0, <1>a, <2>1, <2>2
    <2> QED BY <1>0, <2>1, <2>2, <2>3 DEF Next1, RefreshMainFrame
  <1>5. CASE TakeContextsCleared
    <2>1. e.page \in Pages
      BY <1>5, Taken DEF TakeContextsCleared, Next1
    <2>2. Next1("cleared") /\ ClearContextsForSession(e.page)
      BY <1>5 DEF TakeContextsCleared
    <2> HIDE DEF e
    <2> QED BY <1>0, <1>5, <1>a, <2>1, <2>2 DEF TakeContextsCleared, Next1
  <1>6. CASE TakeFrameAttached
    <2>1. e.page \in Pages /\ e.frame \in AnyFrame
      BY <1>2, <1>6 DEF TakeFrameAttached, FrameKinds
    <2> QED BY <1>0, <1>6, <2>1 DEF TakeFrameAttached, Next1, contextMaps
  <1>7. CASE TakeFrameDetached
    BY <1>0, <1>7 DEF TakeFrameDetached, Next1, contextMaps
  <1> QED BY <1>1, <1>3, <1>4, <1>5, <1>6, <1>7 DEF Notes

LEMMA TypedNotes ==
    ASSUME Typed, Owners, Notes
    PROVE  Typed' /\ Owners'
  <1>1. /\ sessions' \subseteq Pages /\ frameID' \in [Pages -> AnyFrame]
        /\ pendingFrameIDs' \in [Pages -> AnyFrame] /\ subFrames' \in [Pages -> SUBSET Subs]
        /\ UNCHANGED ctxMap \/ \E S : ctxMap' = Without(ctxMap, S)
        /\ pc[Reader] = "idle" /\ queue # <<>> /\ queue' = Tail(queue)
        /\ reEmitted' \in [Pages -> SUBSET Worlds]
        /\ UNCHANGED <<scenario, isBiDi, cleaned, latestCtx, ctxUniqueOwners, ctxCounter, isolatedWorlds,
                       pc, h, ev, enabling, browser, inbox, named>>
    BY NotesTyped
  <1>2. Maps'
    BY <1>1, MapShrinks
  <1>3. queue' \in Seq(News)
    BY <1>1, Taken
  <1>4. Caches'
    BY <1>1, <1>2 DEF Typed, Caches, Maps
  <1>5. Goroutines' /\ InHand'
    BY <1>1 DEF Typed, Goroutines, InHand
  <1>6. Browser'
    BY <1>1, <1>3 DEF Typed, Browser, browser
  <1>7. Owners'
    BY <1>1, <1>2 DEF Owners, Maps
  <1> QED BY <1>4, <1>5, <1>6, <1>7 DEF Typed

EvSet == [event : {NoEvent} \cup PageEvents, id : Nat, todo : Seq(Worlds), page : AnyPage]

LEMMA TypedDetached ==
    ASSUME Typed, Owners, TakeDetached
    PROVE  Typed' /\ Owners'
  <1> DEFINE e == Head(queue)
  <1>1. /\ Next1("detached") /\ ev' = [Idle EXCEPT !.event = e] /\ Goto(Reader, "begin")
        /\ UNCHANGED <<bridge, h, enabling, browser, inbox, named, reEmitted>>
    BY DEF TakeDetached
  <1>2. e \in PageNews /\ queue' \in Seq(News)
    BY <1>1, Taken, Kinds DEF Next1, PageKinds
  <1> HIDE DEF e
  <1>3. ev' \in EvSet /\ ev'.event = e
    BY <1>1, <1>2, IdleFacts DEF EvSet, PageEvents
  <1>4. Goroutines' /\ pc'[Reader] = "begin"
    BY <1>1, ReaderTyped DEF ReaderPCs
  <1>5. InHand'
    BY <1>2, <1>3, <1>4 DEF InHand, EvSet, Learns
  <1>6. Caches' /\ Browser' /\ Owners'
    BY <1>1, <1>2 DEF Typed, Caches, Browser, Owners, bridge, browser
  <1> QED BY <1>4, <1>5, <1>6 DEF Typed

LEMMA TypedDestroyed ==
    ASSUME Typed, Owners, TakeContextDestroyed
    PROVE  Typed' /\ Owners'
  <1> DEFINE e == Head(queue)
  <1>1. /\ Next1("destroyed") /\ Goto(Reader, "drop")
        /\ UNCHANGED <<bridge, h, enabling, browser, inbox, named, reEmitted>>
    BY DEF TakeContextDestroyed
  <1>2. e \in Gone /\ queue' \in Seq(News)
    BY <1>1, Taken, Kinds DEF Next1
  <1>a. PICK i \in {0} \cup DOMAIN ctxMap : ev' = [Idle EXCEPT !.event = e, !.id = i]
    BY DEF TakeContextDestroyed
  <1>b. i \in Nat
    BY DEF Typed, Caches
  <1> HIDE DEF e
  <1>3. ev' \in EvSet /\ ev'.event = e
    BY <1>a, <1>b, <1>2, IdleFacts DEF EvSet, PageEvents
  <1>4. Goroutines' /\ pc'[Reader] = "drop"
    BY <1>1, ReaderTyped DEF ReaderPCs
  <1>5. InHand'
    BY <1>2, <1>3, <1>4 DEF InHand, EvSet, Cleans, Learns
  <1>6. Caches' /\ Browser' /\ Owners'
    BY <1>1, <1>2 DEF Typed, Caches, Browser, Owners, bridge, browser
  <1> QED BY <1>4, <1>5, <1>6 DEF Typed

LEMMA TypedCreated ==
    ASSUME Typed, Owners, TakeContextCreated
    PROVE  Typed' /\ Owners'
  <1> DEFINE e == Head(queue)
             p == e.page
  <1>1. /\ Next1("created") /\ Goto(Reader, "store")
        /\ ctxCounter' = ctxCounter + 1
        /\ ev' = [event |-> e, id |-> ctxCounter + 1, todo |-> <<>>, page |-> Resolved(p)]
        /\ UNCHANGED <<scenario, isBiDi, sessions, cleaned, subFrames, latestCtx, ctxMap, ctxUniqueOwners,
                       isolatedWorlds, h, enabling, browser, inbox, named, reEmitted>>
    BY DEF TakeContextCreated, NextCtxID
  <1>2. e \in Made /\ queue' \in Seq(News)
    BY <1>1, Taken, Kinds DEF Next1
  <1>3. p \in Pages /\ e.frame \in AnyFrame
    BY <1>2, MadeFacts DEF AnyFrame
  <1>4. frameID' \in [Pages -> AnyFrame] /\ pendingFrameIDs' \in [Pages -> AnyFrame]
    BY <1>3 DEF TakeContextCreated, Typed, Caches
  <1>5. ctxCounter \in Nat /\ Resolved(p) \in {NoPage, p}
    BY DEF Typed, Caches, Resolved
  <1>6. /\ ev'.event = e /\ ev'.id = ctxCounter + 1 /\ ev'.page \in {NoPage, p} /\ ev'.event.page = p
        /\ ev' \in EvSet
    BY <1>1, <1>2, <1>3, <1>5 DEF EvSet, PageEvents, AnyPage
  <1> HIDE DEF e, p
  <1>7. Goroutines' /\ pc'[Reader] = "store"
    BY <1>1, ReaderTyped DEF ReaderPCs
  <1>8. ev'.id \in (1 .. ctxCounter') \ DOMAIN ctxMap'
    BY <1>1, <1>5, <1>6 DEF Typed, Caches
  <1>9. InHand'
    BY <1>2, <1>6, <1>7, <1>8 DEF InHand, EvSet, Cleans, Learns
  <1>10. Maps'
    BY <1>1, MapShrinks
  <1>11. Caches'
    BY <1>1, <1>4, <1>10 DEF Typed, Caches, Maps
  <1>12. Browser' /\ Owners'
    BY <1>1, <1>2, <1>10 DEF Typed, Browser, Owners, browser, Maps
  <1> QED BY <1>7, <1>9, <1>11, <1>12 DEF Typed

Learned == UNCHANGED <<scenario, isBiDi, sessions, cleaned, frameID, pendingFrameIDs, subFrames,
                       isolatedWorlds, h, enabling, browser, inbox, named>>

\* The context the read loop has in hand.
LEMMA HandFacts ==
    ASSUME Typed, pc[Reader] \in Learns \cup {"isolated", "worlds"}
    PROVE  /\ ev.event \in Made /\ ev \in EvSet /\ ctxCounter \in Nat
           /\ ev.event.ctx \in AllCtx /\ ev.event.ctx \in AnyCtx /\ ev.event.ctx[1] = ev.event.page
           /\ ev.event.page \in Pages
  BY MadeFacts DEF Typed, InHand, EvSet, Caches, AnyCtx

LEMMA TypedStore ==
    ASSUME Typed, Owners, StoreContext, Learned
    PROVE  Typed' /\ Owners'
  <1> DEFINE e == [ctx |-> ev.event.ctx, owner |-> ev.page, world |-> "main"]
  <1>1. /\ pc[Reader] = "store" /\ Goto(Reader, "latest") /\ ctxMap' = With(ctxMap, ev.id, e)
        /\ UNCHANGED <<latestCtx, ctxUniqueOwners, ctxCounter, ev, queue, reEmitted>>
    BY DEF StoreContext
  <1>2. /\ ev.event \in Made /\ ev \in EvSet /\ ev.page \in {NoPage, ev.event.page} /\ ev.id \in 1 .. ctxCounter
        /\ ctxCounter \in Nat /\ ev.event.ctx \in AllCtx /\ ev.event.ctx[1] = ev.event.page
        /\ ev.event.page \in Pages
    BY <1>1, HandFacts DEF Typed, InHand, Learns
  <1>3. e \in Entry /\ (e.owner # NoPage => Own(e.owner, e.ctx))
    BY <1>2 DEF Entry, AnyPage, AnyWorld, Own
  <1> HIDE DEF e
  <1>4. Maps'
    <2>1. ev.id \in Nat /\ ev.id > 0 /\ ev.id <= ctxCounter' /\ ctxCounter' \in {ctxCounter, ctxCounter + 1}
      BY <1>1, <1>2
    <2> QED BY <1>1, <1>3, <2>1, MapGrows
  <1>5. Goroutines' /\ pc'[Reader] = "latest"
    BY <1>1, ReaderTyped DEF ReaderPCs, Learned
  <1>6. InHand'
    BY <1>1, <1>2, <1>5 DEF InHand, EvSet, Cleans, Learns
  <1>7. Caches' /\ Browser'
    BY <1>1, <1>4 DEF Typed, Caches, Maps, Browser, browser, Learned
  <1>8. Owners'
    BY <1>1, <1>4 DEF Owners, Maps, Learned
  <1> QED BY <1>5, <1>6, <1>7, <1>8 DEF Typed

LEMMA TypedLatest ==
    ASSUME Typed, Owners, StoreLatest, Learned
    PROVE  Typed' /\ Owners'
  <1> DEFINE c == ev.event.ctx
             p == ev.event.page
  <1>1. /\ pc[Reader] = "latest" /\ Goto(Reader, "unique") /\ latestCtx' = [latestCtx EXCEPT ![p] = c]
        /\ UNCHANGED <<ctxMap, ctxUniqueOwners, ctxCounter, ev, queue, reEmitted>>
    BY DEF StoreLatest, NowLatest
  <1>2. /\ ev.event \in Made /\ ev \in EvSet /\ ev.page \in {NoPage, p}
        /\ c \in AllCtx /\ c \in AnyCtx /\ c[1] = p /\ p \in Pages
    BY <1>1, HandFacts DEF Typed, InHand, Learns
  <1>3. Goroutines' /\ pc'[Reader] = "unique"
    BY <1>1, ReaderTyped DEF ReaderPCs, Learned
  <1>4. InHand'
    BY <1>1, <1>2, <1>3 DEF InHand, EvSet, Cleans, Learns
  <1> HIDE DEF c, p
  <1>5. latestCtx' \in [Pages -> AnyCtx] /\ \A q \in Pages : Own(q, latestCtx[q]) => Own(q, latestCtx'[q])
    BY <1>1, <1>2 DEF Typed, Caches, Own
  <1>6. Caches' /\ Browser'
    BY <1>1, <1>5 DEF Typed, Caches, Browser, browser, Learned
  <1>7. Owners'
    BY <1>1, <1>5 DEF Owners, Learned
  <1> QED BY <1>3, <1>4, <1>6, <1>7 DEF Typed

LEMMA TypedUnique ==
    ASSUME Typed, Owners, StoreUnique, Learned
    PROVE  Typed' /\ Owners'
  <1> DEFINE c == ev.event.ctx
  <1>1. /\ pc[Reader] = "unique" /\ ctxUniqueOwners' = With(ctxUniqueOwners, c, ev.page)
        /\ IF ev.page = NoPage THEN Goto(Reader, "idle") /\ ev' = Idle
           ELSE Goto(Reader, "isolated") /\ UNCHANGED ev
        /\ UNCHANGED <<latestCtx, ctxMap, ctxCounter, queue, reEmitted>>
    BY DEF StoreUnique
  <1>2. /\ ev.event \in Made /\ ev \in EvSet /\ ev.page \in {NoPage, ev.event.page}
        /\ c \in AllCtx /\ c[1] = ev.event.page
    BY <1>1, HandFacts DEF Typed, InHand, Learns
  <1>3. Goroutines' /\ InHand'
    <2>1. CASE ev.page = NoPage
      <3>1. Goroutines' /\ pc'[Reader] = "idle" /\ ev' = Idle
        BY <1>1, <2>1, ReaderTyped DEF ReaderPCs, Learned
      <3> QED BY <3>1, IdleFacts DEF InHand, Cleans, Learns
    <2>2. CASE ev.page # NoPage
      <3>1. Goroutines' /\ pc'[Reader] = "isolated" /\ ev' = ev
        BY <1>1, <2>2, ReaderTyped DEF ReaderPCs, Learned
      <3> QED BY <1>2, <2>2, <3>1 DEF InHand, EvSet, Cleans, Learns
    <2> QED BY <2>1, <2>2
  <1> HIDE DEF c
  <1>4. /\ DOMAIN ctxUniqueOwners' \subseteq AllCtx
        /\ \A x \in DOMAIN ctxUniqueOwners' : ctxUniqueOwners'[x] # NoPage => Own(ctxUniqueOwners'[x], x)
    BY <1>1, <1>2 DEF With, Typed, Caches, Owners, Own
  <1>5. Caches' /\ Browser'
    BY <1>1, <1>4 DEF Typed, Caches, Browser, browser, Learned
  <1>6. Owners'
    BY <1>1, <1>4 DEF Owners, Learned
  <1> QED BY <1>3, <1>5, <1>6 DEF Typed

LEMMA TypedIsolated ==
    ASSUME Typed, Owners, ReadIsolatedWorlds, Learned
    PROVE  Typed' /\ Owners'
  <1>1. /\ pc[Reader] = "isolated" /\ Goto(Reader, "worlds")
        /\ ev' = [ev EXCEPT !.todo = isolatedWorlds[ev.page]]
        /\ reEmitted' = [reEmitted EXCEPT ![ev.page] = ToSet(isolatedWorlds[ev.page])]
        /\ UNCHANGED <<latestCtx, ctxMap, ctxUniqueOwners, ctxCounter, queue>>
    BY DEF ReadIsolatedWorlds, contextMaps
  <1>2. ev.event \in Made /\ ev \in EvSet /\ ev.page = ev.event.page /\ ev.page \in Pages
    BY <1>1, HandFacts DEF Typed, InHand
  <1>3. isolatedWorlds[ev.page] \in Seq(Worlds)
    BY <1>2 DEF Typed, Caches
  <1>4. ToSet(isolatedWorlds[ev.page]) \subseteq Worlds
    BY <1>3 DEF ToSet
  <1>5. reEmitted' \in [Pages -> SUBSET Worlds]
    BY <1>1, <1>2, <1>4 DEF Typed, Caches
  <1>6. ev' \in EvSet /\ ev'.event = ev.event /\ ev'.page = ev.page
    BY <1>1, <1>2, <1>3 DEF EvSet
  <1>7. Goroutines' /\ pc'[Reader] = "worlds"
    BY <1>1, ReaderTyped DEF ReaderPCs, Learned
  <1>8. InHand'
    BY <1>2, <1>6, <1>7 DEF InHand, EvSet, Cleans, Learns
  <1>9. Caches' /\ Browser'
    BY <1>1, <1>5 DEF Typed, Caches, Browser, browser, Learned
  <1>10. Owners'
    BY <1>1 DEF Owners, Learned
  <1> QED BY <1>7, <1>8, <1>9, <1>10 DEF Typed

LEMMA TypedAnnounce ==
    ASSUME Typed, Owners, AnnounceWorld \/ WorldsAnnounced \/ DropContext, Learned
    PROVE  Typed' /\ Owners'
  <1>1. UNCHANGED <<latestCtx, ctxUniqueOwners, queue, reEmitted>>
    BY DEF AnnounceWorld, WorldsAnnounced, DropContext
  <1>2. Maps' /\ Goroutines' /\ InHand'
    <2>1. CASE AnnounceWorld
      <3> DEFINE e == [ctx |-> ev.event.ctx, owner |-> ev.page, world |-> Head(ev.todo)]
      <3>1. /\ pc[Reader] = "worlds" /\ ev.todo # <<>> /\ ctxCounter' = ctxCounter + 1
            /\ ctxMap' = With(ctxMap, ctxCounter + 1, e)
            /\ ev' = [ev EXCEPT !.todo = Tail(@)] /\ UNCHANGED pc
        BY <2>1 DEF AnnounceWorld, NextCtxID
      <3>2. ev.event \in Made /\ ev.page = ev.event.page /\ ev \in EvSet /\ ev.todo \in Seq(Worlds)
        BY <3>1 DEF Typed, InHand, EvSet
      <3>3. Head(ev.todo) \in Worlds /\ Tail(ev.todo) \in Seq(Worlds)
        BY <3>1, <3>2
      <3>4. e \in Entry /\ (e.owner # NoPage => Own(e.owner, e.ctx))
        BY <3>2, <3>3, MadeFacts DEF Entry, AnyPage, AnyWorld, Own
      <3> HIDE DEF e
      <3>5. ctxCounter + 1 \in Nat /\ ctxCounter + 1 > 0 /\ ctxCounter + 1 <= ctxCounter'
        BY <3>1 DEF Typed, Caches
      <3>6. Maps'
        BY <3>1, <3>4, <3>5, MapGrows
      <3>7. Goroutines' /\ pc'[Reader] = "worlds"
        BY <3>1, ReaderTyped DEF ReaderPCs, Learned
      <3>8. ev' \in EvSet /\ ev'.event = ev.event /\ ev'.page = ev.page
        BY <3>1, <3>2, <3>3 DEF EvSet
      <3>9. InHand'
        BY <3>2, <3>7, <3>8 DEF InHand, EvSet, Cleans, Learns
      <3> QED BY <3>6, <3>7, <3>9
    <2>2. CASE WorldsAnnounced \/ DropContext
      <3>1. /\ Goto(Reader, "idle") /\ ev' = Idle /\ UNCHANGED ctxCounter
            /\ UNCHANGED ctxMap \/ \E S : ctxMap' = Without(ctxMap, S)
        <4>1. CASE WorldsAnnounced
          BY <4>1 DEF WorldsAnnounced
        <4>2. CASE DropContext
          BY <4>2 DEF DropContext
        <4> QED BY <2>2, <4>1, <4>2
      <3>2. Maps'
        BY <3>1, MapShrinks
      <3>3. Goroutines' /\ pc'[Reader] = "idle"
        BY <3>1, ReaderTyped DEF ReaderPCs, Learned
      <3>4. InHand'
        BY <3>1, <3>3, IdleFacts DEF InHand, Cleans, Learns
      <3> QED BY <3>2, <3>3, <3>4
    <2> QED BY <2>1, <2>2
  <1>3. Caches' /\ Browser'
    BY <1>1, <1>2 DEF Typed, Caches, Browser, browser, Maps, Learned
  <1>4. Owners'
    BY <1>1, <1>2 DEF Owners, Maps, Learned
  <1> QED BY <1>2, <1>3, <1>4 DEF Typed

LEMMA TypedReader ==
    ASSUME Typed, Owners, ReaderStep
    PROVE  Typed' /\ Owners'
  <1>1. Reader \in Threads
    BY ThreadFacts
  <1> QED BY <1>1, TypedReply, TypedNotes, TypedDetached, TypedCreated, TypedDestroyed, TypedStore, TypedLatest,
             TypedUnique, TypedIsolated, TypedAnnounce, TypedCleanup DEF ReaderStep, Notes, Learned

------------------------------------------------------------------------------
(* What the browser writes.                                                 *)

Quiet(p) == Of(p) \ Makes(p)

\* The sequence reports context c of page p, and no other one.
Reports(r, p, c) ==
    /\ r \in Seq(Of(p)) /\ Has(r, MakesCtx(p, c)) /\ ~Has(r, Makes(p) \ MakesCtx(p, c))

LEMMA Listed ==
    ASSUME NEW S, IsFiniteSet(S)
    PROVE  SetToSeq(S) \in [1 .. Cardinality(S) -> S] /\ Cardinality(S) \in Nat
  <1>1. Cardinality(S) \in Nat /\ ExistsBijection(1 .. Cardinality(S), S)
    BY FS_CardinalityType
  <1>2. \E f \in [1 .. Cardinality(S) -> S] : IsInjective(f)
    BY <1>1 DEF ExistsBijection, Bijection, Injection
  <1> QED BY <1>1, <1>2 DEF SetToSeq

LEMMA Mapped ==
    ASSUME NEW T, NEW n \in Nat, NEW r \in [1 .. n -> T]
    PROVE  r \in Seq(T) /\ Len(r) = n /\ DOMAIN r = 1 .. n
  OBVIOUS

LEMMA One ==
    ASSUME NEW S, NEW e \in S
    PROVE  /\ <<e>> \in Seq(S) /\ Len(<<e>>) = 1 /\ <<e>>[1] = e /\ DOMAIN <<e>> = 1 .. 1
           /\ \A i \in DOMAIN <<e>> : i = 1
  OBVIOUS

LEMMA HasOne ==
    ASSUME NEW S, NEW e \in S, NEW T
    PROVE  (Has(<<e>>, T) <=> e \in T) /\ Once(<<e>>, T)
  BY One DEF Has, Once

LEMMA HasNone ==
    ASSUME NEW S, NEW r \in Seq(S), NEW T, S \cap T = {}
    PROVE  ~Has(r, T) /\ Once(r, T)
  <1>1. \A i \in DOMAIN r : r[i] \in S
    OBVIOUS
  <1> QED BY <1>1 DEF Has, Once

LEMMA SeqWider ==
    ASSUME NEW S, NEW T, S \subseteq T, NEW r \in Seq(S)
    PROVE  r \in Seq(T)
  OBVIOUS

LEMMA Kept ==
    ASSUME NEW p \in Pages
    PROVE  /\ Quiet(p) \subseteq Of(p) /\ Of(p) \subseteq PageEvents /\ Of(p) \subseteq News
           /\ Quiet(p) \cap Makes(p) = {}
           /\ \A q \in Pages : q # p => Of(p) \cap Of(q) = {} /\ Of(p) \cap Makes(q) = {}
           /\ \A t : Of(p) \cap Answers(t) = {}
  <1>1. \A t : Of(p) \cap Answers(t) = {}
    BY Kinds DEF Answers, Of, News
  <1> QED BY <1>1 DEF Quiet, Of, Makes, News

LEMMA ReportsOne ==
    ASSUME NEW p \in Pages, NEW c \in AllCtx, NEW e \in MakesCtx(p, c)
    PROVE  Reports(<<e>>, p, c)
  <1>1. e \in Of(p)
    BY DEF MakesCtx, Makes
  <1>2. <<e>> \in Seq(Of(p)) /\ Has(<<e>>, MakesCtx(p, c))
    BY <1>1, One, HasOne
  <1>3. ~Has(<<e>>, Makes(p) \ MakesCtx(p, c))
    BY HasOne
  <1> QED BY <1>2, <1>3 DEF Reports

LEMMA ReportsTwo ==
    ASSUME NEW p \in Pages, NEW c \in AllCtx, NEW a \in Quiet(p), NEW e \in MakesCtx(p, c)
    PROVE  Reports(<<a, e>>, p, c)
  <1> DEFINE r == <<a, e>>
  <1>1. a \in Of(p) /\ e \in Of(p) /\ a \notin Makes(p)
    BY DEF Quiet, MakesCtx, Makes
  <1>2. r \in Seq(Of(p)) /\ Len(r) = 2 /\ DOMAIN r = 1 .. 2 /\ r[1] = a /\ r[2] = e
    BY <1>1
  <1> HIDE DEF r
  <1>3. Has(r, MakesCtx(p, c)) /\ ~Has(r, Makes(p) \ MakesCtx(p, c))
    BY <1>1, <1>2 DEF Has
  <1> QED BY <1>2, <1>3 DEF Reports, r

LEMMA ReportsMore ==
    ASSUME NEW p \in Pages, NEW c \in AllCtx, NEW r, Reports(r, p, c), NEW a \in Seq(Quiet(p))
    PROVE  Reports(a \o r, p, c) /\ Reports(r \o a, p, c)
  <1> DEFINE D == Makes(p) \ MakesCtx(p, c)
  <1>1. a \in Seq(Of(p)) /\ ~Has(a, D) /\ r \in Seq(Of(p))
    <2>1. Quiet(p) \cap D = {} /\ Quiet(p) \subseteq Of(p)
      BY DEF Quiet
    <2> QED BY <2>1, HasNone, SeqWider DEF Reports
  <1>2. Has(r, MakesCtx(p, c)) /\ ~Has(r, D)
    BY DEF Reports
  <1> HIDE DEF D
  <1>3. /\ a \o r \in Seq(Of(p)) /\ r \o a \in Seq(Of(p))
        /\ Has(a \o r, MakesCtx(p, c)) /\ Has(r \o a, MakesCtx(p, c))
    BY <1>1, <1>2, Joined, HasJoined
  <1>4. ~Has(a \o r, D) /\ ~Has(r \o a, D)
    BY <1>1, <1>2, HasJoined
  <1> QED BY <1>3, <1>4 DEF Reports, D

LEMMA QuietFacts ==
    ASSUME NEW p \in Pages
    PROVE  /\ \A k \in FrameKinds, f \in Frames : Event(k, p, f, NoCtx) \in Quiet(p)
           /\ \A k \in PageKinds : Event(k, p, NoFrame, NoCtx) \in Quiet(p)
           /\ \A c \in AllCtx, f \in AnyFrame : c[1] = p => Event("destroyed", p, f, c) \in Quiet(p)
           /\ \A f \in Frames, n \in 1 .. MaxDocs :
                 Event("created", p, f, <<p, f, n>>) \in MakesCtx(p, <<p, f, n>>)
  <1>1. \A k, f, c : Event(k, p, f, c).kind = k /\ Event(k, p, f, c).page = p /\ Event(k, p, f, c).ctx = c
    BY DEF Event
  <1>2. \A k \in FrameKinds \cup PageKinds \cup {"destroyed"} : k # "created"
    BY DEF FrameKinds, PageKinds
  <1> QED BY <1>1, <1>2, Written DEF Quiet, Of, Makes, MakesCtx, PageEvents

\* The end of a context of page p that exists.
Ends(p) == {e \in Gone : e.page = p /\ e.ctx \in live}

LEMMA DestroyedQuiet ==
    ASSUME Typed, NEW p \in Pages
    PROVE  Destroyed(p) \in Seq(Ends(p)) /\ Destroyed(p) \in Seq(Quiet(p))
  <1> DEFINE S == {c \in live : c[1] = p}
             old == SetToSeq(S)
  <1>1. IsFiniteSet(S)
    <2>1. S \subseteq live /\ IsFiniteSet(live)
      BY DEF Typed, Browser
    <2> QED BY <2>1, FS_Subset
  <1>2. old \in [1 .. Cardinality(S) -> S] /\ Cardinality(S) \in Nat
    BY <1>1, Listed
  <1>3. \A x \in S : /\ Event("destroyed", p, NoFrame, x) \in Quiet(p)
                     /\ Event("destroyed", p, NoFrame, x) \in Ends(p)
    <2> SUFFICES ASSUME NEW x \in S
                 PROVE  /\ Event("destroyed", p, NoFrame, x) \in Quiet(p)
                        /\ Event("destroyed", p, NoFrame, x) \in Ends(p)
      OBVIOUS
    <2>1. x \in AllCtx /\ NoFrame \in AnyFrame /\ x \in live /\ x[1] = p
      BY DEF Typed, Browser, AnyFrame
    <2>2. Event("destroyed", p, NoFrame, x).page = p /\ Event("destroyed", p, NoFrame, x).ctx = x
      BY DEF Event
    <2> QED BY <2>1, <2>2, QuietFacts, Written DEF Ends
  <1>4. Destroyed(p) = [i \in DOMAIN old |-> Event("destroyed", p, NoFrame, old[i])]
    BY DEF Destroyed
  <1> HIDE DEF old, S
  <1>5. Destroyed(p) \in [1 .. Cardinality(S) -> Quiet(p)] /\ Destroyed(p) \in [1 .. Cardinality(S) -> Ends(p)]
    BY <1>2, <1>3, <1>4
  <1> QED BY <1>2, <1>5, Mapped

\* What tells of the end of page p, or of its contexts.
Parting(p) == Ends(p) \cup {Event("detached", p, NoFrame, NoCtx)}

LEMMA PartingFacts ==
    ASSUME NEW p \in Pages
    PROVE  /\ Parting(p) \subseteq Quiet(p) /\ Parting(p) \subseteq Of(p)
           /\ Parting(p) \cap Makes(p) = {}
           /\ \A e \in Parting(p) : /\ e.kind # "attached" /\ e.kind \notin FrameKinds
                                    /\ e \in Gone => e.ctx \in live /\ e.ctx[1] = p
  <1>1. \A e \in Ends(p) : e \in Of(p) /\ e.kind = "destroyed" /\ e.ctx \in live /\ e.ctx[1] = p
    BY GoneFacts DEF Ends, Of, PageEvents
  <1>2. Event("detached", p, NoFrame, NoCtx) \in Of(p)
    BY QuietFacts, Kept DEF PageKinds
  <1>3. Event("detached", p, NoFrame, NoCtx).kind = "detached"
    BY DEF Event
  <1>4. \A e \in Parting(p) : /\ e \in Of(p) /\ e.kind \in {"destroyed", "detached"}
                              /\ e.kind = "destroyed" => e.ctx \in live /\ e.ctx[1] = p
    BY <1>1, <1>2, <1>3 DEF Parting
  <1> QED BY <1>4, GoneFacts DEF Quiet, Makes, FrameKinds

LEMMA DetachedParts ==
    ASSUME Typed, NEW p \in Pages
    PROVE  Detached(p) \in Seq(Parting(p)) /\ Detached(p) \in Seq(Quiet(p))
  <1> DEFINE e == Event("detached", p, NoFrame, NoCtx)
  <1>1. e \in Parting(p) /\ Ends(p) \subseteq Parting(p)
    BY DEF Parting
  <1> HIDE DEF e
  <1>2. Destroyed(p) \in Seq(Parting(p)) /\ <<e>> \in Seq(Parting(p))
    BY <1>1, DestroyedQuiet, SeqWider, One
  <1>3. Detached(p) \in Seq(Parting(p))
    BY <1>2, Joined DEF Detached, e
  <1> QED BY <1>3, PartingFacts, SeqWider

\* What the browser writes for page p: its own events, with the context it made.
Wrote(p, r) ==
    /\ queue' = queue \o r /\ r \in Seq(Of(p))
    /\ \A q \in Pages : q # p => newest'[q] = newest[q] /\ page'[q] = page[q]
    /\ \/ /\ newest'[p] \in AllCtx /\ Reports(r, p, newest'[p])
          /\ page[p] = "new" \/ newest'[p][2] \in Subs \/ newest'[p][3] > docs[p]
       \/ newest'[p] = newest[p] /\ ~Has(r, Makes(p)) /\ (page'[p] = "new" <=> page[p] = "new")

LEMMA WroteQuietly ==
    ASSUME Typed, NEW p \in Pages, NEW r \in Seq(Quiet(p)), queue' = queue \o r, UNCHANGED newest,
           \A q \in Pages : page'[q] = "new" <=> page[q] = "new",
           \A q \in Pages : q # p => page'[q] = page[q]
    PROVE  Wrote(p, r)
  <1>1. r \in Seq(Of(p)) /\ ~Has(r, Makes(p))
    BY Kept, HasNone, SeqWider
  <1> QED BY <1>1 DEF Wrote

LEMMA OpensWrites ==
    ASSUME Typed, NEW p \in Pages, Opens(p)
    PROVE  \E r : Wrote(p, r)
  <1> DEFINE c        == <<p, mainFrame[p], 1>>
             attached == <<Event("attached", p, NoFrame, NoCtx)>>
             frame    == <<Event("frameAttached", p, mainFrame[p], NoCtx)>>
             context  == <<Event("created", p, mainFrame[p], c)>>
  <1>1. mainFrame[p] \in Frames /\ 1 \in 1 .. MaxDocs
    BY ContextsAssumption DEF Typed, Browser, Frames
  <1>2. c \in AllCtx /\ Reports(context, p, c)
    BY <1>1, Written, QuietFacts, ReportsOne
  <1>3. attached \in Seq(Quiet(p)) /\ frame \in Seq(Quiet(p))
    BY <1>1, QuietFacts, One DEF PageKinds, FrameKinds
  <1>4. newest' = [newest EXCEPT ![p] = c] /\ page' = [page EXCEPT ![p] = "live"] /\ page[p] = "new"
    BY DEF Opens
  <1>5. \E news \in {attached \o context, (attached \o frame) \o context,
                     (frame \o context) \o attached, (frame \o attached) \o context} : queue' = queue \o news
    BY DEF Opens
  <1> HIDE DEF c, attached, frame, context
  <1>6. newest'[p] = c /\ \A q \in Pages : q # p => newest'[q] = newest[q] /\ page'[q] = page[q]
    BY <1>4 DEF Typed, Browser
  <1>7. attached \o frame \in Seq(Quiet(p)) /\ frame \o attached \in Seq(Quiet(p))
    BY <1>3, Joined
  <1>8. Reports(attached \o context, p, c) /\ Reports((attached \o frame) \o context, p, c)
        /\ Reports((frame \o context) \o attached, p, c) /\ Reports((frame \o attached) \o context, p, c)
    BY <1>2, <1>3, <1>7, ReportsMore
  <1>9. PICK r : queue' = queue \o r /\ Reports(r, p, c)
    BY <1>5, <1>8
  <1> QED BY <1>2, <1>4, <1>6, <1>9 DEF Wrote, Reports

\* BiDi's commit, which comes when a navigation starts.
LEMMA StartFacts ==
    ASSUME Typed, NEW p \in Pages, NavigationStarts(p)
    PROVE  /\ queue' = queue \o <<Event("committed", p, mainFrame[p], NoCtx)>>
           /\ <<Event("committed", p, mainFrame[p], NoCtx)>> \in Seq(Quiet(p))
           /\ Event("committed", p, mainFrame[p], NoCtx) \in Of(p)
           /\ mainFrame[p] \in Mains /\ mainFrame[p] \in Frames
           /\ isBiDi /\ page[p] = "live" /\ navs' \in [Pages -> Navs]
           /\ UNCHANGED <<page, mainFrame, subs, docs, live, newest, inbox>>
  <1> DEFINE e == Event("committed", p, mainFrame[p], NoCtx)
  <1>1. mainFrame[p] \in Mains /\ mainFrame[p] \in Frames
    BY DEF Typed, Browser, Frames
  <1>2. e \in Quiet(p)
    BY <1>1, QuietFacts DEF FrameKinds
  <1>3. e \in Of(p) /\ e \in News
    BY <1>2, Kept DEF Quiet
  <1>4. navs' \in [Pages -> Navs]
    <2>1. PICK l \in {"started", "none"} : navs' = [navs EXCEPT ![p] = l]
      BY DEF NavigationStarts
    <2> QED BY <2>1 DEF Typed, Browser, Navs
  <1>5. queue' = Append(queue, e)
    BY DEF NavigationStarts
  <1> HIDE DEF e
  <1>6. queue' = queue \o <<e>> /\ <<e>> \in Seq(Quiet(p))
    BY <1>2, <1>3, <1>5, AppendIsConcat, One DEF Typed, Browser
  <1> QED BY <1>1, <1>3, <1>4, <1>6 DEF NavigationStarts, e

LEMMA CommitsWrites ==
    ASSUME Typed, NEW p \in Pages, Commits(p)
    PROVE  \E r : Wrote(p, r)
  <1>1. PICK f \in IF isBiDi THEN {mainFrame[p]} ELSE Mains, told \in BOOLEAN, early \in BOOLEAN :
          LET c == <<p, f, docs[p] + 1>>
              old == SetToSeq({s \in Subs : subs[p][s] = "there"})
              frames == (IF told /\ f # mainFrame[p]
                           THEN <<Event("frameDetached", p, mainFrame[p], NoCtx),
                                  Event("frameAttached", p, f, NoCtx)>>
                           ELSE <<>>)
                        \o [i \in DOMAIN old |-> Event("frameDetached", p, old[i], NoCtx)]
              committed == <<Event("committed", p, f, NoCtx)>>
              created   == <<Event("created", p, f, c)>>
              news == IF isBiDi THEN Destroyed(p) \o created
                      ELSE frames \o <<Event("started", p, f, NoCtx)>> \o Destroyed(p)
                           \o <<Event("cleared", p, NoFrame, NoCtx)>>
                           \o (IF early THEN created \o committed ELSE committed \o created)
          IN  /\ newest' = [newest EXCEPT ![p] = c]
              /\ queue' = queue \o news
    BY DEF Commits
  <1> DEFINE c == <<p, f, docs[p] + 1>>
             S == {s \in Subs : subs[p][s] = "there"}
             old == SetToSeq(S)
             swap == IF told /\ f # mainFrame[p]
                       THEN <<Event("frameDetached", p, mainFrame[p], NoCtx),
                              Event("frameAttached", p, f, NoCtx)>>
                       ELSE <<>>
             left == [i \in DOMAIN old |-> Event("frameDetached", p, old[i], NoCtx)]
             started   == <<Event("started", p, f, NoCtx)>>
             cleared   == <<Event("cleared", p, NoFrame, NoCtx)>>
             committed == <<Event("committed", p, f, NoCtx)>>
             created   == <<Event("created", p, f, c)>>
             bidi == Destroyed(p) \o created
             before == (((swap \o left) \o started) \o Destroyed(p)) \o cleared
  <1>2. /\ newest' = [newest EXCEPT ![p] = c] /\ UNCHANGED page
        /\ queue' = queue \o (IF isBiDi THEN bidi
                              ELSE before \o (IF early THEN created \o committed ELSE committed \o created))
    BY <1>1 DEF Commits
  <1>3. f \in Frames /\ mainFrame[p] \in Frames /\ docs[p] + 1 \in 1 .. MaxDocs
    <2>1. mainFrame[p] \in Mains /\ docs[p] \in 0 .. MaxDocs /\ MaxDocs \in Nat
      BY ContextsAssumption DEF Typed, Browser
    <2>2. f \in Mains
      BY <2>1
    <2>3. docs[p] < MaxDocs
      BY DEF Commits
    <2>4. docs[p] + 1 \in 1 .. MaxDocs
      BY <2>1, <2>3
    <2> QED BY <2>1, <2>2, <2>4 DEF Frames
  <1>4. c \in AllCtx /\ Reports(created, p, c) /\ c[3] > docs[p]
    <2>1. c[3] > docs[p]
      BY <1>3 DEF Typed, Browser
    <2> QED BY <1>3, <2>1, Written, QuietFacts, ReportsOne
  <1>5. started \in Seq(Quiet(p)) /\ cleared \in Seq(Quiet(p)) /\ committed \in Seq(Quiet(p))
    BY <1>3, QuietFacts, One DEF PageKinds, FrameKinds
  <1>6. swap \in Seq(Quiet(p))
    <2>1. Event("frameDetached", p, mainFrame[p], NoCtx) \in Quiet(p)
          /\ Event("frameAttached", p, f, NoCtx) \in Quiet(p)
      BY <1>3, QuietFacts DEF FrameKinds
    <2> QED BY <2>1
  <1>7. left \in Seq(Quiet(p))
    <2>1. IsFiniteSet(S)
      <3>1. S \subseteq Subs /\ IsFiniteSet(Subs)
        BY ContextsAssumption
      <3> QED BY <3>1, FS_Subset
    <2>2. old \in [1 .. Cardinality(S) -> S] /\ Cardinality(S) \in Nat
      BY <2>1, Listed
    <2>3. \A s \in S : Event("frameDetached", p, s, NoCtx) \in Quiet(p)
      BY QuietFacts DEF FrameKinds, Frames
    <2> HIDE DEF old, S
    <2>4. left \in [1 .. Cardinality(S) -> Quiet(p)]
      BY <2>2, <2>3
    <2> HIDE DEF left
    <2> QED BY <2>2, <2>4, Mapped
  <1>8. Destroyed(p) \in Seq(Quiet(p))
    BY DestroyedQuiet
  <1> HIDE DEF c, swap, left, started, cleared, committed, created
  <1>9. before \in Seq(Quiet(p))
    BY <1>5, <1>6, <1>7, <1>8, Joined
  <1>10. Reports(bidi, p, c)
    BY <1>4, <1>8, ReportsMore
  <1>11. Reports(created \o committed, p, c) /\ Reports(committed \o created, p, c)
    BY <1>4, <1>5, ReportsMore
  <1> HIDE DEF before, bidi
  <1>12. Reports(before \o (created \o committed), p, c) /\ Reports(before \o (committed \o created), p, c)
    BY <1>4, <1>9, <1>11, ReportsMore
  <1>13. PICK r : queue' = queue \o r /\ Reports(r, p, c)
    BY <1>2, <1>10, <1>12
  <1>14. newest'[p] = c /\ \A q \in Pages : q # p => newest'[q] = newest[q] /\ page'[q] = page[q]
    BY <1>2 DEF Typed, Browser
  <1> QED BY <1>4, <1>13, <1>14 DEF Wrote, Reports

LEMMA FramesWrite ==
    ASSUME Typed, NEW p \in Pages, NEW s \in Subs,
           SubFrameAppears(p, s) \/ SubFrameNavigates(p, s) \/ SubFrameGoes(p, s)
    PROVE  \E r : Wrote(p, r)
  <1> DEFINE c == <<p, s, docs[p]>>
  <1>1. s \in Frames /\ docs[p] \in 1 .. MaxDocs
    BY DEF Typed, Browser, Frames, SubFrameAppears, SubFrameNavigates, SubFrameGoes
  <1>2. c \in AllCtx /\ c[1] = p /\ c[2] \in Subs
    BY <1>1, Written
  <1>3. CASE SubFrameAppears(p, s)
    <2> DEFINE r == <<Event("frameAttached", p, s, NoCtx), Event("created", p, s, c)>>
    <2>1. newest' = [newest EXCEPT ![p] = c] /\ UNCHANGED page /\ queue' = queue \o r
      BY <1>3 DEF SubFrameAppears
    <2>2. Event("frameAttached", p, s, NoCtx) \in Quiet(p) /\ Event("created", p, s, c) \in MakesCtx(p, c)
      BY <1>1, QuietFacts DEF FrameKinds
    <2> HIDE DEF c
    <2>3. Reports(r, p, c)
      BY <1>2, <2>2, ReportsTwo
    <2> HIDE DEF r
    <2>4. newest'[p] = c /\ \A q \in Pages : q # p => newest'[q] = newest[q] /\ page'[q] = page[q]
      BY <2>1 DEF Typed, Browser
    <2> QED BY <1>2, <2>1, <2>3, <2>4 DEF Wrote, Reports
  <1>4. CASE SubFrameNavigates(p, s)
    <2> DEFINE r == <<Event("started", p, s, NoCtx), Event("committed", p, s, NoCtx)>>
    <2>1. queue' = queue \o r /\ UNCHANGED browser
      BY <1>4 DEF SubFrameNavigates
    <2>2. Event("started", p, s, NoCtx) \in Quiet(p) /\ Event("committed", p, s, NoCtx) \in Quiet(p)
      BY <1>1, QuietFacts DEF FrameKinds
    <2>3. r \in Seq(Quiet(p))
      BY <2>2
    <2> HIDE DEF r
    <2> QED BY <2>1, <2>3, WroteQuietly DEF browser
  <1>5. CASE SubFrameGoes(p, s)
    <2> DEFINE r == <<Event("destroyed", p, s, c), Event("frameDetached", p, s, NoCtx)>>
    <2>1. queue' = queue \o r /\ UNCHANGED <<newest, page>>
      BY <1>5 DEF SubFrameGoes
    <2>2. Event("destroyed", p, s, c) \in Quiet(p) /\ Event("frameDetached", p, s, NoCtx) \in Quiet(p)
      BY <1>1, <1>2, QuietFacts DEF FrameKinds, AnyFrame
    <2>3. r \in Seq(Quiet(p))
      BY <2>2
    <2> HIDE DEF r
    <2> QED BY <2>1, <2>3, WroteQuietly
  <1> QED BY <1>3, <1>4, <1>5

LEMMA BrowserWrites ==
    ASSUME Typed, NEW p \in Pages, BrowserStep(p)
    PROVE  \E r : Wrote(p, r)
  <1>1. CASE PageNavigates(p)
    <2>1. queue' = queue \o <<>> /\ <<>> \in Seq(Quiet(p)) /\ UNCHANGED <<newest, page>>
      BY <1>1 DEF PageNavigates, Typed, Browser
    <2> QED BY <2>1, WroteQuietly
  <1>2. CASE ClosesItself(p)
    <2>1. /\ queue' = queue \o Detached(p) /\ UNCHANGED newest
          /\ page[p] = "live" /\ page' = [page EXCEPT ![p] = "gone"]
      BY <1>2 DEF ClosesItself, Goes
    <2>2. \A q \in Pages : (page'[q] = "new" <=> page[q] = "new") /\ (q # p => page'[q] = page[q])
      BY <2>1 DEF Typed, Browser
    <2> QED BY <2>1, <2>2, DetachedParts, WroteQuietly
  <1>3. CASE NavigationStarts(p)
    BY <1>3, StartFacts, WroteQuietly
  <1> QED BY <1>1, <1>2, <1>3, OpensWrites, CommitsWrites, FramesWrite DEF BrowserStep

\* The browser answers thread t's call, once, and may tell of the end of its page.
Served(t, r) ==
    /\ queue' = queue \o r /\ r \in Seq(Parting(t[2]) \cup Answers(t)) /\ Once(r, Answers(t))
    /\ (page[t[2]] = "live" /\ Goes(t[2])) \/ r \in Seq(Answers(t))

LEMMA ServedReply ==
    ASSUME Typed, NEW t \in Callers, NEW ok \in BOOLEAN,
           \/ queue' = Append(queue, Reply(t, ok))
           \/ /\ page[t[2]] = "live" /\ Goes(t[2])
              /\ queue' \in {Append(queue, Reply(t, ok)) \o Detached(t[2]),
                             queue \o Detached(t[2]) \o <<Reply(t, ok)>>}
    PROVE  \E r : Served(t, r)
  <1> DEFINE p == t[2]
             S == Parting(p) \cup Answers(t)
             one == <<Reply(t, ok)>>
             gone == page[p] = "live" /\ Goes(p)
  <1>1. p \in Pages /\ queue \in Seq(News)
    BY ThreadFacts DEF Typed, Browser
  <1>2. one \in Seq(News) /\ one \in Seq(S) /\ one \in Seq(Answers(t)) /\ Once(one, Answers(t))
    BY Replied, HasOne, One
  <1>3. Detached(p) \in Seq(Parting(p))
    BY <1>1, DetachedParts
  <1>4. Detached(p) \in Seq(News) /\ Detached(p) \in Seq(S) /\ ~Has(Detached(p), Answers(t))
        /\ Once(Detached(p), Answers(t))
    <2>1. Parting(p) \cap Answers(t) = {} /\ Parting(p) \subseteq News
      BY <1>1, Kept, PartingFacts
    <2> QED BY <1>3, <2>1, SeqWider, HasNone
  <1>5. Append(queue, Reply(t, ok)) = queue \o one
    BY <1>1, Replied, AppendIsConcat
  <1> HIDE DEF one, p, S, gone
  <1>6. /\ one \o Detached(p) \in Seq(S) /\ Detached(p) \o one \in Seq(S)
        /\ Once(one \o Detached(p), Answers(t)) /\ Once(Detached(p) \o one, Answers(t))
    BY <1>2, <1>4, Joined, OnceJoined
  <1>7. /\ (queue \o one) \o Detached(p) = queue \o (one \o Detached(p))
        /\ (queue \o Detached(p)) \o one = queue \o (Detached(p) \o one)
    <2> DEFINE d == Detached(p)
    <2>1. d \in Seq(News)
      BY <1>4
    <2> HIDE DEF d
    <2>2. \A s, u, v \in Seq(News) : (s \o u) \o v = s \o (u \o v)
      BY ConcatAssociative
    <2>3. (queue \o one) \o d = queue \o (one \o d) /\ (queue \o d) \o one = queue \o (d \o one)
      BY <1>1, <1>2, <2>1, <2>2
    <2> QED BY <2>3 DEF d
  <1>8. \E r : queue' = queue \o r /\ r \in Seq(S) /\ Once(r, Answers(t)) /\ (gone \/ r \in Seq(Answers(t)))
    <2>1. CASE queue' = queue \o one
      BY <2>1, <1>2
    <2>2. CASE gone /\ queue' = queue \o (one \o Detached(p))
      BY <2>2, <1>6
    <2>3. CASE gone /\ queue' = queue \o (Detached(p) \o one)
      BY <2>3, <1>6
    <2> QED BY <1>5, <1>7, <2>1, <2>2, <2>3 DEF p, one, gone
  <1> QED BY <1>8 DEF Served, p, S, gone

LEMMA Serves ==
    ASSUME Typed, NEW t \in Threads, BrowserServes(t)
    PROVE  /\ t \in Callers /\ inbox[t] # NoEvent /\ inbox' = [inbox EXCEPT ![t] = NoEvent]
           /\ UNCHANGED <<bridge, pc, h, ev, enabling, named, reEmitted>>
           /\ \E r : Served(t, r)
           /\ \/ page[t[2]] = "live" /\ Goes(t[2])
              \/ UNCHANGED <<page, mainFrame, subs, docs, live, newest>> /\ navs' \in [Pages -> Navs]
  <1> DEFINE p == t[2]
             call == inbox[t]
  <1>1. /\ call.kind # "none" /\ inbox' = [inbox EXCEPT ![t] = NoEvent]
        /\ UNCHANGED <<bridge, pc, h, ev, enabling, named, reEmitted>>
        /\ \/ ServeNavigate(p, t, call)
           \/ ServeReload(p, t)
           \/ ServeEvaluate(p, t, call)
           \/ queue' = Append(queue, Reply(t, TRUE)) /\ UNCHANGED browser
           \/ ServeClose(p, t)
           \/ queue' = Append(queue, Reply(t, FALSE)) /\ UNCHANGED browser
    BY DEF BrowserServes, Serve
  <1>2. t \in Callers /\ inbox[t] # NoEvent /\ p \in Pages
    <2>1. NoEvent.kind = "none"
      BY DEF NoEvent
    <2>2. t # Reader
      BY <1>1, <2>1 DEF Typed, Goroutines
    <2> QED BY <1>1, <2>1, <2>2, ThreadFacts
  <1> DEFINE E == /\ \E ok \in BOOLEAN :
                        \/ queue' = Append(queue, Reply(t, ok))
                        \/ /\ page[p] = "live" /\ Goes(p)
                           /\ queue' \in {Append(queue, Reply(t, ok)) \o Detached(p),
                                          queue \o Detached(p) \o <<Reply(t, ok)>>}
                  /\ \/ page[p] = "live" /\ Goes(p)
                     \/ UNCHANGED <<page, mainFrame, subs, docs, live, newest>> /\ navs' \in [Pages -> Navs]
  <1>3. navs \in [Pages -> Navs] /\ "accepted" \in Navs /\ "none" \in Navs
    BY DEF Typed, Browser, Navs
  <1>4. ASSUME ServeNavigate(p, t, call) PROVE E
    <2>1. UNCHANGED <<page, mainFrame, subs, docs, live, newest>>
      BY <1>4 DEF ServeNavigate
    <2>2. navs' \in [Pages -> Navs]
      <3>1. CASE navs' = [navs EXCEPT ![p] = IF call.kind = "navigate" /\ docs[p] < MaxDocs
                                                THEN "accepted" ELSE @]
        BY <1>2, <1>3, <3>1
      <3>2. CASE navs' = navs
        BY <1>3, <3>2
      <3> QED BY <1>4, <3>1, <3>2 DEF ServeNavigate
    <2>3. \E ok \in BOOLEAN : queue' = Append(queue, Reply(t, ok))
      <3> DEFINE ok == page[p] = "live" /\ (isBiDi \/ call.frame # NoFrame)
      <3>1. ok \in BOOLEAN
        OBVIOUS
      <3>2. queue' = Append(queue, Reply(t, TRUE)) \/ queue' = Append(queue, Reply(t, ok))
        BY <1>4 DEF ServeNavigate
      <3> HIDE DEF ok
      <3> QED BY <3>1, <3>2
    <2> QED BY <2>1, <2>2, <2>3
  <1>5. ASSUME ServeReload(p, t) PROVE E
    <2>1. (page[p] = "live") \in BOOLEAN
      OBVIOUS
    <2>2. navs' \in [Pages -> Navs]
      BY <1>2, <1>3, <1>5, <2>1 DEF ServeReload
    <2>3. \E ok \in BOOLEAN : queue' = Append(queue, Reply(t, ok))
      <3>1. queue' = Append(queue, Reply(t, page[p] = "live"))
        BY <1>5 DEF ServeReload
      <3> QED BY <2>1, <3>1
    <2> QED BY <1>5, <2>2, <2>3 DEF ServeReload
  <1>6. ASSUME ServeEvaluate(p, t, call) PROVE E
    <2>1. \E ok \in BOOLEAN : queue' = Append(queue, Reply(t, ok))
      <3>1. (page[p] = "live") \in BOOLEAN /\ (call.ctx \in live) \in BOOLEAN
        OBVIOUS
      <3>2. CASE isBiDi
        <4>1. queue' = Append(queue, Reply(t, page[p] = "live"))
          BY <1>6, <3>2 DEF ServeEvaluate
        <4> QED BY <3>1, <4>1
      <3>3. CASE ~isBiDi
        <4>1. queue' = Append(queue, Reply(t, call.ctx \in live))
          BY <1>6, <3>3 DEF ServeEvaluate
        <4> QED BY <3>1, <4>1
      <3> QED BY <3>2, <3>3
    <2> QED BY <1>3, <1>6, <2>1 DEF ServeEvaluate, browser
  <1>7. ASSUME ServeClose(p, t) PROVE E
    <2>1. CASE page[p] = "live"
      <3>1. Goes(p) /\ queue' \in {Append(queue, Reply(t, TRUE)) \o Detached(p),
                                   queue \o Detached(p) \o <<Reply(t, TRUE)>>}
        BY <1>7, <2>1 DEF ServeClose
      <3> QED BY <2>1, <3>1
    <2>2. CASE page[p] # "live"
      BY <1>3, <1>7, <2>2 DEF ServeClose, browser
    <2> QED BY <2>1, <2>2
  <1>8. ASSUME \E ok \in BOOLEAN : queue' = Append(queue, Reply(t, ok)), UNCHANGED browser PROVE E
    BY <1>3, <1>8 DEF browser
  <1>9. E
    BY <1>1, <1>4, <1>5, <1>6, <1>7, <1>8
  <1> HIDE DEF call
  <1> QED BY <1>1, <1>2, <1>9, ServedReply

\* The browser's own state, without what it wrote.
Documents ==
    /\ page \in [Pages -> {"new", "live", "gone"}]
    /\ mainFrame \in [Pages -> Mains]
    /\ subs \in [Pages -> [Subs -> {"none", "there", "left"}]]
    /\ docs \in [Pages -> 0 .. MaxDocs]
    /\ navs \in [Pages -> Navs] /\ newest \in [Pages -> AnyCtx]
    /\ live \subseteq AllCtx /\ IsFiniteSet(live)
    /\ \A p \in Pages : IF page[p] = "new" THEN docs[p] = 0 ELSE docs[p] \in 1 .. MaxDocs
    /\ \A c \in live : /\ page[c[1]] = "live" /\ c[3] = docs[c[1]]
                       /\ c[2] \in Subs => subs[c[1]][c[2]] = "there"
    /\ isBiDi => \A p \in Pages, s \in Subs : subs[p][s] # "there"

LEMMA LiveFacts ==
    ASSUME Typed
    PROVE  /\ live \subseteq AllCtx /\ IsFiniteSet(live) /\ \A c \in live : c[1] \in Pages
           /\ \A S, c : S \subseteq live => IsFiniteSet(S) /\ IsFiniteSet(S \cup {c})
           /\ \A c \in AllCtx : c \in AnyCtx
  <1>1. live \subseteq AllCtx /\ IsFiniteSet(live)
    BY DEF Typed, Browser
  <1>2. \A S : S \subseteq live => IsFiniteSet(S)
    BY <1>1, FS_Subset
  <1>3. \A S, c : S \subseteq live => IsFiniteSet(S \cup {c})
    BY <1>2, FS_AddElement
  <1> QED BY <1>1, <1>2, <1>3, ContextFacts DEF AnyCtx

LEMMA OpensDocuments ==
    ASSUME Typed, NEW p \in Pages, Opens(p), UNCHANGED isBiDi
    PROVE  Documents'
  <1> DEFINE c == <<p, mainFrame[p], 1>>
  <1>1. /\ page[p] = "new" /\ page' = [page EXCEPT ![p] = "live"] /\ docs' = [docs EXCEPT ![p] = 1]
        /\ live' = live \cup {c} /\ newest' = [newest EXCEPT ![p] = c]
        /\ UNCHANGED <<mainFrame, subs, navs>>
    BY DEF Opens
  <1>2. mainFrame[p] \in Mains /\ mainFrame[p] \in Frames /\ mainFrame[p] \notin Subs /\ 1 \in 1 .. MaxDocs
    BY ContextsAssumption DEF Typed, Browser, Frames
  <1>3. c \in AllCtx /\ c[1] = p /\ c[2] = mainFrame[p] /\ c[3] = 1
    BY <1>2, Written
  <1> HIDE DEF c
  <1>4. live' \subseteq AllCtx /\ IsFiniteSet(live') /\ newest' \in [Pages -> AnyCtx]
    BY <1>1, <1>3, LiveFacts DEF Typed, Browser
  <1>5. ASSUME NEW x \in live'
        PROVE  /\ page'[x[1]] = "live" /\ x[3] = docs'[x[1]]
               /\ x[2] \in Subs => subs'[x[1]][x[2]] = "there"
    <2>1. CASE x = c
      BY <1>1, <1>2, <1>3, <2>1 DEF Typed, Browser
    <2>2. CASE x # c
      <3>1. x \in live /\ x[1] \in Pages /\ page[x[1]] = "live" /\ x[1] # p
        BY <1>1, <2>2, <1>5, LiveFacts DEF Typed, Browser
      <3> QED BY <1>1, <3>1 DEF Typed, Browser
    <2> QED BY <2>1, <2>2
  <1>6. docs' \in [Pages -> 0 .. MaxDocs] /\ \A q \in Pages : IF page'[q] = "new" THEN docs'[q] = 0 ELSE docs'[q] \in 1 .. MaxDocs
    <2>1. 1 \in 0 .. MaxDocs
      BY <1>2
    <2> QED BY <1>1, <1>2, <2>1 DEF Typed, Browser
  <1> QED BY <1>1, <1>4, <1>5, <1>6 DEF Documents, Typed, Browser

LEMMA CommitsDocuments ==
    ASSUME Typed, NEW p \in Pages, Commits(p), UNCHANGED isBiDi
    PROVE  Documents'
  <1>1. PICK f \in Mains :
           /\ mainFrame' = [mainFrame EXCEPT ![p] = f]
           /\ live' = {x \in live : x[1] # p} \cup {<<p, f, docs[p] + 1>>}
           /\ newest' = [newest EXCEPT ![p] = <<p, f, docs[p] + 1>>]
    <2>1. mainFrame[p] \in Mains
      BY DEF Typed, Browser
    <2> QED BY <2>1 DEF Commits
  <1> DEFINE c == <<p, f, docs[p] + 1>>
             rest == {x \in live : x[1] # p}
  <1>2. /\ page[p] = "live" /\ docs' = [docs EXCEPT ![p] = @ + 1]
        /\ subs' = [subs EXCEPT ![p] = [s \in Subs |-> "none"]]
        /\ navs' = [navs EXCEPT ![p] = "none"] /\ UNCHANGED page
    BY DEF Commits
  <1>3. docs[p] \in 0 .. MaxDocs /\ docs[p] + 1 \in 1 .. MaxDocs /\ docs[p] + 1 \in 0 .. MaxDocs
    <2>1. docs[p] \in 0 .. MaxDocs /\ MaxDocs \in Nat /\ docs[p] < MaxDocs
      BY ContextsAssumption DEF Typed, Browser, Commits
    <2> QED BY <2>1
  <1>4. f \in Frames /\ f \notin Subs
    BY ContextsAssumption DEF Frames
  <1>5. c \in AllCtx /\ c[1] = p /\ c[2] = f /\ c[3] = docs[p] + 1
    BY <1>3, <1>4, Written
  <1>6. live' = rest \cup {c} /\ newest' = [newest EXCEPT ![p] = c] /\ rest \subseteq live
    BY <1>1
  <1>7. \A x \in rest : x \in live /\ x[1] # p
    OBVIOUS
  <1> HIDE DEF c, rest
  <1>8. live' \subseteq AllCtx /\ IsFiniteSet(live') /\ newest' \in [Pages -> AnyCtx]
    BY <1>5, <1>6, LiveFacts DEF Typed, Browser
  <1>9. ASSUME NEW x \in live'
        PROVE  /\ page'[x[1]] = "live" /\ x[3] = docs'[x[1]]
               /\ x[2] \in Subs => subs'[x[1]][x[2]] = "there"
    <2>1. CASE x = c
      BY <1>2, <1>4, <1>5, <2>1 DEF Typed, Browser
    <2>2. CASE x # c
      <3>1. x \in live /\ x[1] \in Pages /\ x[1] # p
        BY <1>6, <1>7, <1>9, <2>2, LiveFacts
      <3> QED BY <1>2, <3>1 DEF Typed, Browser
    <2> QED BY <2>1, <2>2
  <1>10. /\ docs' \in [Pages -> 0 .. MaxDocs]
         /\ \A q \in Pages : IF page'[q] = "new" THEN docs'[q] = 0 ELSE docs'[q] \in 1 .. MaxDocs
    BY <1>2, <1>3 DEF Typed, Browser
  <1>11. /\ subs' \in [Pages -> [Subs -> {"none", "there", "left"}]]
         /\ \A q \in Pages, s \in Subs : subs'[q][s] \in {subs[q][s], "none"}
    BY <1>2 DEF Typed, Browser
  <1>12. mainFrame' \in [Pages -> Mains] /\ navs' \in [Pages -> Navs]
    BY <1>1, <1>2 DEF Typed, Browser, Navs
  <1> QED BY <1>2, <1>8, <1>9, <1>10, <1>11, <1>12 DEF Documents, Typed, Browser

LEMMA FramesDocuments ==
    ASSUME Typed, NEW p \in Pages, NEW s \in Subs, UNCHANGED isBiDi,
           SubFrameAppears(p, s) \/ SubFrameNavigates(p, s) \/ SubFrameGoes(p, s)
    PROVE  Documents'
  <1> DEFINE c == <<p, s, docs[p]>>
  <1>1. s \in Frames /\ docs[p] \in 1 .. MaxDocs /\ page[p] = "live"
    BY DEF Typed, Browser, Frames, SubFrameAppears, SubFrameNavigates, SubFrameGoes
  <1>2. c \in AllCtx /\ c[1] = p /\ c[2] = s /\ c[3] = docs[p]
    BY <1>1, Written
  <1>3. CASE SubFrameAppears(p, s)
    <2>1. /\ subs' = [subs EXCEPT ![p][s] = "there"] /\ live' = live \cup {c} /\ ~isBiDi
          /\ newest' = [newest EXCEPT ![p] = c] /\ UNCHANGED <<page, mainFrame, docs, navs>>
      BY <1>3 DEF SubFrameAppears
    <2> HIDE DEF c
    <2>2. live' \subseteq AllCtx /\ IsFiniteSet(live') /\ newest' \in [Pages -> AnyCtx]
      BY <1>2, <2>1, LiveFacts DEF Typed, Browser
    <2>3. /\ subs' \in [Pages -> [Subs -> {"none", "there", "left"}]] /\ subs'[p][s] = "there"
          /\ \A q \in Pages, r \in Subs : subs[q][r] = "there" => subs'[q][r] = "there"
      BY <2>1 DEF Typed, Browser
    <2>4. ASSUME NEW x \in live'
          PROVE  /\ page'[x[1]] = "live" /\ x[3] = docs'[x[1]]
                 /\ x[2] \in Subs => subs'[x[1]][x[2]] = "there"
      <3>1. CASE x = c
        BY <1>1, <1>2, <2>1, <2>3, <3>1
      <3>2. CASE x # c
        <4>1. x \in live /\ x[1] \in Pages
          BY <2>1, <2>4, <3>2, LiveFacts
        <4> QED BY <2>1, <2>3, <4>1 DEF Typed, Browser
      <3> QED BY <3>1, <3>2
    <2> QED BY <2>1, <2>2, <2>3, <2>4 DEF Documents, Typed, Browser
  <1>4. CASE SubFrameNavigates(p, s)
    BY <1>4 DEF SubFrameNavigates, browser, Documents, Typed, Browser
  <1>5. CASE SubFrameGoes(p, s)
    <2>1. /\ subs' = [subs EXCEPT ![p][s] = "left"] /\ live' = live \ {c}
          /\ UNCHANGED <<page, mainFrame, docs, navs, newest>>
      BY <1>5 DEF SubFrameGoes
    <2> HIDE DEF c
    <2>2. live' \subseteq live /\ IsFiniteSet(live')
      BY <2>1, LiveFacts
    <2>3. /\ subs' \in [Pages -> [Subs -> {"none", "there", "left"}]]
          /\ \A q \in Pages, r \in Subs : (q # p \/ r # s) => subs'[q][r] = subs[q][r]
          /\ subs'[p][s] = "left"
      BY <2>1 DEF Typed, Browser
    <2>4. ASSUME NEW x \in live'
          PROVE  /\ page'[x[1]] = "live" /\ x[3] = docs'[x[1]]
                 /\ x[2] \in Subs => subs'[x[1]][x[2]] = "there"
      <3>1. x \in live /\ x # c /\ x \in AllCtx /\ x[1] \in Pages /\ x = <<x[1], x[2], x[3]>>
        BY <2>1, <2>4, LiveFacts, ContextFacts
      <3>2. /\ page[x[1]] = "live" /\ x[3] = docs[x[1]]
            /\ x[2] \in Subs => subs[x[1]][x[2]] = "there"
        BY <3>1 DEF Typed, Browser
      <3>3. x[1] # p \/ x[2] # s
        BY <3>1, <3>2 DEF c
      <3>4. x[2] \in Subs => subs'[x[1]][x[2]] = subs[x[1]][x[2]]
        BY <2>3, <3>1, <3>3
      <3> QED BY <2>1, <3>2, <3>4
    <2>5. isBiDi' => \A q \in Pages, r \in Subs : subs'[q][r] # "there"
      <3>1. isBiDi => \A q \in Pages, r \in Subs : subs[q][r] # "there"
        BY DEF Typed, Browser
      <3>2. SUFFICES ASSUME isBiDi, NEW q \in Pages, NEW r \in Subs PROVE subs'[q][r] # "there"
        OBVIOUS
      <3>3. CASE q = p /\ r = s
        BY <2>3, <3>3
      <3> QED BY <2>3, <3>1, <3>2, <3>3
    <2> QED BY <2>1, <2>2, <2>3, <2>4, <2>5 DEF Documents, Typed, Browser
  <1> QED BY <1>3, <1>4, <1>5

LEMMA GoesDocuments ==
    ASSUME Typed, NEW p \in Pages, page[p] = "live", Goes(p), UNCHANGED isBiDi
    PROVE  Documents'
  <1>1. /\ page' = [page EXCEPT ![p] = "gone"] /\ live' = {c \in live : c[1] # p}
        /\ navs' = [navs EXCEPT ![p] = "none"] /\ UNCHANGED <<mainFrame, subs, docs, newest>>
    BY DEF Goes
  <1>2. live' \subseteq live /\ IsFiniteSet(live')
    BY <1>1, LiveFacts
  <1>3. \A c \in live' : c \in live /\ c[1] \in Pages /\ c[1] # p
    BY <1>1, LiveFacts
  <1>4. ASSUME NEW c \in live'
        PROVE  /\ page'[c[1]] = "live" /\ c[3] = docs'[c[1]]
               /\ c[2] \in Subs => subs'[c[1]][c[2]] = "there"
    BY <1>1, <1>3 DEF Typed, Browser
  <1> QED BY <1>1, <1>2, <1>4 DEF Documents, Typed, Browser, Navs

LEMMA BrowserDocuments ==
    ASSUME Typed, NEW p \in Pages, BrowserStep(p)
    PROVE  Documents' /\ UNCHANGED inbox
  <1>1. UNCHANGED isBiDi
    BY DEF BrowserStep, bridge
  <1>2. CASE PageNavigates(p)
    BY <1>1, <1>2 DEF PageNavigates, Documents, Typed, Browser, Navs
  <1>3. CASE ClosesItself(p)
    BY <1>1, <1>3, GoesDocuments DEF ClosesItself
  <1>4. CASE Opens(p)
    BY <1>1, <1>4, OpensDocuments DEF Opens
  <1>5. CASE Commits(p)
    BY <1>1, <1>5, CommitsDocuments DEF Commits
  <1>6. ASSUME NEW s \in Subs, SubFrameAppears(p, s) \/ SubFrameNavigates(p, s) \/ SubFrameGoes(p, s)
        PROVE  Documents' /\ UNCHANGED inbox
    BY <1>1, <1>6, FramesDocuments DEF SubFrameAppears, SubFrameNavigates, SubFrameGoes
  <1>7. CASE NavigationStarts(p)
    <2>1. Documents
      BY DEF Documents, Typed, Browser
    <2>2. /\ page[p] = "live" /\ navs' \in [Pages -> Navs]
          /\ UNCHANGED <<page, mainFrame, subs, docs, live, newest, inbox>>
      BY <1>7, StartFacts
    <2> QED BY <1>1, <2>1, <2>2 DEF Documents
  <1> QED BY <1>2, <1>3, <1>4, <1>5, <1>6, <1>7 DEF BrowserStep

LEMMA TypedBrowser ==
    ASSUME Typed, Owners, NEW p \in Pages, BrowserStep(p)
    PROVE  Typed' /\ Owners'
  <1>1. UNCHANGED <<bridge, pc, h, ev, enabling, named, reEmitted>>
    BY DEF BrowserStep
  <1>2. Documents' /\ UNCHANGED inbox
    BY BrowserDocuments
  <1>3. queue' \in Seq(News)
    <2>1. PICK r : queue' = queue \o r /\ r \in Seq(Of(p))
      BY BrowserWrites DEF Wrote
    <2>2. r \in Seq(News)
      BY <2>1, Kept, SeqWider
    <2> QED BY <2>1, <2>2, Joined DEF Typed, Browser
  <1>4. Browser'
    BY <1>1, <1>2, <1>3 DEF Documents, Browser, Typed, bridge
  <1>5. Caches' /\ Goroutines' /\ InHand'
    BY <1>1, <1>2 DEF Typed, Caches, Goroutines, InHand, bridge
  <1>6. Owners'
    BY <1>1, <1>2 DEF Owners, bridge
  <1> QED BY <1>4, <1>5, <1>6 DEF Typed

LEMMA TypedServe ==
    ASSUME Typed, Owners, NEW t \in Threads, BrowserServes(t)
    PROVE  Typed' /\ Owners'
  <1>1. /\ t \in Callers /\ t # Reader /\ t[2] \in Pages /\ inbox' = [inbox EXCEPT ![t] = NoEvent]
        /\ UNCHANGED <<bridge, pc, h, ev, enabling, named, reEmitted>>
    BY Serves, ThreadFacts
  <1>2. Documents'
    <2>1. UNCHANGED isBiDi
      BY <1>1 DEF bridge
    <2>2. CASE page[t[2]] = "live" /\ Goes(t[2])
      BY <1>1, <2>1, <2>2, GoesDocuments
    <2>3. CASE UNCHANGED <<page, mainFrame, subs, docs, live, newest>> /\ navs' \in [Pages -> Navs]
      BY <2>1, <2>3 DEF Documents, Typed, Browser
    <2> QED BY <2>2, <2>3, Serves
  <1>3. queue' \in Seq(News)
    <2>1. PICK r : queue' = queue \o r /\ r \in Seq(Parting(t[2]) \cup Answers(t))
      BY Serves DEF Served
    <2>2. Parting(t[2]) \cup Answers(t) \subseteq News
      BY <1>1, Kept, PartingFacts DEF Answers, News
    <2>3. r \in Seq(News)
      BY <2>1, <2>2, SeqWider
    <2> QED BY <2>1, <2>3, Joined DEF Typed, Browser
  <1>4. Browser'
    BY <1>1, <1>2, <1>3 DEF Documents, Browser, Typed, bridge
  <1>5. /\ inbox' \in [Threads -> {NoEvent} \cup CallRec] /\ inbox'[Reader] = NoEvent
        /\ \A u \in Threads : inbox'[u] \in {inbox[u], NoEvent}
    BY <1>1 DEF Typed, Goroutines
  <1>6. Caches' /\ Goroutines' /\ InHand'
    BY <1>1, <1>5 DEF Typed, Caches, Goroutines, InHand, bridge
  <1>7. Owners'
    <2>1. \A q \in Pages : Handler(q) \in Threads
      BY ThreadFacts
    <2> QED BY <1>1, <1>5, <2>1 DEF Owners, bridge
  <1> QED BY <1>4, <1>6, <1>7 DEF Typed

LEMMA TypedInit == Init => Typed /\ Owners
  <1> SUFFICES ASSUME Init PROVE Typed /\ Owners
    OBVIOUS
  <1>1. DOMAIN ctxMap = {} /\ DOMAIN ctxUniqueOwners = {} /\ ctxCounter = 0
    BY DEF Init
  <1>2. Caches
    BY <1>1, CommandFacts DEF Init, Caches, AnyFrame
  <1>3. Goroutines
    BY CommandFacts, ThreadFacts DEF Init, Goroutines, HandlerPCs, CloserPCs, ReaderPCs, Cleans, NoEvent
  <1>4. InHand
    BY ThreadFacts, IdleFacts DEF Init, InHand, Cleans, Learns
  <1>5. Browser
    <2>1. MaxDocs \in Nat /\ FirstMain \in Mains
      BY ContextsAssumption
    <2>2. IsFiniteSet({})
      BY FS_EmptySet
    <2>3. scenario \in Scenarios /\ isBiDi \in BOOLEAN
      <3>1. \A b : (b = "bidi") \in BOOLEAN
        OBVIOUS
      <3> QED BY <3>1 DEF Init
    <2>4. /\ page \in [Pages -> {"new", "live", "gone"}] /\ mainFrame \in [Pages -> Mains]
          /\ subs \in [Pages -> [Subs -> {"none", "there", "left"}]] /\ docs \in [Pages -> 0 .. MaxDocs]
          /\ \A p \in Pages : page[p] = "new" /\ docs[p] = 0 /\ \A s \in Subs : subs[p][s] # "there"
      BY <2>1 DEF Init
    <2>5. navs \in [Pages -> Navs] /\ newest \in [Pages -> AnyCtx] /\ live = {} /\ queue = <<>>
      BY CommandFacts DEF Init, Navs
    <2>6. queue \in Seq(News)
      BY <2>5
    <2> QED BY <2>2, <2>3, <2>4, <2>5, <2>6 DEF Browser
  <1>6. Owners
    BY <1>1, CommandFacts, ThreadFacts DEF Init, Owners
  <1> QED BY <1>2, <1>3, <1>4, <1>5, <1>6 DEF Typed

LEMMA TypedNext == Typed /\ Owners /\ [Next]_vars => Typed' /\ Owners'
  <1> SUFFICES ASSUME Typed, Owners, [Next]_vars PROVE Typed' /\ Owners'
    OBVIOUS
  <1>1. CASE ReaderStep
    BY <1>1, TypedReader
  <1>2. ASSUME NEW p \in Pages, HandlerStep(p) PROVE Typed' /\ Owners'
    <2>1. Handler(p) \in Threads
      BY ThreadFacts
    <2> QED BY <1>2, <2>1, Commands, TypedCommand, TypedCleanup
  <1>3. ASSUME NEW p \in Pages, EnableStores(p) PROVE Typed' /\ Owners'
    BY <1>3, TypedEnables
  <1>4. ASSUME NEW p \in Pages, BrowserStep(p) PROVE Typed' /\ Owners'
    BY <1>4, TypedBrowser
  <1>5. ASSUME NEW p \in Pages, CleanupStep(Closer(p)) PROVE Typed' /\ Owners'
    <2>1. Closer(p) \in Threads
      BY ThreadFacts
    <2> QED BY <1>5, <2>1, TypedCleanup
  <1>6. ASSUME NEW t \in Threads, BrowserServes(t) PROVE Typed' /\ Owners'
    BY <1>6, TypedServe
  <1>7. CASE UNCHANGED vars
    <2>1. UNCHANGED <<bridge, pc, h, ev, enabling, browser, inbox, queue, named, reEmitted>>
      BY <1>7 DEF vars
    <2>2. Caches' /\ Goroutines'
      BY <2>1 DEF Typed, Caches, Goroutines, bridge
    <2>3. InHand' /\ Browser' /\ Owners'
      BY <2>1 DEF Typed, InHand, Browser, Owners, bridge, browser
    <2> QED BY <2>2, <2>3 DEF Typed
  <1> QED BY <1>1, <1>2, <1>3, <1>4, <1>5, <1>6, <1>7 DEF Next

LEMMA AlwaysTyped == Spec => [](Typed /\ Owners)
  <1>1. Init => Typed /\ Owners
    BY TypedInit
  <1>2. Typed /\ Owners /\ [Next]_vars => (Typed /\ Owners)'
    BY TypedNext
  <1> QED BY <1>1, <1>2, PTL DEF Spec

------------------------------------------------------------------------------
(* Calls and answers.                                                       *)

\* What a step of a cleanup leaves alone.
LEMMA CleanupMoves ==
    ASSUME Typed, NEW t \in Threads, CleanupStep(t)
    PROVE  /\ pc[t] \in Cleans \cup {"idle"} /\ UNCHANGED <<queue, browser, isBiDi>>
           /\ \A u \in Threads : u # t => pc'[u] = pc[u] /\ inbox'[u] = inbox[u]
           /\ UNCHANGED inbox \/ pc'[t] = "wait"
           /\ pc'[t] \in Cleans \cup {"idle", "wait"}
  <1>1. CASE Closes(t)
    <2>1. pc[t] = "idle" /\ Goto(t, "begin") /\ UNCHANGED <<Local, inbox>>
      BY <1>1 DEF Closes
    <2> QED BY <2>1, GotoFacts DEF Local, bridge, HandlerPCs, Cleans
  <1>2. CASE BeginCleanup(t)
    <2>1. /\ pc[t] = "begin" /\ UNCHANGED <<queue, browser, isBiDi>>
          /\ \/ Goto(t, "idle") /\ UNCHANGED inbox
             \/ Goto(t, "clear") /\ UNCHANGED inbox
             \/ Goto(t, "wait") /\ inbox' = [inbox EXCEPT ![t] = Call("close", NoFrame, NoCtx)]
      BY <1>2 DEF BeginCleanup, Forgets
    <2> QED BY <2>1, GotoFacts DEF HandlerPCs, Cleans, Typed, Goroutines
  <1>3. CASE (ClearState(t) \/ RemoveSession(t)) /\ UNCHANGED <<isBiDi, browser, inbox, queue>>
    <2>1. pc[t] \in Cleans /\ (Goto(t, "remove") \/ Goto(t, "idle"))
      BY <1>3 DEF ClearState, RemoveSession, Forgets, Cleans
    <2> QED BY <1>3, <2>1, GotoFacts DEF HandlerPCs, Cleans
  <1> QED BY <1>1, <1>2, <1>3 DEF CleanupStep

\* Steps of the read loop, other than a cleanup's: it takes a write, or has one in hand.
Takes == pc[Reader] = "idle" /\ queue # <<>> /\ queue' = Tail(queue)

LEMMA ReaderMoves ==
    ASSUME Typed, ReaderStep
    PROVE  \/ TakeReply /\ Takes
           \/ CleanupStep(Reader)
           \/ /\ UNCHANGED <<isBiDi, cleaned, h, browser, inbox>>
              /\ (Takes /\ Head(queue).kind # "reply") \/ UNCHANGED queue
              /\ \A u \in Callers : pc'[u] = pc[u]
              /\ pc'[Reader] \notin {"clear", "remove"}
              /\ \/ TakeContextCreated \/ StoreContext \/ StoreLatest
                 \/ /\ UNCHANGED latestCtx
                    /\ pc[Reader] \notin {"store", "latest"} /\ pc'[Reader] \notin {"store", "latest"}
                    /\ UNCHANGED queue \/ Head(queue).kind # "created"
  <1>0. Reader \in Threads /\ Callers \subseteq Threads /\ Reader \notin Callers
    BY ThreadFacts
  <1>1. ASSUME NEW l \in ReaderPCs, Goto(Reader, l)
        PROVE  pc'[Reader] = l /\ \A u \in Callers : pc'[u] = pc[u]
    BY <1>0, <1>1, GotoFacts
  <1>2. CASE TakeReply
    BY <1>2 DEF TakeReply, Next1, Takes
  <1>3. CASE Notes
    <2>1. \E k \in FrameKinds \cup PageKinds : Head(queue).kind = k
      BY <1>3 DEF Notes, TakeAttached, TakeNavigationStarted, TakeNavigationCommitted, TakeContextsCleared,
                  TakeFrameAttached, TakeFrameDetached, Next1, FrameKinds, PageKinds
    <2>2. Head(queue).kind \notin {"reply", "created"}
      BY <2>1 DEF FrameKinds, PageKinds
    <2> QED BY <1>3, <2>2, NotesTyped DEF Takes
  <1>4. CASE TakeDetached \/ TakeContextDestroyed
    <2>1. \E l \in {"begin", "drop"} : Goto(Reader, l)
      BY <1>4 DEF TakeDetached, TakeContextDestroyed
    <2>2. /\ pc'[Reader] \notin {"clear", "remove", "store", "latest"} /\ \A u \in Callers : pc'[u] = pc[u]
      BY <1>1, <2>1 DEF ReaderPCs
    <2> QED BY <1>4, <2>2 DEF TakeDetached, TakeContextDestroyed, Next1, Takes, bridge
  <1>5. CASE TakeContextCreated
    <2>1. Goto(Reader, "store")
      BY <1>5 DEF TakeContextCreated
    <2> QED BY <1>1, <1>5, <2>1 DEF TakeContextCreated, Next1, Takes, ReaderPCs
  <1>6. CASE /\ StoreContext \/ StoreLatest \/ StoreUnique \/ ReadIsolatedWorlds \/ AnnounceWorld
                \/ WorldsAnnounced \/ DropContext
             /\ UNCHANGED <<isBiDi, cleaned, h, browser, inbox>>
    <2>1. UNCHANGED queue
      BY <1>6 DEF StoreContext, StoreLatest, StoreUnique, ReadIsolatedWorlds, AnnounceWorld, WorldsAnnounced, DropContext
    <2>2. CASE StoreContext \/ StoreLatest
      <3>1. \E l \in {"latest", "unique"} : Goto(Reader, l)
        BY <2>2 DEF StoreContext, StoreLatest
      <3>2. pc'[Reader] \in {"latest", "unique"} /\ \A u \in Callers : pc'[u] = pc[u]
        BY <1>1, <3>1 DEF ReaderPCs
      <3> QED BY <1>6, <2>1, <2>2, <3>2
    <2>3. CASE StoreUnique \/ ReadIsolatedWorlds \/ AnnounceWorld \/ WorldsAnnounced \/ DropContext
      <3>1. UNCHANGED latestCtx /\ pc[Reader] \in {"unique", "isolated", "worlds", "drop"}
        BY <2>3 DEF StoreUnique, ReadIsolatedWorlds, AnnounceWorld, WorldsAnnounced, DropContext
      <3>2. (UNCHANGED pc /\ pc[Reader] = "worlds") \/ \E l \in {"idle", "isolated", "worlds"} : Goto(Reader, l)
        BY <2>3 DEF StoreUnique, ReadIsolatedWorlds, AnnounceWorld, WorldsAnnounced, DropContext
      <3>3. pc'[Reader] \in {"idle", "isolated", "worlds"} /\ \A u \in Callers : pc'[u] = pc[u]
        BY <1>1, <3>2 DEF ReaderPCs
      <3> QED BY <1>6, <2>1, <3>1, <3>3
    <2> QED BY <1>6, <2>2, <2>3
  <1> QED BY <1>2, <1>3, <1>4, <1>5, <1>6 DEF ReaderStep, Notes

\* What is written and read for a thread that neither calls nor is answered.
LEMMA CallsWritten ==
    ASSUME Typed, Calls, NEW t \in Callers, NEW r, queue' = queue \o r, r \in Seq(News), ~Has(r, Answers(t))
    PROVE  Once(queue', Answers(t)) /\ (Has(queue', Answers(t)) <=> Has(queue, Answers(t)))
  <1>1. queue \in Seq(News) /\ Once(queue, Answers(t)) /\ Once(r, Answers(t))
    BY DEF Typed, Browser, Calls, Once, Has
  <1> QED BY <1>1, OnceJoined, HasJoined

LEMMA CallsTaken ==
    ASSUME Typed, Calls, NEW t \in Callers, Takes
    PROVE  /\ Once(queue', Answers(t)) /\ (Has(queue', Answers(t)) => Has(queue, Answers(t)))
           /\ Head(queue) \in Answers(t) => Has(queue, Answers(t)) /\ ~Has(queue', Answers(t))
  <1>1. queue \in Seq(News) /\ Once(queue, Answers(t))
    BY DEF Typed, Browser, Calls
  <1> QED BY <1>1, OnceRest, HasRest DEF Takes

CallOf(t) ==
    /\ Once(queue, Answers(t)) /\ (Has(queue, Answers(t)) => pc[t] = "wait")
    /\ inbox[t] # NoEvent => pc[t] = "wait" /\ ~Has(queue, Answers(t))

LEMMA CallsKept == Typed /\ Owners /\ Calls /\ [Next]_vars => Calls'
  <1> SUFFICES ASSUME Typed, Owners, Calls, [Next]_vars, NEW t \in Callers PROVE CallOf(t)'
    BY DEF Calls, CallOf
  <1>0. CallOf(t) /\ t \in Threads
    BY ThreadFacts DEF Calls, CallOf
  <1>1. ASSUME UNCHANGED <<queue, pc, inbox>> PROVE CallOf(t)'
    BY <1>0, <1>1 DEF CallOf
  <1>2. ASSUME NEW u \in Threads, CleanupStep(u) PROVE CallOf(t)'
    <2>1. /\ pc[u] \in Cleans \cup {"idle"} /\ UNCHANGED queue
          /\ \A v \in Threads : v # u => pc'[v] = pc[v] /\ inbox'[v] = inbox[v]
          /\ UNCHANGED inbox \/ pc'[u] = "wait"
      BY <1>2, CleanupMoves
    <2>2. "wait" \notin Cleans \cup {"idle"}
      BY DEF Cleans
    <2> QED BY <1>0, <2>1, <2>2 DEF CallOf
  <1>3. CASE ReaderStep
    <2>1. CASE CleanupStep(Reader)
      BY <1>2, <2>1, ThreadFacts
    <2>2. CASE TakeReply /\ Takes
      <3>1. Head(queue) \in News /\ Head(queue).kind = "reply" /\ Head(queue) \in Replies
        BY <2>2, Taken, Kinds DEF Takes, TakeReply, Next1
      <3>2. Head(queue).to \in Callers /\ Head(queue).to \in Threads
        BY <3>1, ThreadFacts DEF Replies
      <3>3. UNCHANGED inbox /\ \A u \in Threads : u # Head(queue).to => pc'[u] = pc[u]
        BY <2>2, <3>2 DEF TakeReply, Goto, Typed, Goroutines
      <3>4. CASE t = Head(queue).to
        <4>1. Head(queue) \in Answers(t)
          BY <3>1, <3>4 DEF Answers
        <4> QED BY <1>0, <2>2, <3>3, <4>1, CallsTaken DEF CallOf
      <3>5. CASE t # Head(queue).to
        BY <1>0, <2>2, <3>3, <3>5, CallsTaken DEF CallOf
      <3> QED BY <3>4, <3>5
    <2>3. CASE Takes /\ UNCHANGED inbox /\ pc'[t] = pc[t]
      BY <1>0, <2>3, CallsTaken DEF CallOf
    <2>4. CASE UNCHANGED <<queue, inbox>> /\ pc'[t] = pc[t]
      BY <1>0, <2>4 DEF CallOf
    <2> QED BY <1>3, <2>1, <2>2, <2>3, <2>4, ReaderMoves
  <1>4. ASSUME NEW p \in Pages, HandlerStep(p) PROVE CallOf(t)'
    <2>1. CASE Commanded(p)
      <3>1. /\ UNCHANGED queue /\ pc[Handler(p)] # "wait"
            /\ \E l : pc' = [pc EXCEPT ![Handler(p)] = l] /\ (inbox' = inbox \/ Asks(p, l))
        BY <2>1 DEF Commanded, Proceeds
      <3>2. PICK l : pc' = [pc EXCEPT ![Handler(p)] = l] /\ (inbox' = inbox \/ Asks(p, l))
        BY <3>1
      <3>3. CASE t = Handler(p)
        <4>1. ~Has(queue, Answers(t)) /\ inbox[t] = NoEvent
          BY <1>0, <3>1, <3>3 DEF CallOf
        <4>2. inbox' = inbox \/ pc'[t] = "wait"
          BY <1>0, <3>2, <3>3 DEF Asks, Typed, Goroutines
        <4> QED BY <1>0, <3>1, <4>1, <4>2 DEF CallOf
      <3>4. CASE t # Handler(p)
        <4>1. pc'[t] = pc[t] /\ inbox'[t] = inbox[t]
          BY <1>0, <3>2, <3>4 DEF Asks, Typed, Goroutines
        <4> QED BY <1>0, <3>1, <4>1 DEF CallOf
      <3> QED BY <3>3, <3>4
    <2> QED BY <1>2, <1>4, <2>1, Commands, ThreadFacts
  <1>5. ASSUME NEW p \in Pages, BrowserStep(p) PROVE CallOf(t)'
    <2>1. UNCHANGED <<pc, inbox>>
      BY <1>5, BrowserDocuments DEF BrowserStep
    <2>2. PICK r : queue' = queue \o r /\ r \in Seq(Of(p))
      BY <1>5, BrowserWrites DEF Wrote
    <2>3. r \in Seq(News) /\ ~Has(r, Answers(t))
      BY <2>2, Kept, HasNone, SeqWider
    <2> QED BY <1>0, <2>1, <2>2, <2>3, CallsWritten DEF CallOf
  <1>6. ASSUME NEW u \in Threads, BrowserServes(u) PROVE CallOf(t)'
    <2>1. /\ u \in Callers /\ u[2] \in Pages /\ inbox[u] # NoEvent /\ inbox' = [inbox EXCEPT ![u] = NoEvent]
          /\ UNCHANGED pc
      BY <1>6, Serves, ThreadFacts
    <2>2. PICK r : Served(u, r)
      BY <1>6, Serves
    <2>3. /\ Parting(u[2]) \cup Answers(u) \subseteq News
          /\ \A v \in Callers : v # u => (Parting(u[2]) \cup Answers(u)) \cap Answers(v) = {}
      BY <2>1, Kept, PartingFacts DEF Answers, News
    <2>4. r \in Seq(News) /\ queue \in Seq(News)
      BY <2>2, <2>3, SeqWider DEF Served, Typed, Browser
    <2>5. CASE t = u
      <3>1. ~Has(queue, Answers(t)) /\ pc[t] = "wait" /\ Once(queue, Answers(t)) /\ Once(r, Answers(t))
        BY <1>0, <2>1, <2>2, <2>5 DEF CallOf, Served
      <3>2. Once(queue', Answers(t))
        BY <2>2, <2>4, <3>1, OnceJoined DEF Served
      <3> QED BY <1>0, <2>1, <2>5, <3>1, <3>2 DEF CallOf, Typed, Goroutines
    <2>6. CASE t # u
      <3>1. ~Has(r, Answers(t))
        BY <2>2, <2>3, <2>6, HasNone DEF Served
      <3>2. inbox'[t] = inbox[t]
        BY <1>0, <2>1, <2>6 DEF Typed, Goroutines
      <3> QED BY <1>0, <2>1, <2>2, <2>4, <3>1, <3>2, CallsWritten DEF CallOf, Served
    <2> QED BY <2>5, <2>6
  <1> QED BY <1>1, <1>2, <1>3, <1>4, <1>5, <1>6, ThreadFacts DEF Next, vars, EnableStores

------------------------------------------------------------------------------
(* What clients name.                                                       *)

\* No step puts a number back that is not the context's in hand: it stores under that or a
\* new number, for a session that the context is of, or drops numbers.
NumbersOn ==
    /\ ctxCounter <= ctxCounter'
    /\ \A i \in DOMAIN ctxMap' :
          \/ i \in DOMAIN ctxMap /\ ctxMap'[i] = ctxMap[i]
          \/ i > ctxCounter
          \/ pc[Reader] = "store" /\ i = ev.id
    /\ pc'[Reader] = "store" => (pc[Reader] = "store" /\ ev'.id = ev.id) \/ ev'.id > ctxCounter

LEMMA NumbersKept ==
    ASSUME Typed, UNCHANGED <<ctxMap, ctxCounter>>, pc'[Reader] = pc[Reader], UNCHANGED ev
    PROVE  NumbersOn
  <1>1. ctxCounter \in Nat
    BY DEF Typed, Caches
  <1> QED BY <1>1 DEF NumbersOn

LEMMA NumbersGiven ==
    ASSUME Typed, NEW p \in Pages, Numbers(p), pc'[Reader] = pc[Reader], UNCHANGED ev
    PROVE  NumbersOn
  <1>1. ctxCounter \in Nat
    BY DEF Typed, Caches
  <1>2. CASE UNCHANGED ctxMap /\ ctxCounter' \in {ctxCounter, ctxCounter + 1}
    BY <1>1, <1>2 DEF NumbersOn
  <1>3. ASSUME NEW e, ctxMap' = With(ctxMap, ctxCounter + 1, e), ctxCounter' = ctxCounter + 1
        PROVE  NumbersOn
    <2>1. \A i \in DOMAIN ctxMap' : (i \in DOMAIN ctxMap /\ ctxMap'[i] = ctxMap[i]) \/ i = ctxCounter + 1
      BY <1>3 DEF With
    <2>2. \A i : i = ctxCounter + 1 => i > ctxCounter
      BY <1>1
    <2> QED BY <1>1, <1>3, <2>1, <2>2 DEF NumbersOn
  <1> QED BY <1>2, <1>3 DEF Numbers

LEMMA NumbersCleanup ==
    ASSUME Typed, NEW t \in Threads, CleanupStep(t)
    PROVE  NumbersOn
  <1>1. ctxCounter \in Nat /\ UNCHANGED ctxCounter
    BY DEF CleanupStep, Closes, BeginCleanup, ClearState, RemoveSession, Local, bridge, contextMaps, Typed, Caches
  <1>2. \A i \in DOMAIN ctxMap' : i \in DOMAIN ctxMap /\ ctxMap'[i] = ctxMap[i]
    <2>1. UNCHANGED ctxMap \/ \E S : ctxMap' = Without(ctxMap, S)
      BY DEF CleanupStep, Closes, BeginCleanup, ClearState, RemoveSession, Local, bridge, contextMaps
    <2> QED BY <2>1 DEF Without, Restrict
  <1>3. pc'[Reader] = "store" => pc[Reader] = "store" /\ UNCHANGED ev
    <2>1. CASE t = Reader
      BY <2>1, CleanupMoves DEF Cleans
    <2>2. CASE t # Reader
      <3>1. UNCHANGED ev
        BY <2>2 DEF CleanupStep, Closes, BeginCleanup, ClearState, RemoveSession, Forgets, Local
      <3> QED BY <2>2, <3>1, CleanupMoves, ThreadFacts
    <2> QED BY <2>1, <2>2
  <1> QED BY <1>1, <1>2, <1>3 DEF NumbersOn

LEMMA NumbersRead ==
    ASSUME Typed, ReaderStep
    PROVE  NumbersOn
  <1>0. ctxCounter \in Nat /\ \A i : i = ctxCounter + 1 => i > ctxCounter
    BY DEF Typed, Caches
  <1>1. ASSUME NEW l \in ReaderPCs, Goto(Reader, l) PROVE pc'[Reader] = l
    BY <1>1, GotoFacts, ThreadFacts
  <1>2. CASE CleanupStep(Reader)
    BY <1>2, NumbersCleanup, ThreadFacts
  <1>3. CASE TakeReply
    <2>1. Head(queue) \in Replies
      BY <1>3, Taken, Kinds DEF TakeReply, Next1
    <2>2. Head(queue).to # Reader /\ Reader \in Threads
      BY <2>1, ThreadFacts DEF Replies
    <2>3. pc'[Reader] = pc[Reader] /\ UNCHANGED <<ctxMap, ctxCounter, ev>>
      BY <1>3, <2>2 DEF TakeReply, Goto, bridge, Typed, Goroutines
    <2> QED BY <2>3, NumbersKept
  <1>4. CASE Notes
    <2>1. /\ UNCHANGED ctxMap \/ \E S : ctxMap' = Without(ctxMap, S)
          /\ pc[Reader] = "idle" /\ UNCHANGED <<pc, ctxCounter>>
      BY <1>4, NotesTyped
    <2>2. \A i \in DOMAIN ctxMap' : i \in DOMAIN ctxMap /\ ctxMap'[i] = ctxMap[i]
      BY <2>1 DEF Without, Restrict
    <2> QED BY <1>0, <2>1, <2>2 DEF NumbersOn
  <1>5. CASE TakeDetached \/ TakeContextDestroyed
    <2>1. (\E l \in {"begin", "drop"} : Goto(Reader, l)) /\ UNCHANGED <<ctxMap, ctxCounter>>
      BY <1>5 DEF TakeDetached, TakeContextDestroyed, bridge
    <2>2. pc'[Reader] # "store"
      BY <1>1, <2>1 DEF ReaderPCs
    <2> QED BY <1>0, <2>1, <2>2 DEF NumbersOn
  <1>6. CASE TakeContextCreated
    <2>1. ctxCounter' = ctxCounter + 1 /\ UNCHANGED ctxMap /\ ev'.id = ctxCounter + 1
      BY <1>6 DEF TakeContextCreated, NextCtxID
    <2> QED BY <1>0, <2>1 DEF NumbersOn
  <1>7. CASE StoreContext
    <2>1. /\ pc[Reader] = "store" /\ Goto(Reader, "latest") /\ UNCHANGED ctxCounter
          /\ \E e : ctxMap' = With(ctxMap, ev.id, e)
      BY <1>7 DEF StoreContext
    <2>2. pc'[Reader] = "latest"
      BY <1>1, <2>1 DEF ReaderPCs
    <2>3. \A i \in DOMAIN ctxMap' : (i \in DOMAIN ctxMap /\ ctxMap'[i] = ctxMap[i]) \/ i = ev.id
      BY <2>1 DEF With
    <2> QED BY <1>0, <2>1, <2>2, <2>3 DEF NumbersOn
  <1>8. CASE StoreLatest \/ StoreUnique \/ ReadIsolatedWorlds \/ WorldsAnnounced \/ DropContext
    <2>1. /\ ctxCounter' = ctxCounter
          /\ ctxMap' = ctxMap \/ \E S : ctxMap' = Without(ctxMap, S)
          /\ \E l \in {"idle", "unique", "isolated", "worlds"} : Goto(Reader, l)
      <3>1. CASE StoreLatest
        BY <3>1 DEF StoreLatest
      <3>2. CASE StoreUnique
        BY <3>2 DEF StoreUnique
      <3>3. CASE ReadIsolatedWorlds
        BY <3>3 DEF ReadIsolatedWorlds, contextMaps
      <3>4. CASE WorldsAnnounced \/ DropContext
        BY <3>4 DEF WorldsAnnounced, DropContext
      <3> QED BY <1>8, <3>1, <3>2, <3>3, <3>4
    <2>2. pc'[Reader] # "store"
      BY <1>1, <2>1 DEF ReaderPCs
    <2>3. \A i \in DOMAIN ctxMap' : i \in DOMAIN ctxMap /\ ctxMap'[i] = ctxMap[i]
      BY <2>1 DEF Without, Restrict
    <2>4. ctxCounter <= ctxCounter'
      BY <1>0, <2>1
    <2> QED BY <2>2, <2>3, <2>4 DEF NumbersOn
  <1>9. CASE AnnounceWorld
    <2>1. /\ pc[Reader] = "worlds" /\ UNCHANGED pc /\ ctxCounter' = ctxCounter + 1
          /\ \E e : ctxMap' = With(ctxMap, ctxCounter + 1, e)
      BY <1>9 DEF AnnounceWorld, NextCtxID
    <2>2. \A i \in DOMAIN ctxMap' : (i \in DOMAIN ctxMap /\ ctxMap'[i] = ctxMap[i]) \/ i = ctxCounter + 1
      BY <2>1 DEF With
    <2> QED BY <1>0, <2>1, <2>2 DEF NumbersOn
  <1> QED BY <1>2, <1>3, <1>4, <1>5, <1>6, <1>7, <1>8, <1>9 DEF ReaderStep, Notes

\* A thread that names no context now leaves what its call names alone.
LEMMA AskedStays ==
    ASSUME Typed, ctxCounter' \in Nat, NEW p \in Pages, Asked(p), NumbersOn,
           inbox'[Handler(p)] \in {inbox[Handler(p)], NoEvent},
           \/ pc'[Handler(p)] = pc[Handler(p)] /\ h'[p] = h[p]
           \/ pc'[Handler(p)] \notin {"lookup", "choose"} /\ inbox'[Handler(p)] = NoEvent
    PROVE  Asked(p)'
  <1>1. CASE pc'[Handler(p)] \notin {"lookup", "choose"} /\ inbox'[Handler(p)] = NoEvent
    BY <1>1 DEF Asked
  <1>2. CASE pc'[Handler(p)] = pc[Handler(p)] /\ h'[p] = h[p]
    <2>1. ASSUME Sought(p) PROVE Sought(p)'
      <3>1. h[p].number \in Nat /\ ctxCounter \in Nat
        BY DEF Typed, Caches, Goroutines, Command
      <3>2. h[p].number <= ctxCounter /\ ctxCounter <= ctxCounter'
        BY <2>1 DEF Sought, NumbersOn
      <3>3. h[p].number \in DOMAIN ctxMap' => h[p].number \in DOMAIN ctxMap /\ ctxMap'[h[p].number] = ctxMap[h[p].number]
        BY <2>1, <3>1, <3>2 DEF Sought, NumbersOn
      <3>4. pc'[Reader] = "store" => h[p].number # ev'.id
        BY <2>1, <3>1, <3>2 DEF Sought, NumbersOn
      <3>5. h'[p].number = h[p].number /\ h'[p].number <= ctxCounter'
        BY <1>2, <3>1, <3>2
      <3>6. h'[p].number \in DOMAIN ctxMap' => ctxMap'[h'[p].number].owner = p
        BY <2>1, <3>3, <3>5 DEF Sought
      <3>7. pc'[Reader] = "store" => h'[p].number # ev'.id
        BY <3>4, <3>5
      <3> QED BY <3>5, <3>6, <3>7 DEF Sought
    <2> QED BY <1>2, <2>1 DEF Asked
  <1> QED BY <1>1, <1>2

\* Commands that name no context.
LEMMA Nameless ==
    ASSUME Typed, Owners, NEW p \in Pages,
           Frameless(p) \/ Loads(p) \/ Others(p) \/ WriteContent(p) \/ GetLayoutMetrics(p)
    PROVE  /\ pc'[Handler(p)] \notin {"lookup", "choose"}
           /\ \/ UNCHANGED inbox
              \/ \E call : call.ctx = NoCtx /\ inbox' = [inbox EXCEPT ![Handler(p)] = call]
  <1>1. ASSUME NEW l \in HandlerPCs \ {"lookup", "choose"}, Goto(Handler(p), l)
        PROVE  pc'[Handler(p)] \notin {"lookup", "choose"}
    BY <1>1, GotoFacts, ThreadFacts
  <1>2. ASSUME NEW k, NEW l \in HandlerPCs \ {"lookup", "choose"}, Then(p, k, l)
        PROVE  pc'[Handler(p)] \notin {"lookup", "choose"}
    BY <1>1, <1>2 DEF Then
  <1>3. ASSUME NEW kind, NEW frame, Send(p, Call(kind, frame, NoCtx))
        PROVE  /\ pc'[Handler(p)] \notin {"lookup", "choose"}
               /\ \E call : call.ctx = NoCtx /\ inbox' = [inbox EXCEPT ![Handler(p)] = call]
    <2>1. Goto(Handler(p), "wait")
      BY <1>3 DEF Send
    <2>2. pc'[Handler(p)] \notin {"lookup", "choose"}
      BY <1>1, <2>1 DEF HandlerPCs
    <2>3. Call(kind, frame, NoCtx).ctx = NoCtx /\ inbox' = [inbox EXCEPT ![Handler(p)] = Call(kind, frame, NoCtx)]
      BY <1>3 DEF Send, Call
    <2> QED BY <2>2, <2>3
  <1>4. CASE Frameless(p)
    <2>1. CASE CallNavigate(p)
      BY <1>3, <2>1 DEF CallNavigate, ThenSend
    <2>2. CASE Navigate(p) \/ WaitForMainFrame(p) \/ AwaitRollover(p) \/ RolloverTimesOut(p)
      <3>1. UNCHANGED inbox
        BY <2>2 DEF Navigate, WaitForMainFrame, AwaitRollover, RolloverTimesOut
      <3>2. \E l \in {"prior", "mainFrame", "idle"} : Goto(Handler(p), l)
        BY <2>2 DEF Navigate, WaitForMainFrame, AwaitRollover, RolloverTimesOut, Done, Then
      <3> QED BY <1>1, <3>1, <3>2 DEF HandlerPCs
    <2> QED BY <1>4, <2>1, <2>2 DEF Frameless
  <1>5. CASE Loads(p)
    <2>1. CASE Reload(p) \/ SetContent(p) \/ ProbeForFrame(p)
      <3>1. \E kind, frame : Send(p, Call(kind, frame, NoCtx))
        BY <2>1 DEF Reload, SetContent, ProbeForFrame, ThenSend
      <3> QED BY <1>3, <3>1
    <2>2. CASE GetFrameTree(p) \/ PollFrame(p) \/ ReadFrameAgain(p)
      <3>1. UNCHANGED inbox
        BY <2>2 DEF GetFrameTree, PollFrame, ReadFrameAgain
      <3>2. \E l \in {"name", "frame"} : Goto(Handler(p), l)
        BY <2>2 DEF GetFrameTree, PollFrame, ReadFrameAgain, Then
      <3> QED BY <1>1, <3>1, <3>2 DEF HandlerPCs
    <2> QED BY <1>5, <2>1, <2>2 DEF Loads
  <1>6. CASE Others(p)
    <2>1. CASE EnableRuntime(p)
      BY <2>1 DEF EnableRuntime, Begin
    <2>2. CASE NameFrame(p) \/ CreateIsolatedWorld(p) \/ RecordIsolatedWorld(p)
      <3>1. UNCHANGED inbox
        BY <2>2 DEF NameFrame, CreateIsolatedWorld, RecordIsolatedWorld
      <3>2. \E l \in {"record", "idle"} : Goto(Handler(p), l)
        BY <2>2 DEF NameFrame, CreateIsolatedWorld, RecordIsolatedWorld, Done, Then
      <3> QED BY <1>1, <3>1, <3>2 DEF HandlerPCs
    <2> QED BY <1>6, <2>1, <2>2 DEF Others
  <1>7. CASE WriteContent(p) \/ GetLayoutMetrics(p)
    BY <1>3, <1>7 DEF WriteContent, GetLayoutMetrics, ThenSend
  <1> QED BY <1>4, <1>5, <1>6, <1>7

\* The client's own thread.
LEMMA AskedCommand ==
    ASSUME Typed, Owners, Calls, NEW p \in Pages, Asked(p), HandlerStep(p)
    PROVE  Asked(p)'
  <1> DEFINE t == Handler(p)
  <1>0. /\ t \in Callers /\ t \in Threads /\ h[p] \in Command /\ Own(p, Latest(p)) /\ Own(p, NoCtx)
        /\ inbox \in [Threads -> {NoEvent} \cup CallRec] /\ h \in [Pages -> Command]
        /\ pc[t] # "wait" => inbox[t] = NoEvent
    BY ThreadFacts, ReadFacts, CommandFacts DEF Typed, Goroutines, Calls
  <1>1. ASSUME NEW l \in HandlerPCs, Goto(t, l) PROVE pc'[t] = l
    BY <1>1, <1>0, GotoFacts
  <1>2. ASSUME pc'[t] \notin {"lookup", "choose"}, inbox'[t] # NoEvent => Own(p, inbox'[t].ctx)
        PROVE  Asked(p)'
    BY <1>2 DEF Asked
  <1>3. CASE CleanupStep(t)
    <2>1. pc[t] # "wait" /\ pc'[t] \notin {"lookup", "choose"}
      BY <1>0, <1>3, CleanupMoves DEF Cleans
    <2>2. UNCHANGED inbox \/ inbox' = [inbox EXCEPT ![t] = Call("close", NoFrame, NoCtx)]
      BY <1>3 DEF CleanupStep, Closes, BeginCleanup, ClearState, RemoveSession
    <2>3. Call("close", NoFrame, NoCtx).ctx = NoCtx
      BY DEF Call
    <2> QED BY <1>0, <1>2, <2>1, <2>2, <2>3
  <1>4. CASE Frameless(p) \/ Loads(p) \/ Others(p) \/ WriteContent(p) \/ GetLayoutMetrics(p)
    <2>1. pc[t] # "wait"
      BY <1>4, FramelessMoves, EvaluatesMoves, LoadsMoves, OthersMove DEF Commanded, Evaluates
    <2> QED BY <1>0, <1>2, <1>4, <2>1, Nameless
  <1>5. CASE Ask(p)
    <2>1. PICK op \in {"evaluate", "call", "callWithObjects"},
               c \in {NoCtx} \cup scenario.uniqueIds, i \in 0 .. ctxCounter + 1 :
             /\ Begin(p, op) /\ (c = NoCtx \/ i = 0)
             /\ UniqueContextOwned(p, c) /\ ContextOwned(p, i)
             /\ Then(p, [Started(p, op, NoFrame, c) EXCEPT !.number = i, !.unowned = Unowned(c, i)],
                     IF i = 0 THEN "choose" ELSE "lookup")
             /\ UNCHANGED <<Local, inbox>>
      BY <1>5 DEF Ask, NextCtxID
    <2> DEFINE k == [Started(p, op, NoFrame, c) EXCEPT !.number = i, !.unowned = Unowned(c, i)]
    <2>2. k.ctx = c /\ k.number = i /\ k.unowned = Unowned(c, i)
      BY DEF Started, NoCommand
    <2>3. h'[p].ctx = c /\ h'[p].number = i /\ h'[p].unowned = Unowned(c, i)
      <3>1. h' = [h EXCEPT ![p] = k]
        BY <2>1 DEF Then
      <3>2. h'[p] = k
        BY <1>0, <3>1
      <3> QED BY <2>2, <3>2
    <2>4. pc[t] = "idle" /\ inbox'[t] = NoEvent
      BY <1>0, <2>1 DEF Begin
    <2>5. ASSUME ~Unowned(c, i) PROVE Own(p, c)
      <3>1. CASE c # NoCtx
        <4>1. c \in DOMAIN ctxUniqueOwners /\ ctxUniqueOwners[c] = p
          BY <2>1, <2>5, <3>1 DEF Unowned, UniqueContextOwned
        <4> QED BY <4>1, AbsenceAssumption DEF Owners
      <3> QED BY <1>0, <3>1
    <2>6. ASSUME ~Unowned(c, i), i # 0 PROVE Sought(p)'
      <3>1. c = NoCtx /\ i \in DOMAIN ctxMap /\ ctxMap[i].owner = p
        BY <2>1, <2>6 DEF Unowned, ContextOwned
      <3>2. UNCHANGED <<ctxMap, ctxCounter, ev>> /\ i <= ctxCounter
        BY <2>1, <3>1 DEF Local, bridge, Typed, Caches
      <3>3. pc'[Reader] = pc[Reader]
        <4>1. Goto(t, IF i = 0 THEN "choose" ELSE "lookup")
          BY <2>1 DEF Then
        <4> QED BY <1>0, <2>6, <4>1, GotoFacts, ThreadFacts DEF HandlerPCs
      <3>4. pc[Reader] = "store" => ev.id \notin DOMAIN ctxMap
        BY DEF Typed, InHand
      <3> QED BY <2>3, <3>1, <3>2, <3>3, <3>4 DEF Sought
    <2>7. i = 0 => pc'[t] # "lookup"
      <3>1. ASSUME i = 0 PROVE Goto(t, "choose")
        BY <2>1, <3>1 DEF Then
      <3> QED BY <1>1, <3>1 DEF HandlerPCs
    <2> QED BY <2>3, <2>4, <2>5, <2>6, <2>7 DEF Asked
  <1>6. CASE LookUp(p)
    <2> DEFINE i == h[p].number
               c == IF i \in DOMAIN ctxMap THEN ctxMap[i].ctx ELSE NoCtx
    <2>1. /\ pc[t] = "lookup" /\ UNCHANGED inbox
          /\ Then(p, [h[p] EXCEPT !.ctx = c, !.number = 0, !.unowned = @ /\ c # NoCtx], "choose")
      BY <1>6 DEF LookUp
    <2>2. pc'[t] = "choose"
      BY <1>1, <2>1 DEF Then, HandlerPCs
    <2>3. h'[p].ctx = c /\ h'[p].unowned = (h[p].unowned /\ c # NoCtx)
      <3>1. h'[p] = [h[p] EXCEPT !.ctx = c, !.number = 0, !.unowned = @ /\ c # NoCtx]
        BY <1>0, <2>1 DEF Then
      <3> QED BY <1>0, <3>1 DEF Command
    <2>4. ASSUME ~h[p].unowned PROVE Own(p, c)
      <3>1. i \in DOMAIN ctxMap => ctxMap[i].owner = p
        BY <2>1, <2>4 DEF Asked, Sought
      <3> QED BY <1>0, <3>1, AbsenceAssumption DEF Owners
    <2> HIDE DEF c
    <2> QED BY <1>0, <2>1, <2>2, <2>3, <2>4 DEF Asked
  <1>7. ASSUME NEW c, Evaluate(p, c), pc[t] # "wait", ~h[p].unowned \/ c = Latest(p) => Own(p, c)
        PROVE  Asked(p)'
    <2>1. /\ h' = [h EXCEPT ![p] = [h[p] EXCEPT !.ctx = c, !.unowned = @ /\ c # Latest(p)]]
          /\ inbox' = [inbox EXCEPT ![t] = Call("evaluate", NoFrame, c)]
          /\ Goto(t, "wait")
      BY <1>7 DEF Evaluate, ThenSend, Send
    <2>2. inbox'[t].ctx = c
      BY <1>0, <2>1 DEF Call
    <2>3. h'[p].unowned = (h[p].unowned /\ c # Latest(p))
      BY <1>0, <2>1 DEF Command
    <2>4. pc'[t] = "wait"
      BY <1>1, <2>1 DEF HandlerPCs
    <2> QED BY <1>7, <2>2, <2>3, <2>4 DEF Asked
  <1>8. CASE ChooseContext(p)
    <2>1. pc[t] = "choose"
      BY <1>8 DEF ChooseContext
    <2>2. ~h[p].unowned => Own(p, h[p].ctx)
      BY <2>1 DEF Asked
    <2>3. CASE Evaluate(p, Chosen(p, h[p].op, h[p].ctx))
      <3>1. Chosen(p, h[p].op, h[p].ctx) \in {h[p].ctx, Latest(p)}
        BY DEF Chosen
      <3> QED BY <1>0, <1>7, <2>1, <2>2, <2>3, <3>1
    <2>4. CASE Goto(t, "anyContext") /\ UNCHANGED inbox
      <3>1. pc'[t] = "anyContext" /\ inbox'[t] = NoEvent
        BY <1>0, <1>1, <2>1, <2>4 DEF HandlerPCs
      <3> QED BY <1>2, <3>1
    <2> QED BY <1>8, <2>3, <2>4 DEF ChooseContext
  <1>9. CASE WaitForAnyContext(p)
    <2>1. pc[t] = "anyContext"
      BY <1>9 DEF WaitForAnyContext
    <2>2. CASE Evaluate(p, Latest(p))
      BY <1>0, <1>7, <2>1, <2>2
    <2>3. CASE Done(p) /\ UNCHANGED inbox
      <3>1. pc'[t] = "idle" /\ inbox'[t] = NoEvent
        BY <1>0, <1>1, <2>1, <2>3 DEF Done, Then, HandlerPCs
      <3> QED BY <1>2, <3>1
    <2> QED BY <1>9, <2>2, <2>3 DEF WaitForAnyContext
  <1> QED BY <1>3, <1>4, <1>5, <1>6, <1>8, <1>9 DEF HandlerStep, Frameless, Loads, Others

LEMMA AskedKept == Typed /\ Owners /\ Calls /\ (\A p \in Pages : Asked(p)) /\ [Next]_vars => \A p \in Pages : Asked(p)'
  <1> SUFFICES ASSUME Typed, Owners, Calls, NEW p \in Pages, Asked(p), [Next]_vars PROVE Asked(p)'
    OBVIOUS
  <1> DEFINE t == Handler(p)
  <1>0. /\ t \in Callers /\ t \in Threads /\ t # Reader /\ ctxCounter' \in Nat
        /\ inbox \in [Threads -> {NoEvent} \cup CallRec] /\ h \in [Pages -> Command]
    <2>1. ctxCounter' \in Nat
      BY TypedNext DEF Typed, Caches
    <2> QED BY <2>1, ThreadFacts DEF Typed, Goroutines
  <1>1. CASE UNCHANGED vars
    <2>1. UNCHANGED <<ctxMap, ctxCounter, pc, ev, inbox, h>>
      BY <1>1 DEF vars, bridge
    <2> QED BY <1>0, <2>1, NumbersKept, AskedStays
  <1>2. CASE ReaderStep
    <2>1. NumbersOn
      BY <1>2, NumbersRead
    <2>2. CASE TakeReply
      <3>1. Head(queue) \in Replies /\ queue # <<>> /\ Head(queue) = queue[1] /\ 1 \in DOMAIN queue
        BY <2>2, Taken, Kinds DEF TakeReply, Next1, Typed, Browser
      <3> DEFINE u == Head(queue).to
                 l == After(u, Head(queue).ok)
      <3>2. u \in Callers /\ u \in Threads
        BY <3>1, ThreadFacts DEF Replies
      <3>3. Goto(u, l) /\ UNCHANGED inbox /\ (u[1] = "closer" \/ \E k : h' = [h EXCEPT ![u[2]] = k])
            /\ (u[1] = "closer" => UNCHANGED h)
        BY <2>2 DEF TakeReply
      <3>4. l \in {"clear", "roll", "write", "frameAgain", "idle"}
        BY DEF After
      <3> HIDE DEF l
      <3>5. CASE u = t
        <4>1. Has(queue, Answers(t))
          BY <3>1, <3>5 DEF Has, Answers
        <4>2. inbox'[t] = NoEvent
          BY <1>0, <3>3, <4>1 DEF Calls
        <4>3. pc'[t] = l
          BY <1>0, <3>3, <3>4, <3>5, GotoFacts DEF HandlerPCs
        <4> QED BY <1>0, <2>1, <3>4, <4>2, <4>3, AskedStays
      <3>6. CASE u # t
        <4>1. pc'[t] = pc[t]
          BY <1>0, <3>2, <3>3, <3>4, <3>6, GotoFacts DEF HandlerPCs
        <4>2. h'[p] = h[p]
          <5>1. CASE u[1] = "closer"
            BY <3>3, <5>1
          <5>2. CASE u[1] # "closer"
            <6>1. u[2] # p
              BY <3>2, <3>6, <5>2 DEF Callers, Handler
            <6> QED BY <1>0, <3>3, <5>2, <6>1
          <5> QED BY <5>1, <5>2
        <4> QED BY <1>0, <2>1, <3>3, <4>1, <4>2, AskedStays
      <3> QED BY <3>5, <3>6
    <2>3. CASE CleanupStep(Reader)
      <3>1. pc'[t] = pc[t] /\ inbox'[t] = inbox[t]
        BY <1>0, <2>3, CleanupMoves, ThreadFacts
      <3>2. UNCHANGED h
        BY <2>3 DEF CleanupStep, Closes, BeginCleanup, ClearState, RemoveSession, Forgets, Reader, Handler
      <3> QED BY <1>0, <2>1, <3>1, <3>2, AskedStays
    <2>4. CASE UNCHANGED <<h, inbox>> /\ pc'[t] = pc[t]
      BY <1>0, <2>1, <2>4, AskedStays
    <2> QED BY <1>0, <1>2, <2>2, <2>3, <2>4, ReaderMoves
  <1>3. ASSUME NEW q \in Pages, HandlerStep(q) PROVE Asked(p)'
    <2>1. CASE q = p
      BY <1>3, <2>1, AskedCommand
    <2>2. CASE q # p /\ Commanded(q)
      <3>1. /\ Numbers(q) /\ UNCHANGED ev
            /\ \E l, k : /\ pc' = [pc EXCEPT ![Handler(q)] = l] /\ h' = [h EXCEPT ![q] = k]
                         /\ (inbox' = inbox \/ Asks(q, l))
        BY <2>2 DEF Commanded, Proceeds
      <3>2. Handler(q) # t /\ Handler(q) # Reader
        BY <2>2, ThreadFacts DEF Handler
      <3>3. pc'[t] = pc[t] /\ pc'[Reader] = pc[Reader] /\ h'[p] = h[p] /\ inbox'[t] = inbox[t]
        BY <1>0, <2>2, <3>1, <3>2, ThreadFacts DEF Asks, Typed, Goroutines
      <3> QED BY <1>0, <3>1, <3>3, NumbersGiven, AskedStays
    <2>3. CASE q # p /\ CleanupStep(Handler(q))
      <3>1. Handler(q) # t /\ Handler(q) \in Threads
        BY <2>3, ThreadFacts DEF Handler
      <3>2. pc'[t] = pc[t] /\ inbox'[t] = inbox[t]
        BY <1>0, <2>3, <3>1, CleanupMoves
      <3>3. h'[p] = h[p]
        BY <1>0, <2>3 DEF CleanupStep, Closes, BeginCleanup, ClearState, RemoveSession, Forgets, Handler
      <3> QED BY <1>0, <2>3, <3>1, <3>2, <3>3, NumbersCleanup, AskedStays
    <2> QED BY <1>3, <2>1, <2>2, <2>3, Commands
  <1>4. ASSUME NEW q \in Pages, EnableStores(q) PROVE Asked(p)'
    <2>1. UNCHANGED <<pc, h, ev, inbox>>
      BY <1>4 DEF EnableStores
    <2>2. Numbers(q)
      <3>1. [ctx |-> enabling[q], owner |-> q, world |-> "main"] \in Entry
        BY <1>4, ReadFacts DEF EnableStores, Entry, AnyPage, AnyWorld, AnyCtx
      <3> QED BY <1>4, <3>1, ReadFacts DEF EnableStores, NextCtxID, Numbers
    <2> QED BY <1>0, <2>1, <2>2, NumbersGiven, AskedStays
  <1>5. ASSUME NEW q \in Pages, BrowserStep(q) PROVE Asked(p)'
    <2>1. UNCHANGED <<ctxMap, ctxCounter, pc, h, ev, inbox>>
      BY <1>5, BrowserDocuments DEF BrowserStep, bridge
    <2> QED BY <1>0, <2>1, NumbersKept, AskedStays
  <1>6. ASSUME NEW q \in Pages, CleanupStep(Closer(q)) PROVE Asked(p)'
    <2>1. Closer(q) # t /\ Closer(q) \in Threads
      BY ThreadFacts DEF Handler, Closer
    <2>2. pc'[t] = pc[t] /\ inbox'[t] = inbox[t]
      BY <1>0, <1>6, <2>1, CleanupMoves
    <2>3. UNCHANGED h
      BY <1>6 DEF CleanupStep, Closes, BeginCleanup, ClearState, RemoveSession, Forgets, Closer, Handler
    <2> QED BY <1>0, <1>6, <2>1, <2>2, <2>3, NumbersCleanup, AskedStays
  <1>7. ASSUME NEW u \in Threads, BrowserServes(u) PROVE Asked(p)'
    <2>1. UNCHANGED <<ctxMap, ctxCounter, pc, h, ev>> /\ inbox' = [inbox EXCEPT ![u] = NoEvent]
      BY <1>7 DEF BrowserServes, Serve, bridge
    <2>2. inbox'[t] \in {inbox[t], NoEvent}
      BY <1>0, <2>1
    <2> QED BY <1>0, <2>1, <2>2, NumbersKept, AskedStays
  <1> QED BY <1>1, <1>2, <1>3, <1>4, <1>5, <1>6, <1>7 DEF Next

------------------------------------------------------------------------------
(* Cleanups.                                                                *)

\* What is cleaned while thread t has begun a cleanup.
HasCleaned(t) ==
    /\ t = Reader /\ pc[t] \in {"clear", "remove"} => ev.event.page \in cleaned
    /\ \A p \in Pages :
          /\ t = Closer(p) /\ pc[t] \in {"wait", "clear", "remove"} => p \in cleaned
          /\ t = Handler(p) /\ pc[t] \in {"wait", "clear", "remove"} /\ h[p].op = "close" => p \in cleaned

LEMMA CleaningOfAll == Cleaning <=> \A t \in Threads : HasCleaned(t)
  BY ThreadFacts DEF Cleaning, HasCleaned

LEMMA CleaningCleanup ==
    ASSUME Typed, NEW u \in Threads, NEW t \in Threads, HasCleaned(t), CleanupStep(u)
    PROVE  HasCleaned(t)'
  <1>1. CASE t # u
    <2>1. pc'[t] = pc[t] /\ cleaned \subseteq cleaned'
      <3>1. cleaned \subseteq cleaned'
        BY DEF CleanupStep, Closes, BeginCleanup, Local, bridge
      <3> QED BY <1>1, <3>1, CleanupMoves
    <2>2. t = Reader => UNCHANGED ev
      BY <1>1 DEF CleanupStep, Closes, BeginCleanup, ClearState, RemoveSession, Forgets, Local
    <2>3. \A p \in Pages : t = Handler(p) => h'[p] = h[p]
      <3>1. UNCHANGED h \/ \E q \in Pages : \E k : u = Handler(q) /\ h' = [h EXCEPT ![q] = k]
        <4>1. CASE Closes(u)
          BY <4>1 DEF Closes
        <4>2. ASSUME Forgets(u) PROVE UNCHANGED h \/ \E q \in Pages : \E k : u = Handler(q) /\ h' = [h EXCEPT ![q] = k]
          <5>1. CASE u[1] = "handler"
            <6>1. u[2] \in Pages /\ u = Handler(u[2])
              BY <5>1, ThreadFacts
            <6> QED BY <4>2, <5>1, <6>1 DEF Forgets
          <5> QED BY <4>2, <5>1 DEF Forgets
        <4>3. CASE BeginCleanup(u)
          BY <4>2, <4>3 DEF BeginCleanup
        <4>4. CASE ClearState(u) \/ RemoveSession(u)
          BY <4>2, <4>4 DEF ClearState, RemoveSession
        <4> QED BY <4>1, <4>3, <4>4 DEF CleanupStep
      <3> QED BY <1>1, <3>1, ThreadFacts DEF Typed, Goroutines
    <2> QED BY <2>1, <2>2, <2>3 DEF HasCleaned
  <1>2. CASE t = u
    <2> DEFINE p == CleanedPage(t)
    <2>1. pc[t] \in Cleans => /\ t = Reader => p = ev.event.page
                              /\ \A q \in Pages : t = Closer(q) \/ t = Handler(q) => p = q
      BY CleanedFacts, ThreadFacts
    <2>2. CASE Closes(u)
      <3>1. pc'[t] = "begin"
        BY <1>2, <2>2, GotoFacts DEF Closes, HandlerPCs
      <3> QED BY <3>1 DEF HasCleaned
    <2>3. CASE BeginCleanup(u)
      <3>1. \/ Goto(t, "idle")
            \/ /\ cleaned' = cleaned \cup {p} /\ UNCHANGED <<h, ev>>
        BY <1>2, <2>3 DEF BeginCleanup, Forgets
      <3>2. pc[t] \in Cleans
        BY <1>2, <2>3 DEF BeginCleanup, Cleans
      <3>3. CASE Goto(t, "idle")
        <4>1. pc'[t] = "idle"
          BY <3>3, GotoFacts DEF HandlerPCs
        <4> QED BY <4>1 DEF HasCleaned
      <3>4. CASE cleaned' = cleaned \cup {p} /\ UNCHANGED <<h, ev>>
        BY <2>1, <3>2, <3>4 DEF HasCleaned
      <3> QED BY <3>1, <3>3, <3>4
    <2>4. CASE ClearState(u) /\ UNCHANGED cleaned
      <3>1. pc[t] = "clear" /\ UNCHANGED <<h, ev, cleaned>>
        BY <1>2, <2>4 DEF ClearState
      <3> QED BY <3>1 DEF HasCleaned
    <2>5. CASE RemoveSession(u)
      <3>1. pc'[t] = "idle"
        BY <1>2, <2>5, GotoFacts DEF RemoveSession, Forgets, HandlerPCs
      <3> QED BY <3>1 DEF HasCleaned
    <2> QED BY <1>2, <2>2, <2>3, <2>4, <2>5 DEF CleanupStep
  <1> QED BY <1>1, <1>2

LEMMA CleaningKept == Typed /\ Owners /\ Calls /\ Cleaning /\ [Next]_vars => Cleaning'
  <1> SUFFICES ASSUME Typed, Owners, Calls, Cleaning, [Next]_vars, NEW t \in Threads PROVE HasCleaned(t)'
    <2>1. (Cleaning <=> \A t \in Threads : HasCleaned(t))'
      BY ThreadFacts DEF Cleaning, HasCleaned
    <2> QED BY <2>1
  <1>0. HasCleaned(t) /\ \A u \in Threads : HasCleaned(u)
    BY CleaningOfAll
  <1>1. ASSUME UNCHANGED <<cleaned, pc, h, ev>> PROVE HasCleaned(t)'
    BY <1>0, <1>1 DEF HasCleaned
  <1>2. ASSUME NEW u \in Threads, CleanupStep(u) PROVE HasCleaned(t)'
    BY <1>0, <1>2, CleaningCleanup
  <1>3. CASE ReaderStep
    <2>1. CASE CleanupStep(Reader)
      BY <1>2, <2>1, ThreadFacts
    <2>2. CASE TakeReply /\ Takes
      <3> DEFINE u == Head(queue).to
                 l == After(u, Head(queue).ok)
      <3>1. Head(queue) \in News /\ Head(queue).kind = "reply" /\ Head(queue) \in Replies
        BY <2>2, Taken, Kinds DEF Takes, TakeReply, Next1
      <3>2. u \in Callers /\ u \in Threads /\ Head(queue) \in Answers(u)
        BY <3>1, ThreadFacts DEF Replies, Answers
      <3>3. pc[u] = "wait"
        BY <2>2, <3>2, CallsTaken DEF Calls
      <3>4. /\ Goto(u, l) /\ UNCHANGED <<ev, cleaned>> /\ pc[Reader] = "idle"
            /\ IF u[1] = "closer" THEN UNCHANGED h
               ELSE h' = [h EXCEPT ![u[2]] = IF l = "idle" THEN NoCommand ELSE @]
        BY <2>2 DEF TakeReply, bridge, Takes
      <3>5. l = "clear" \/ l \in {"roll", "write", "frameAgain", "idle"}
        BY DEF After
      <3>6. u[1] # "closer" /\ l = "clear" => h[u[2]].op = "close"
        BY DEF After
      <3> HIDE DEF u, l
      <3>7. pc'[u] = l /\ \A v \in Threads : v # u => pc'[v] = pc[v]
        BY <3>2, <3>4, <3>5, GotoFacts DEF HandlerPCs
      <3>8. CASE t = u
        <4>1. ASSUME NEW p \in Pages, t = Closer(p), pc'[t] \in {"wait", "clear", "remove"} PROVE p \in cleaned'
          BY <1>0, <3>3, <3>4, <3>8, <4>1 DEF HasCleaned
        <4>2. ASSUME NEW p \in Pages, t = Handler(p), pc'[t] \in {"wait", "clear", "remove"} PROVE p \in cleaned'
          <5>1. u[1] # "closer" /\ u[2] = p /\ l = "clear"
            BY <3>5, <3>7, <3>8, <4>2, ThreadFacts
          <5> QED BY <1>0, <3>3, <3>4, <3>6, <3>8, <4>2, <5>1 DEF HasCleaned
        <4> QED BY <3>2, <3>8, <4>1, <4>2, ThreadFacts DEF HasCleaned
      <3>9. CASE t # u
        <4>1. \A p \in Pages : t = Handler(p) => h'[p] = h[p]
          BY <3>2, <3>4, <3>9, ThreadFacts DEF Typed, Goroutines
        <4> QED BY <1>0, <3>4, <3>7, <3>9, <4>1 DEF HasCleaned
      <3> QED BY <3>8, <3>9
    <2>3. CASE /\ UNCHANGED <<cleaned, h>> /\ pc'[Reader] \notin {"clear", "remove"}
               /\ \A u \in Callers : pc'[u] = pc[u]
      BY <1>0, <2>3, ThreadFacts DEF HasCleaned
    <2> QED BY <1>3, <2>1, <2>2, <2>3, ReaderMoves
  <1>4. ASSUME NEW p \in Pages, HandlerStep(p) PROVE HasCleaned(t)'
    <2>1. CASE Commanded(p)
      <3>1. UNCHANGED <<cleaned, ev>>
        BY <2>1 DEF Commanded
      <3>2. PICK l, k : pc' = [pc EXCEPT ![Handler(p)] = l] /\ h' = [h EXCEPT ![p] = k] /\ k.op # "close"
        BY <2>1 DEF Commanded, Proceeds
      <3>3. \A q \in Pages : h'[q] = IF q = p THEN k ELSE h[q]
        BY <3>2 DEF Typed, Goroutines
      <3>4. \A u \in Threads : u # Handler(p) => pc'[u] = pc[u]
        BY <3>2 DEF Typed, Goroutines
      <3> QED BY <1>0, <3>1, <3>2, <3>3, <3>4, ThreadFacts DEF HasCleaned
    <2> QED BY <1>2, <1>4, <2>1, Commands, ThreadFacts
  <1>5. ASSUME NEW p \in Pages, BrowserStep(p) PROVE HasCleaned(t)'
    BY <1>1, <1>5 DEF BrowserStep, bridge
  <1>6. ASSUME NEW u \in Threads, BrowserServes(u) PROVE HasCleaned(t)'
    BY <1>1, <1>6 DEF BrowserServes, bridge
  <1> QED BY <1>1, <1>2, <1>3, <1>4, <1>5, <1>6, ThreadFacts DEF Next, vars, bridge, EnableStores

------------------------------------------------------------------------------
(* The latest context is the one made last.                                 *)

\* Writes for page p keep what of the context made last is still to be read.
LEMMA WroteMade ==
    ASSUME Typed, LastMade, NEW p \in Pages, NEW r, Wrote(p, r), NEW q \in Pages
    PROVE  /\ Follows(queue', Makes(q), MakesCtx(q, newest'[q]))
           /\ \/ Has(queue', MakesCtx(q, newest'[q]))
              \/ /\ newest'[q] = newest[q] /\ (page'[q] = "new" <=> page[q] = "new")
                 /\ Has(queue, MakesCtx(q, newest[q])) => Has(queue', MakesCtx(q, newest[q]))
  <1>1. queue \in Seq(News) /\ r \in Seq(News) /\ r \in Seq(Of(p)) /\ queue' = queue \o r
    BY Kept, SeqWider DEF Typed, Browser, Wrote
  <1>2. Follows(queue, Makes(q), MakesCtx(q, newest[q]))
    BY DEF LastMade
  <1>3. CASE q = p /\ Reports(r, p, newest'[p])
    <2>1. Follows(r, Makes(q), MakesCtx(q, newest'[q])) /\ Has(r, MakesCtx(q, newest'[q]))
      <3>1. ~Has(r, Makes(q) \ MakesCtx(q, newest'[q]))
        BY <1>3 DEF Reports
      <3>2. Follows(r, Makes(q), MakesCtx(q, newest'[q]))
        BY <1>1, <3>1 DEF Follows, Has
      <3> QED BY <1>3, <3>2 DEF Reports
    <2> QED BY <1>1, <1>2, <2>1, FollowsJoined, HasJoined
  <1>4. CASE ~Has(r, Makes(q)) /\ newest'[q] = newest[q] /\ (page'[q] = "new" <=> page[q] = "new")
    <2>1. Follows(r, Makes(q), MakesCtx(q, newest[q]))
      BY <1>4 DEF Follows, Has
    <2>2. Follows(queue \o r, Makes(q), MakesCtx(q, newest[q]))
      BY <1>1, <1>2, <2>1, FollowsJoined
    <2> QED BY <1>1, <1>4, <2>2, HasJoined
  <1>5. q # p => ~Has(r, Makes(q))
    <2>1. q # p => Of(p) \cap Makes(q) = {}
      BY Kept
    <2> QED BY <1>1, <2>1, HasNone
  <1> QED BY <1>3, <1>4, <1>5 DEF Wrote

LEMMA ServedMade ==
    ASSUME Typed, LastMade, NEW t \in Threads, BrowserServes(t), NEW q \in Pages
    PROVE  /\ Follows(queue', Makes(q), MakesCtx(q, newest[q])) /\ newest' = newest
           /\ page'[q] = "new" <=> page[q] = "new"
           /\ Has(queue, MakesCtx(q, newest[q])) => Has(queue', MakesCtx(q, newest[q]))
  <1>1. PICK r : Served(t, r)
    BY Serves
  <1>2. t \in Callers /\ t[2] \in Pages
    BY Serves, ThreadFacts
  <1>3. (Parting(t[2]) \cup Answers(t)) \cap Makes(q) = {} /\ Parting(t[2]) \cup Answers(t) \subseteq News
    <2>1. Parting(t[2]) \cap Makes(q) = {} /\ Parting(t[2]) \subseteq News
      BY <1>2, Kept, PartingFacts
    <2>2. Makes(q) \subseteq Of(q) /\ Of(q) \cap Answers(t) = {} /\ Answers(t) \subseteq News
      BY Kept DEF Makes, Answers, News
    <2> QED BY <2>1, <2>2
  <1>4. queue \in Seq(News) /\ r \in Seq(News) /\ ~Has(r, Makes(q)) /\ queue' = queue \o r
    BY <1>1, <1>3, HasNone, SeqWider DEF Typed, Browser, Served
  <1>5. Follows(r, Makes(q), MakesCtx(q, newest[q])) /\ Follows(queue, Makes(q), MakesCtx(q, newest[q]))
    BY <1>4 DEF Follows, Has, LastMade
  <1>6. Follows(queue \o r, Makes(q), MakesCtx(q, newest[q]))
    BY <1>4, <1>5, FollowsJoined
  <1>7. newest' = newest /\ (page'[q] = "new" <=> page[q] = "new")
    <2>1. CASE page[t[2]] = "live" /\ Goes(t[2])
      BY <2>1 DEF Goes, Typed, Browser
    <2> QED BY <2>1, Serves
  <1> QED BY <1>4, <1>6, <1>7, HasJoined

LEMMA TakenMade ==
    ASSUME Typed, LastMade, Takes, NEW q \in Pages
    PROVE  /\ Follows(queue', Makes(q), MakesCtx(q, newest[q]))
           /\ Has(queue, MakesCtx(q, newest[q])) /\ Head(queue) \notin MakesCtx(q, newest[q])
                 => Has(queue', MakesCtx(q, newest[q]))
           /\ Head(queue) \in Makes(q) /\ Head(queue) \notin MakesCtx(q, newest[q])
                 => Has(queue', MakesCtx(q, newest[q]))
  <1>1. queue \in Seq(News) /\ Follows(queue, Makes(q), MakesCtx(q, newest[q])) /\ queue # <<>>
        /\ queue' = Tail(queue)
    BY DEF Typed, Browser, LastMade, Takes
  <1> QED BY <1>1, FollowsRest, HasRest

LatestOf(p) ==
    /\ Follows(queue, Makes(p), MakesCtx(p, newest[p]))
    /\ p \notin cleaned /\ page[p] # "new" =>
          \/ Has(queue, MakesCtx(p, newest[p]))
          \/ Storing(p) /\ ev.event.ctx = newest[p]
          \/ ~Storing(p) /\ latestCtx[p] = newest[p]

LEMMA LatestReader ==
    ASSUME Typed, LastMade, NEW p \in Pages, LatestOf(p), ReaderStep, ~CleanupStep(Reader)
    PROVE  LatestOf(p)'
  <1>0. MakesCtx(p, newest[p]) \subseteq Makes(p) /\ \A e \in Makes(p) : e.kind = "created"
    BY DEF MakesCtx, Makes
  <1>1. CASE TakeReply /\ Takes
    <2>1. UNCHANGED <<latestCtx, cleaned, page, newest>> /\ Head(queue).kind = "reply" /\ pc[Reader] = "idle"
      BY <1>1 DEF TakeReply, bridge, browser, Next1
    <2>2. pc'[Reader] = "idle"
      <3>1. Head(queue) \in Replies
        BY <1>1, <2>1, Taken, Kinds DEF Takes
      <3>2. Head(queue).to # Reader /\ Reader \in Threads
        BY <3>1, ThreadFacts DEF Replies
      <3> QED BY <1>1, <2>1, <3>2 DEF TakeReply, Goto, Typed, Goroutines
    <2> QED BY <1>0, <1>1, <2>1, <2>2, TakenMade DEF LatestOf, Storing
  <1>2. CASE TakeContextCreated
    <2> DEFINE e == Head(queue)
    <2>1. /\ Takes /\ Goto(Reader, "store") /\ ev'.event = e /\ UNCHANGED <<cleaned, browser, latestCtx>>
          /\ e.kind = "created" /\ pc[Reader] = "idle"
      BY <1>2 DEF TakeContextCreated, Next1, Takes
    <2>2. e \in Made
      BY <2>1, Taken, Kinds DEF Takes
    <2>3. e \in Makes(e.page)
      BY <2>2, MadeFacts DEF Makes, Of, PageEvents
    <2> HIDE DEF e
    <2>4. pc'[Reader] = "store" /\ pc'[Reader] \in {"store", "latest"}
      BY <2>1, GotoFacts, ThreadFacts DEF ReaderPCs
    <2>5. CASE p = e.page
      <3>1. CASE e \in MakesCtx(p, newest[p])
        <4>1. Storing(p)' /\ ev'.event.ctx = newest'[p]
          BY <2>1, <2>4, <2>5, <3>1 DEF Storing, MakesCtx, browser
        <4> QED BY <2>1, <4>1, TakenMade DEF LatestOf, browser
      <3>2. CASE e \notin MakesCtx(p, newest[p])
        BY <2>1, <2>3, <2>5, <3>2, TakenMade DEF LatestOf, browser, e
      <3> QED BY <3>1, <3>2
    <2>6. CASE p # e.page
      <3>1. e \notin MakesCtx(p, newest[p])
        BY <2>6 DEF MakesCtx, Makes, Of
      <3>2. ~Storing(p) /\ ~Storing(p)'
        BY <2>1, <2>6 DEF Storing
      <3> QED BY <2>1, <3>1, <3>2, TakenMade DEF LatestOf, browser, e
    <2> QED BY <2>5, <2>6
  <1>3. CASE StoreContext /\ UNCHANGED <<cleaned, browser>>
    <2>1. /\ pc[Reader] = "store" /\ UNCHANGED <<queue, latestCtx, ev>> /\ Goto(Reader, "latest")
      BY <1>3 DEF StoreContext
    <2>2. pc'[Reader] = "latest"
      BY <2>1, GotoFacts, ThreadFacts DEF ReaderPCs
    <2> QED BY <1>3, <2>1, <2>2 DEF LatestOf, Storing, browser
  <1>4. CASE StoreLatest /\ UNCHANGED <<cleaned, browser>>
    <2>1. /\ pc[Reader] = "latest" /\ UNCHANGED queue
          /\ latestCtx' = [latestCtx EXCEPT ![ev.event.page] = ev.event.ctx]
          /\ Goto(Reader, "unique")
      BY <1>4 DEF StoreLatest, NowLatest
    <2>2. pc'[Reader] \notin {"store", "latest"}
      BY <2>1, GotoFacts, ThreadFacts DEF ReaderPCs
    <2>3. latestCtx'[p] = IF p = ev.event.page THEN ev.event.ctx ELSE latestCtx[p]
      BY <2>1 DEF Typed, Caches
    <2> QED BY <1>4, <2>1, <2>2, <2>3 DEF LatestOf, Storing, browser
  <1>5. CASE /\ UNCHANGED <<latestCtx, cleaned, browser>>
             /\ pc[Reader] \notin {"store", "latest"} /\ pc'[Reader] \notin {"store", "latest"}
             /\ UNCHANGED queue \/ (Takes /\ Head(queue).kind # "created")
    BY <1>0, <1>5, TakenMade DEF LatestOf, Storing, browser
  <1> QED BY <1>1, <1>2, <1>3, <1>4, <1>5, ReaderMoves

LEMMA LatestCleanup ==
    ASSUME Typed, Cleaning, NEW p \in Pages, LatestOf(p), NEW t \in Threads, CleanupStep(t)
    PROVE  LatestOf(p)'
  <1>1. UNCHANGED <<queue, page, newest>> /\ cleaned \subseteq cleaned'
    <2>1. cleaned \subseteq cleaned'
      BY DEF CleanupStep, Closes, BeginCleanup, Local, bridge
    <2> QED BY <2>1, CleanupMoves DEF browser
  <1>2. Storing(p)' = Storing(p) /\ (Storing(p) => UNCHANGED ev)
    <2>1. CASE t = Reader
      <3>1. pc[Reader] \notin {"store", "latest"} /\ pc'[Reader] \notin {"store", "latest"}
        BY <2>1, CleanupMoves DEF Cleans
      <3> QED BY <3>1 DEF Storing
    <2>2. CASE t # Reader
      <3>1. UNCHANGED ev
        BY <2>2 DEF CleanupStep, Closes, BeginCleanup, ClearState, RemoveSession, Forgets, Local
      <3>2. pc'[Reader] = pc[Reader]
        BY <2>2, CleanupMoves, ThreadFacts
      <3> QED BY <3>1, <3>2 DEF Storing
    <2> QED BY <2>1, <2>2
  <1>3. latestCtx'[p] = latestCtx[p] \/ p \in cleaned
    <2>1. CASE ClearState(t)
      <3>1. latestCtx' = [latestCtx EXCEPT ![CleanedPage(t)] = NoCtx] /\ pc[t] = "clear"
        BY <2>1 DEF ClearState
      <3>2. HasCleaned(t)
        BY CleaningOfAll
      <3>3. CleanedPage(t) \in cleaned
        <4>1. CASE t = Reader
          BY <3>1, <3>2, <4>1, CleanedFacts DEF HasCleaned, Cleans
        <4>2. CASE t # Reader
          <5>1. t[2] \in Pages /\ (t = Handler(t[2]) \/ t = Closer(t[2])) /\ CleanedPage(t) = t[2]
            BY <4>2, ThreadFacts DEF CleanedPage
          <5>2. t = Handler(t[2]) => h[t[2]].op = "close"
            BY <3>1, <5>1 DEF Typed, Goroutines, Cleans
          <5> QED BY <3>1, <3>2, <5>1, <5>2 DEF HasCleaned
        <4> QED BY <4>1, <4>2
      <3> QED BY <3>1, <3>3 DEF Typed, Caches
    <2>2. CASE ~ClearState(t)
      BY <2>2 DEF CleanupStep, Closes, BeginCleanup, RemoveSession, Local, bridge
    <2> QED BY <2>1, <2>2
  <1> QED BY <1>1, <1>2, <1>3 DEF LatestOf

LEMMA LatestKept == Typed /\ Owners /\ Cleaning /\ LastMade /\ Latests /\ [Next]_vars => LastMade' /\ Latests'
  <1> SUFFICES ASSUME Typed, Owners, Cleaning, LastMade, Latests, [Next]_vars, NEW p \in Pages PROVE LatestOf(p)'
    BY DEF LastMade, Latests, LatestOf
  <1>0. LatestOf(p)
    BY DEF LastMade, Latests, LatestOf
  <1>1. ASSUME UNCHANGED <<cleaned, latestCtx, ev, queue, newest, page>>, pc'[Reader] = pc[Reader] PROVE LatestOf(p)'
    BY <1>0, <1>1 DEF LatestOf, Storing
  <1>2. ASSUME NEW t \in Threads, CleanupStep(t) PROVE LatestOf(p)'
    BY <1>0, <1>2, LatestCleanup
  <1>3. CASE ReaderStep
    BY <1>0, <1>2, <1>3, LatestReader, ThreadFacts
  <1>4. ASSUME NEW q \in Pages, HandlerStep(q) PROVE LatestOf(p)'
    <2>1. CASE Commanded(q)
      <3>1. pc'[Reader] = pc[Reader]
        BY <2>1, ThreadFacts DEF Commanded, Proceeds, Typed, Goroutines
      <3> QED BY <1>1, <2>1, <3>1 DEF Commanded, browser
    <2> QED BY <1>2, <1>4, <2>1, Commands, ThreadFacts
  <1>5. ASSUME NEW q \in Pages, BrowserStep(q) PROVE LatestOf(p)'
    <2>1. UNCHANGED <<cleaned, latestCtx, pc, ev>>
      BY <1>5 DEF BrowserStep, bridge
    <2>2. PICK r : Wrote(q, r)
      BY <1>5, BrowserWrites
    <2> QED BY <1>0, <2>1, <2>2, WroteMade DEF LatestOf, Storing
  <1>6. ASSUME NEW t \in Threads, BrowserServes(t) PROVE LatestOf(p)'
    <2>1. UNCHANGED <<cleaned, latestCtx, pc, ev>>
      BY <1>6 DEF BrowserServes, bridge
    <2> QED BY <1>0, <1>6, <2>1, ServedMade DEF LatestOf, Storing
  <1>7. ASSUME NEW q \in Pages, EnableStores(q) PROVE LatestOf(p)'
    BY <1>1, <1>7 DEF EnableStores, browser
  <1>8. CASE UNCHANGED vars
    BY <1>1, <1>8 DEF vars, bridge, browser
  <1>9. ASSUME NEW q \in Pages, CleanupStep(Closer(q)) PROVE LatestOf(p)'
    BY <1>2, <1>9, ThreadFacts
  <1> QED BY <1>3, <1>4, <1>5, <1>6, <1>7, <1>8, <1>9 DEF Next

------------------------------------------------------------------------------
(* What ends.                                                               *)

\* A context that is dead stays so.
LEMMA DeadStays ==
    ASSUME Typed, NEW c \in AllCtx, Dead(c),
           \/ \E p \in Pages : BrowserStep(p)
           \/ \E p \in Pages : page[p] = "live" /\ Goes(p)
           \/ UNCHANGED <<page, docs, subs>>
    PROVE  Dead(c)'
  <1>1. c[1] \in Pages /\ c[3] \in 1 .. MaxDocs /\ docs[c[1]] \in Nat /\ MaxDocs \in Nat
    BY ContextFacts, ContextsAssumption DEF Typed, Browser
  <1>2. CASE UNCHANGED <<page, docs, subs>>
    BY <1>2 DEF Dead
  <1>3. ASSUME NEW p \in Pages, Goes(p) PROVE Dead(c)'
    BY <1>1, <1>3 DEF Goes, Dead, Typed, Browser
  <1>4. ASSUME NEW p \in Pages, BrowserStep(p) PROVE Dead(c)'
    <2>1. CASE Opens(p)
      <3>1. page[p] = "new" /\ docs[p] = 0 /\ UNCHANGED subs
            /\ \A q \in Pages : q # p => page'[q] = page[q] /\ docs'[q] = docs[q]
        BY <2>1 DEF Opens, Typed, Browser
      <3>2. c[1] # p
        BY <1>1, <3>1 DEF Dead
      <3> QED BY <1>1, <3>1, <3>2 DEF Dead
    <2>2. CASE Commits(p)
      <3>1. /\ UNCHANGED page
            /\ \A q \in Pages : docs'[q] = IF q = p THEN docs[q] + 1 ELSE docs[q]
            /\ \A q \in Pages : q # p => subs'[q] = subs[q]
        BY <2>2 DEF Commits, Typed, Browser
      <3>2. CASE c[1] = p
        BY <1>1, <3>1, <3>2 DEF Dead
      <3>3. CASE c[1] # p
        BY <1>1, <3>1, <3>3 DEF Dead
      <3> QED BY <3>2, <3>3
    <2>3. CASE PageNavigates(p) \/ NavigationStarts(p)
      BY <1>2, <2>3 DEF PageNavigates, NavigationStarts
    <2>4. CASE ClosesItself(p)
      BY <1>3, <2>4 DEF ClosesItself
    <2>5. ASSUME NEW s \in Subs, SubFrameAppears(p, s) \/ SubFrameNavigates(p, s) \/ SubFrameGoes(p, s)
          PROVE  Dead(c)'
      <3>1. UNCHANGED <<page, docs>>
        BY <2>5 DEF SubFrameAppears, SubFrameNavigates, SubFrameGoes, browser
      <3>2. \A q \in Pages, x \in Subs : subs[q][x] = "left" => subs'[q][x] = "left"
        <4>1. CASE SubFrameAppears(p, s)
          BY <4>1 DEF SubFrameAppears, Typed, Browser
        <4>2. CASE SubFrameNavigates(p, s)
          BY <4>2 DEF SubFrameNavigates, browser
        <4>3. CASE SubFrameGoes(p, s)
          BY <4>3 DEF SubFrameGoes, Typed, Browser
        <4> QED BY <2>5, <4>1, <4>2, <4>3
      <3> QED BY <1>1, <3>1, <3>2 DEF Dead
    <2> QED BY <1>4, <2>1, <2>2, <2>3, <2>4, <2>5 DEF BrowserStep
  <1> QED BY <1>2, <1>3, <1>4

LEMMA LiveNotDead ==
    ASSUME Typed, NEW c \in live
    PROVE  c \in AllCtx /\ ~Dead(c)
  <1>1. c \in AllCtx /\ c[1] \in Pages /\ c[3] \in 1 .. MaxDocs
    BY ContextFacts DEF Typed, Browser
  <1> QED BY <1>1 DEF Dead, Typed, Browser

\* The writes for page p: contexts told gone are dead, and one that exists anew is told.
Ended(p, r) ==
    /\ queue' = queue \o r /\ r \in Seq(Of(p))
    /\ \A i \in DOMAIN r : r[i] \in Gone => Dead(r[i].ctx)'
    /\ \A c \in live' : c \in live \/ (c[1] = p /\ Has(r, Makes(p)))

\* Writes that end no context, or one of those that exist.
Mild(p) == {e \in Of(p) : e \in Gone => e.ctx \in live}

LEMMA MildFacts ==
    ASSUME NEW p \in Pages
    PROVE  /\ Mild(p) \subseteq Of(p) /\ Ends(p) \subseteq Mild(p)
           /\ \A k \in FrameKinds, f \in Frames : Event(k, p, f, NoCtx) \in Mild(p)
           /\ \A k \in PageKinds : Event(k, p, NoFrame, NoCtx) \in Mild(p)
           /\ \A f \in Frames, n \in 1 .. MaxDocs :
                 /\ Event("created", p, f, <<p, f, n>>) \in Mild(p)
                 /\ Event("created", p, f, <<p, f, n>>) \in Makes(p)
  <1>1. \A e \in Gone : e.kind = "destroyed"
    BY GoneFacts
  <1>2. \A k \in FrameKinds, f \in Frames : Event(k, p, f, NoCtx) \in Of(p) /\ Event(k, p, f, NoCtx).kind = k
    BY QuietFacts, Kept DEF Event
  <1>3. \A k \in PageKinds : Event(k, p, NoFrame, NoCtx) \in Of(p) /\ Event(k, p, NoFrame, NoCtx).kind = k
    BY QuietFacts, Kept DEF Event
  <1>4. \A f \in Frames, n \in 1 .. MaxDocs : Event("created", p, f, <<p, f, n>>) \in Makes(p)
    BY QuietFacts DEF MakesCtx
  <1>5. \A k \in FrameKinds \cup PageKinds : k # "destroyed"
    BY DEF FrameKinds, PageKinds
  <1>6. Ends(p) \subseteq Mild(p)
    BY <1>1 DEF Ends, Mild, Of, PageEvents
  <1>7. \A e \in Makes(p) : e \in Of(p) /\ e.kind # "destroyed"
    BY DEF Makes
  <1> QED BY <1>1, <1>2, <1>3, <1>4, <1>5, <1>6, <1>7 DEF Mild

LEMMA OpensEnded ==
    ASSUME Typed, NEW p \in Pages, Opens(p)
    PROVE  \E r : Ended(p, r)
  <1> DEFINE c        == <<p, mainFrame[p], 1>>
             attached == <<Event("attached", p, NoFrame, NoCtx)>>
             frame    == <<Event("frameAttached", p, mainFrame[p], NoCtx)>>
             context  == <<Event("created", p, mainFrame[p], c)>>
             News4    == {attached \o context, (attached \o frame) \o context,
                          (frame \o context) \o attached, (frame \o attached) \o context}
             S        == {Event("attached", p, NoFrame, NoCtx), Event("created", p, mainFrame[p], c),
                          Event("frameAttached", p, mainFrame[p], NoCtx)}
  <1>1. mainFrame[p] \in Frames /\ 1 \in 1 .. MaxDocs
    BY ContextsAssumption DEF Typed, Browser, Frames
  <1>2. c \in AllCtx /\ c[1] = p
    BY <1>1, Written
  <1>3. S \subseteq Of(p) /\ S \cap Gone = {}
    <2>1. /\ Event("attached", p, NoFrame, NoCtx).kind = "attached" /\ Event("created", p, mainFrame[p], c).kind = "created"
          /\ Event("frameAttached", p, mainFrame[p], NoCtx).kind = "frameAttached"
      BY DEF Event
    <2>2. S \subseteq Of(p)
      BY <1>1, QuietFacts, Kept DEF PageKinds, FrameKinds, MakesCtx, Makes
    <2> QED BY <2>1, <2>2, GoneFacts
  <1>4. Event("created", p, mainFrame[p], c) \in Makes(p)
    BY <1>1, QuietFacts DEF MakesCtx
  <1>5. \E news \in News4 : queue' = queue \o news
    BY DEF Opens
  <1>6. live' = live \cup {c}
    BY DEF Opens
  <1>7. /\ attached \in Seq(S) /\ frame \in Seq(S) /\ context \in Seq(S) /\ Has(context, Makes(p))
    BY <1>4, HasOne
  <1> HIDE DEF c, attached, frame, context, S
  <1>8. \A news \in News4 : news \in Seq(S) /\ Has(news, Makes(p))
    <2>1. \A s, u \in Seq(S) : s \o u \in Seq(S) /\ (Has(s \o u, Makes(p)) <=> Has(s, Makes(p)) \/ Has(u, Makes(p)))
      BY Joined, HasJoined
    <2>2. attached \o frame \in Seq(S) /\ frame \o attached \in Seq(S)
      BY <1>7, <2>1
    <2>3. frame \o context \in Seq(S) /\ Has(frame \o context, Makes(p))
      BY <1>7, <2>1
    <2> QED BY <1>7, <2>1, <2>2, <2>3
  <1>9. PICK r \in News4 : queue' = queue \o r
    BY <1>5
  <1>10. r \in Seq(S) /\ Has(r, Makes(p))
    BY <1>8, <1>9
  <1>11. r \in Seq(Of(p)) /\ ~Has(r, Gone)
    BY <1>3, <1>10, HasNone, SeqWider
  <1> QED BY <1>2, <1>6, <1>9, <1>10, <1>11 DEF Ended, Has

LEMMA CommitsEnded ==
    ASSUME Typed, NEW p \in Pages, Commits(p)
    PROVE  \E r : Ended(p, r)
  <1>1. PICK f \in IF isBiDi THEN {mainFrame[p]} ELSE Mains, told \in BOOLEAN, early \in BOOLEAN :
          LET c == <<p, f, docs[p] + 1>>
              old == SetToSeq({s \in Subs : subs[p][s] = "there"})
              frames == (IF told /\ f # mainFrame[p]
                           THEN <<Event("frameDetached", p, mainFrame[p], NoCtx),
                                  Event("frameAttached", p, f, NoCtx)>>
                           ELSE <<>>)
                        \o [i \in DOMAIN old |-> Event("frameDetached", p, old[i], NoCtx)]
              committed == <<Event("committed", p, f, NoCtx)>>
              created   == <<Event("created", p, f, c)>>
              news == IF isBiDi THEN Destroyed(p) \o created
                      ELSE frames \o <<Event("started", p, f, NoCtx)>> \o Destroyed(p)
                           \o <<Event("cleared", p, NoFrame, NoCtx)>>
                           \o (IF early THEN created \o committed ELSE committed \o created)
          IN  /\ live' = {x \in live : x[1] # p} \cup {c}
              /\ queue' = queue \o news
    BY DEF Commits
  <1> DEFINE c == <<p, f, docs[p] + 1>>
             S == {s \in Subs : subs[p][s] = "there"}
             old == SetToSeq(S)
             swap == IF told /\ f # mainFrame[p]
                       THEN <<Event("frameDetached", p, mainFrame[p], NoCtx),
                              Event("frameAttached", p, f, NoCtx)>>
                       ELSE <<>>
             left == [i \in DOMAIN old |-> Event("frameDetached", p, old[i], NoCtx)]
             started   == <<Event("started", p, f, NoCtx)>>
             cleared   == <<Event("cleared", p, NoFrame, NoCtx)>>
             committed == <<Event("committed", p, f, NoCtx)>>
             created   == <<Event("created", p, f, c)>>
             before == (((swap \o left) \o started) \o Destroyed(p)) \o cleared
             M == Mild(p)
             d == Destroyed(p)
  <1>2. /\ live' = {x \in live : x[1] # p} \cup {c}
        /\ queue' = queue \o (IF isBiDi THEN d \o created
                              ELSE before \o (IF early THEN created \o committed ELSE committed \o created))
    BY <1>1
  <1>3. f \in Frames /\ mainFrame[p] \in Frames /\ docs[p] + 1 \in 1 .. MaxDocs /\ docs[p] \in Nat
    <2>1. mainFrame[p] \in Mains /\ docs[p] \in 0 .. MaxDocs /\ MaxDocs \in Nat
      BY ContextsAssumption DEF Typed, Browser
    <2>2. f \in Mains
      BY <2>1
    <2>3. docs[p] < MaxDocs
      BY DEF Commits
    <2>4. docs[p] + 1 \in 1 .. MaxDocs
      BY <2>1, <2>3
    <2> QED BY <2>1, <2>2, <2>4 DEF Frames
  <1>4. created \in Seq(M) /\ Has(created, Makes(p)) /\ c[1] = p
    BY <1>3, MildFacts, One, HasOne
  <1>5. started \in Seq(M) /\ cleared \in Seq(M) /\ committed \in Seq(M)
    BY <1>3, MildFacts, One DEF PageKinds, FrameKinds
  <1>6. swap \in Seq(M)
    <2>1. Event("frameDetached", p, mainFrame[p], NoCtx) \in M /\ Event("frameAttached", p, f, NoCtx) \in M
      BY <1>3, MildFacts DEF FrameKinds
    <2> HIDE DEF M
    <2> QED BY <2>1
  <1>7. left \in Seq(M)
    <2>1. IsFiniteSet(S)
      <3>1. S \subseteq Subs /\ IsFiniteSet(Subs)
        BY ContextsAssumption
      <3> QED BY <3>1, FS_Subset
    <2>2. old \in [1 .. Cardinality(S) -> S] /\ Cardinality(S) \in Nat
      BY <2>1, Listed
    <2>3. \A s \in S : Event("frameDetached", p, s, NoCtx) \in M
      BY MildFacts DEF FrameKinds, Frames
    <2> HIDE DEF old, S, M
    <2>4. left \in [1 .. Cardinality(S) -> M]
      BY <2>2, <2>3
    <2> HIDE DEF left
    <2> QED BY <2>2, <2>4, Mapped
  <1>8. d \in Seq(M)
    <2>1. d \in Seq(Ends(p)) /\ Ends(p) \subseteq M
      BY DestroyedQuiet, MildFacts
    <2> HIDE DEF d, M
    <2> QED BY <2>1, SeqWider
  <1> HIDE DEF c, swap, left, started, cleared, committed, created, M, d
  <1>9. ASSUME NEW s \in Seq(M), NEW u \in Seq(M)
        PROVE  s \o u \in Seq(M) /\ (Has(s, Makes(p)) \/ Has(u, Makes(p)) => Has(s \o u, Makes(p)))
    BY Joined, HasJoined
  <1> DEFINE Good(r) == r \in Seq(M) /\ Has(r, Makes(p))
  <1>10. \A s, u \in Seq(M) : Good(u) \/ Good(s) => Good(s \o u)
    BY <1>9
  <1>11. before \in Seq(M)
    <2>1. swap \o left \in Seq(M)
      BY <1>6, <1>7, <1>9
    <2>2. (swap \o left) \o started \in Seq(M)
      BY <1>5, <2>1, <1>9
    <2>3. ((swap \o left) \o started) \o d \in Seq(M)
      BY <1>8, <2>2, <1>9
    <2> QED BY <1>5, <2>3, <1>9 DEF d
  <1> HIDE DEF before
  <1>12. Good(d \o created) /\ Good(created \o committed) /\ Good(committed \o created)
    BY <1>4, <1>5, <1>8, <1>10
  <1>13. Good(before \o (committed \o created)) /\ Good(before \o (created \o committed))
    <2> DEFINE s == committed \o created
               u == created \o committed
    <2>1. Good(s) /\ Good(u) /\ before \in Seq(M)
      BY <1>11, <1>12
    <2> HIDE DEF s, u
    <2>2. Good(before \o s) /\ Good(before \o u)
      BY <2>1, <1>10
    <2> QED BY <2>2 DEF s, u
  <1>19. PICK r : queue' = queue \o r /\ Good(r)
    BY <1>2, <1>12, <1>13
  <1>20. ASSUME NEW i \in DOMAIN r, r[i] \in Gone PROVE Dead(r[i].ctx)'
    <2> DEFINE x == r[i].ctx
    <2>1. r[i] \in Mild(p)
      BY <1>19, <1>20 DEF M
    <2>2. x \in live /\ x[1] = p
      BY <1>20, <2>1, GoneFacts DEF Mild, Of
    <2>3. x[3] = docs[p] /\ docs'[p] = docs[p] + 1
      BY <2>2 DEF Typed, Browser, Commits
    <2> HIDE DEF x
    <2>4. Dead(x)'
      BY <1>3, <2>2, <2>3 DEF Dead
    <2> QED BY <2>4 DEF x
  <1>21. r \in Seq(Of(p))
    BY <1>19, MildFacts, SeqWider DEF M
  <1> QED BY <1>2, <1>4, <1>19, <1>20, <1>21 DEF Ended

LEMMA FramesEnded ==
    ASSUME Typed, NEW p \in Pages, NEW s \in Subs, page[p] = "live",
           SubFrameAppears(p, s) \/ SubFrameNavigates(p, s) \/ SubFrameGoes(p, s)
    PROVE  \E r : Ended(p, r)
  <1> DEFINE c == <<p, s, docs[p]>>
  <1>1. s \in Frames /\ docs[p] \in 1 .. MaxDocs /\ s \in AnyFrame
    BY DEF Typed, Browser, Frames, AnyFrame
  <1>2. c \in AllCtx /\ c[1] = p /\ c[2] = s /\ c[3] = docs[p]
    BY <1>1, Written
  <1>3. ASSUME NEW a \in Of(p), NEW e \in Of(p)
        PROVE  /\ <<a, e>> \in Seq(Of(p))
               /\ \A i \in DOMAIN <<a, e>> : <<a, e>>[i] \in {a, e}
               /\ e \in Makes(p) => Has(<<a, e>>, Makes(p))
    <2> DEFINE r == <<a, e>>
    <2>1. r \in Seq(Of(p)) /\ DOMAIN r = 1 .. 2 /\ r[1] = a /\ r[2] = e /\ Len(r) = 2
      OBVIOUS
    <2> HIDE DEF r
    <2> QED BY <1>3, <2>1 DEF Has
  <1>4. \A k \in FrameKinds, f \in Frames : Event(k, p, f, NoCtx) \in Of(p) /\ Event(k, p, f, NoCtx).kind = k
    BY QuietFacts, Kept DEF Event
  <1>5. \A x \in Gone : x.kind = "destroyed"
    BY GoneFacts
  <1>6. CASE SubFrameAppears(p, s)
    <2> DEFINE a == Event("frameAttached", p, s, NoCtx)
               e == Event("created", p, s, c)
    <2>1. live' = live \cup {c} /\ queue' = queue \o <<a, e>>
      BY <1>6 DEF SubFrameAppears
    <2>2. a \in Of(p) /\ a.kind = "frameAttached" /\ e \in Makes(p)
      BY <1>1, <1>4, QuietFacts DEF FrameKinds, MakesCtx
    <2>3. e \in Of(p) /\ e.kind = "created"
      BY <2>2 DEF Makes
    <2> HIDE DEF a, e, c
    <2>4. \A i \in DOMAIN <<a, e>> : <<a, e>>[i] \notin Gone
      BY <1>3, <1>5, <2>2, <2>3
    <2> DEFINE r == <<a, e>>
    <2>5. r \in Seq(Of(p)) /\ Has(r, Makes(p))
      BY <1>3, <2>2, <2>3
    <2> HIDE DEF r
    <2>6. Ended(p, r)
      BY <1>2, <2>1, <2>4, <2>5 DEF Ended, r
    <2> QED BY <2>6
  <1>7. CASE SubFrameNavigates(p, s)
    <2> DEFINE a == Event("started", p, s, NoCtx)
               e == Event("committed", p, s, NoCtx)
    <2>1. live' = live /\ queue' = queue \o <<a, e>> /\ ~isBiDi
      BY <1>7 DEF SubFrameNavigates, browser, Typed, Browser
    <2>2. a \in Of(p) /\ a.kind = "started" /\ e \in Of(p) /\ e.kind = "committed"
      BY <1>1, <1>4 DEF FrameKinds
    <2> HIDE DEF a, e, c
    <2>4. \A i \in DOMAIN <<a, e>> : <<a, e>>[i] \notin Gone
      BY <1>3, <1>5, <2>2
    <2> DEFINE r == <<a, e>>
    <2>5. r \in Seq(Of(p))
      BY <1>3, <2>2
    <2> HIDE DEF r
    <2>6. Ended(p, r)
      BY <2>1, <2>4, <2>5 DEF Ended, r
    <2> QED BY <2>6
  <1>8. CASE SubFrameGoes(p, s)
    <2> DEFINE a == Event("destroyed", p, s, c)
               e == Event("frameDetached", p, s, NoCtx)
    <2>1. live' = live \ {c} /\ queue' = queue \o <<a, e>> /\ docs' = docs /\ subs' = [subs EXCEPT ![p][s] = "left"]
      BY <1>8 DEF SubFrameGoes
    <2>2. a \in Of(p) /\ a.kind = "destroyed" /\ a.ctx = c /\ e \in Of(p) /\ e.kind = "frameDetached"
      BY <1>1, <1>2, <1>4, QuietFacts, Kept DEF FrameKinds, Event
    <2>4. subs'[p][s] = "left"
      BY <2>1 DEF Typed, Browser
    <2>5. PICK x \in AllCtx : x = c
      BY <1>2
    <2> HIDE DEF a, e, c
    <2>6. Dead(x)'
      <3>1. x[1] = p /\ x[2] = s /\ x[3] = docs'[p]
        BY <1>2, <2>1, <2>5
      <3> QED BY <2>4, <3>1 DEF Dead
    <2>7. PICK r : r = <<a, e>>
      OBVIOUS
    <2>8. /\ r \in Seq(Of(p))
          /\ \A i \in DOMAIN r : r[i] \in Gone => r[i].ctx = c
      BY <1>3, <1>5, <2>2, <2>7
    <2>9. \A i \in DOMAIN r : r[i] \in Gone => Dead(r[i].ctx)'
      <3> SUFFICES ASSUME NEW i \in DOMAIN r, r[i] \in Gone PROVE Dead(r[i].ctx)'
        OBVIOUS
      <3>1. r[i].ctx = x
        BY <2>5, <2>8
      <3> QED BY <2>6, <3>1
    <2>10. Ended(p, r)
      BY <2>1, <2>7, <2>8, <2>9 DEF Ended
    <2> QED BY <2>10
  <1> QED BY <1>6, <1>7, <1>8

\* What ends with a page.
LEMMA GoesEnded ==
    ASSUME Typed, NEW p \in Pages, Goes(p), NEW e \in Parting(p), e \in Gone
    PROVE  Dead(e.ctx)'
  <1>1. e.ctx \in live /\ e.ctx[1] = p /\ page'[p] = "gone"
    BY PartingFacts DEF Goes, Typed, Browser
  <1> QED BY <1>1 DEF Dead

LEMMA BrowserEnded ==
    ASSUME Typed, NEW p \in Pages, BrowserStep(p)
    PROVE  \E r : Ended(p, r)
  <1>1. CASE PageNavigates(p)
    <2> DEFINE r == <<>>
    <2>1. queue' = queue \o r /\ r \in Seq(Of(p)) /\ live' = live /\ DOMAIN r = {}
      BY <1>1 DEF PageNavigates, Typed, Browser
    <2> HIDE DEF r
    <2> QED BY <2>1 DEF Ended
  <1>a. CASE NavigationStarts(p)
    <2> DEFINE r == <<Event("committed", p, mainFrame[p], NoCtx)>>
    <2>1. queue' = queue \o r /\ r \in Seq(Of(p)) /\ live' = live
      BY <1>a, StartFacts
    <2>2. \A i \in DOMAIN r : r[i].kind = "committed"
      BY DEF Event
    <2> HIDE DEF r
    <2>3. \A i \in DOMAIN r : r[i] \notin Gone
      BY <2>2, GoneFacts
    <2> QED BY <2>1, <2>3 DEF Ended
  <1>2. CASE ClosesItself(p)
    <2>1. queue' = queue \o Detached(p) /\ Goes(p) /\ live' \subseteq live
      BY <1>2 DEF ClosesItself, Goes
    <2>2. PICK r : r = Detached(p)
      OBVIOUS
    <2>3. r \in Seq(Parting(p)) /\ r \in Seq(Of(p))
      <3>1. r \in Seq(Parting(p))
        BY <2>2, DetachedParts
      <3> QED BY <3>1, PartingFacts, SeqWider
    <2>4. \A i \in DOMAIN r : r[i] \in Parting(p)
      BY <2>3
    <2>5. ASSUME NEW i \in DOMAIN r, r[i] \in Gone PROVE Dead(r[i].ctx)'
      <3>1. PICK e \in Parting(p) : e = r[i]
        BY <2>4, <2>5
      <3>2. Dead(e.ctx)'
        BY <2>1, <2>5, <3>1, GoesEnded
      <3> QED BY <3>1, <3>2
    <2> QED BY <2>1, <2>2, <2>3, <2>5 DEF Ended
  <1>3. ASSUME NEW s \in Subs, SubFrameAppears(p, s) \/ SubFrameNavigates(p, s) \/ SubFrameGoes(p, s)
        PROVE  \E r : Ended(p, r)
    <2>1. page[p] = "live"
      BY <1>3 DEF SubFrameAppears, SubFrameNavigates, SubFrameGoes
    <2> QED BY <1>3, <2>1, FramesEnded
  <1> QED BY <1>1, <1>a, <1>2, <1>3, OpensEnded, CommitsEnded DEF BrowserStep

------------------------------------------------------------------------------
(* Worlds announced again.                                                  *)

LEMMA ServesQueue ==
    ASSUME Typed, EndsDead, NEW t \in Threads, BrowserServes(t)
    PROVE  /\ EndsDead' /\ live' \subseteq live
           /\ \A c \in AllCtx : Dead(c) => Dead(c)'
           /\ \A p \in Pages : Has(queue, Makes(p)) => Has(queue', Makes(p))
  <1>1. PICK r : Served(t, r)
    BY Serves
  <1> DEFINE o == t[2]
             S == Parting(o) \cup Answers(t)
  <1>2. o \in Pages /\ t \in Callers
    BY Serves, ThreadFacts
  <1>3. S \subseteq News
    BY <1>2, Kept, PartingFacts DEF Answers, News
  <1>4. queue \in Seq(News) /\ r \in Seq(News) /\ r \in Seq(S) /\ queue' = queue \o r
    BY <1>1, <1>3, SeqWider DEF Typed, Browser, Served
  <1>9. \A c \in AllCtx : Dead(c) => Dead(c)'
    <2>1. (page[o] = "live" /\ Goes(o)) \/ UNCHANGED <<page, docs, subs>>
      BY Serves
    <2> QED BY <1>2, <2>1, DeadStays
  <1>10. live' \subseteq live
    BY Serves DEF Goes
  <1>11. ASSUME NEW e \in Gone, Has(queue', {e}) PROVE Dead(e.ctx)'
    <2>1. e.ctx \in AllCtx /\ e \notin Answers(t)
      BY GoneFacts, Kinds DEF Answers, News
    <2>2. Has(queue, {e}) \/ Has(r, {e})
      BY <1>4, <1>11, HasJoined
    <2>3. CASE Has(queue, {e})
      BY <1>9, <2>1, <2>3 DEF EndsDead
    <2>4. CASE Has(r, {e})
      <3>1. \A T : r \in Seq(T) => e \in T
        BY <2>4 DEF Has
      <3>2. e \in S /\ (Goes(o) \/ e \in Answers(t))
        BY <1>1, <3>1 DEF Served
      <3> QED BY <1>2, <1>11, <2>1, <3>2, GoesEnded
    <2> QED BY <2>2, <2>3, <2>4
  <1>12. EndsDead'
    BY <1>11 DEF EndsDead
  <1>13. \A p \in Pages : Has(queue, Makes(p)) => Has(queue', Makes(p))
    BY <1>4, HasJoined
  <1> QED BY <1>9, <1>10, <1>12, <1>13

LEMMA BrowserQueue ==
    ASSUME Typed, EndsDead, NEW o \in Pages, BrowserStep(o)
    PROVE  /\ EndsDead' /\ \A c \in live' : c \in live \/ Has(queue', Makes(c[1]))
           /\ \A c \in AllCtx : Dead(c) => Dead(c)'
           /\ \A p \in Pages : Has(queue, Makes(p)) => Has(queue', Makes(p))
  <1>1. PICK r : Ended(o, r)
    BY BrowserEnded
  <1>2. queue \in Seq(News) /\ r \in Seq(News) /\ r \in Seq(Of(o)) /\ queue' = queue \o r
    BY <1>1, Kept, SeqWider DEF Typed, Browser, Ended
  <1>7. \A c \in AllCtx : Dead(c) => Dead(c)'
    BY DeadStays
  <1>8. EndsDead'
    <2>1. ASSUME NEW e \in Gone, Has(queue', {e}) PROVE Dead(e.ctx)'
      <3>1. e.ctx \in AllCtx
        BY GoneFacts
      <3>2. Has(queue, {e}) \/ Has(r, {e})
        BY <1>2, <2>1, HasJoined
      <3>3. CASE Has(queue, {e})
        BY <1>7, <3>1, <3>3 DEF EndsDead
      <3>4. CASE Has(r, {e})
        <4>1. PICK j \in DOMAIN r : r[j] = e
          BY <3>4 DEF Has
        <4>2. Dead(r[j].ctx)'
          BY <1>1, <4>1 DEF Ended
        <4> QED BY <4>1, <4>2
      <3> QED BY <3>2, <3>3, <3>4
    <2> QED BY <2>1 DEF EndsDead
  <1>9. \A p \in Pages : Has(queue', Makes(p)) <=> Has(queue, Makes(p)) \/ Has(r, Makes(p))
    BY <1>2, HasJoined
  <1>10. \A c \in live' : c \in live \/ Has(queue', Makes(c[1]))
    BY <1>1, <1>9 DEF Ended
  <1> QED BY <1>7, <1>8, <1>9, <1>10

LEMMA TakesQueue ==
    ASSUME Typed, EndsDead, Takes, UNCHANGED <<page, docs, subs>>
    PROVE  /\ EndsDead'
           /\ Head(queue) \in Gone => Dead(Head(queue).ctx)
           /\ \A p \in Pages : Has(queue, Makes(p)) /\ Head(queue) \notin Makes(p) => Has(queue', Makes(p))
  <1>1. queue \in Seq(News) /\ queue # <<>> /\ queue' = Tail(queue)
    BY DEF Typed, Browser, Takes
  <1>2. \A c : Dead(c)' = Dead(c)
    BY DEF Dead
  <1>3. ASSUME NEW e \in Gone PROVE /\ Has(queue', {e}) => Dead(e.ctx)'
                                    /\ Head(queue) = e => Dead(e.ctx)
    <2>1. Has(queue', {e}) \/ Head(queue) = e => Has(queue, {e})
      BY <1>1, HasRest
    <2> QED BY <1>2, <2>1 DEF EndsDead
  <1>7. \A p \in Pages : Has(queue, Makes(p)) /\ Head(queue) \notin Makes(p) => Has(queue', Makes(p))
    BY <1>1, HasRest
  <1>8. EndsDead'
    BY <1>3 DEF EndsDead
  <1> QED BY <1>3, <1>7, <1>8

\* Numbers are new, and only those of cleaned pages are dropped.
Renumbered ==
    /\ ctxCounter' \in Nat /\ ctxCounter <= ctxCounter'
    /\ \A i \in DOMAIN ctxMap' : (i \in DOMAIN ctxMap /\ ctxMap'[i] = ctxMap[i]) \/ i = ctxCounter + 1
    /\ \A i \in DOMAIN ctxMap : ctxMap[i].owner \in Pages \ cleaned =>
                                   i \in DOMAIN ctxMap' /\ ctxMap'[i] = ctxMap[i]

LEMMA RenumberedBy ==
    ASSUME Typed
    PROVE  /\ UNCHANGED <<ctxMap, ctxCounter>> => Renumbered
           /\ UNCHANGED ctxMap /\ ctxCounter' = ctxCounter + 1 => Renumbered
           /\ \A e : ctxCounter' = ctxCounter + 1 /\ ctxMap' = With(ctxMap, ctxCounter + 1, e)
                        => Renumbered /\ ctxCounter + 1 \in DOMAIN ctxMap' /\ ctxMap'[ctxCounter + 1] = e
           /\ \A p \in cleaned : UNCHANGED ctxCounter /\ ctxMap' = Without(ctxMap, OwnedBy(p)) => Renumbered
  <1>1. ctxCounter \in Nat /\ DOMAIN ctxMap \subseteq 1 .. ctxCounter
    BY DEF Typed, Caches
  <1>2. ctxCounter + 1 \notin DOMAIN ctxMap /\ ctxCounter <= ctxCounter /\ ctxCounter <= ctxCounter + 1 /\ ctxCounter + 1 \in Nat
    BY <1>1
  <1>3. ASSUME NEW e, ctxCounter' = ctxCounter + 1, ctxMap' = With(ctxMap, ctxCounter + 1, e)
        PROVE  Renumbered /\ ctxCounter + 1 \in DOMAIN ctxMap' /\ ctxMap'[ctxCounter + 1] = e
    <2>1. /\ DOMAIN ctxMap' = DOMAIN ctxMap \cup {ctxCounter + 1} /\ ctxMap'[ctxCounter + 1] = e
          /\ \A i \in DOMAIN ctxMap : ctxMap'[i] = ctxMap[i]
      BY <1>2, <1>3 DEF With
    <2> QED BY <1>2, <1>3, <2>1 DEF Renumbered
  <1>4. ASSUME NEW p \in cleaned, UNCHANGED ctxCounter, ctxMap' = Without(ctxMap, OwnedBy(p)) PROVE Renumbered
    <2>1. /\ DOMAIN ctxMap' = DOMAIN ctxMap \ OwnedBy(p)
          /\ \A i \in DOMAIN ctxMap' : ctxMap'[i] = ctxMap[i]
      BY <1>4 DEF Without, Restrict
    <2>2. \A i \in DOMAIN ctxMap : ctxMap[i].owner # p => i \in DOMAIN ctxMap'
      BY <2>1 DEF OwnedBy
    <2> QED BY <1>1, <1>2, <1>4, <2>1, <2>2 DEF Renumbered
  <1> QED BY <1>1, <1>2, <1>3, <1>4 DEF Renumbered

\* Steps of other threads than the read loop, and of its cleanups.
LEMMA WorldsElsewhere ==
    ASSUME Typed, Worldly, Renumbered, UNCHANGED <<queue, browser, isBiDi, reEmitted>>,
           \/ pc'[Reader] = pc[Reader] /\ UNCHANGED ev
           \/ {pc[Reader], pc'[Reader]} \cap (Learning \cup {"worlds", "drop"}) = {},
           sessions' \subseteq sessions, cleaned \subseteq cleaned', sessions \subseteq sessions' \cup cleaned',
           \A p \in Pages \ cleaned : latestCtx'[p] = latestCtx[p]
    PROVE  Worldly'
  <1>0. ctxCounter \in Nat
    BY DEF Typed, Caches
  <1>1. EndsDead'
    <2>1. \A c : Dead(c)' = Dead(c)
      BY DEF Dead, browser
    <2> QED BY <2>1 DEF Worldly, EndsDead
  <1>2. Numbered'
    <2>1. CASE pc'[Reader] # "drop"
      BY <2>1 DEF Numbered
    <2>2. CASE pc[Reader] = "drop" /\ UNCHANGED <<ev>> /\ pc'[Reader] = pc[Reader]
      <3>1. Dead(ev.event.ctx) /\ ev.id \in 0 .. ctxCounter /\ (ev.id \in DOMAIN ctxMap => ctxMap[ev.id].ctx = ev.event.ctx)
        BY <2>2 DEF Worldly, Numbered
      <3>2. ev.id # ctxCounter + 1 /\ ev.id \in 0 .. ctxCounter'
        BY <1>0, <3>1 DEF Renumbered
      <3>3. ev'.id \in DOMAIN ctxMap' => ctxMap'[ev'.id].ctx = ev'.event.ctx
        BY <2>2, <3>1, <3>2 DEF Renumbered
      <3>4. Dead(ev.event.ctx)'
        BY <2>2, <3>1 DEF Dead, browser
      <3> QED BY <2>2, <3>2, <3>3, <3>4 DEF Numbered
    <2> QED BY <2>1, <2>2
  <1>3. Worldless'
    <2>1. CASE pc'[Reader] \notin Learning
      BY <2>1 DEF Worldly, Worldless, Learning, Learns
    <2>2. CASE pc'[Reader] \in Learning /\ pc'[Reader] = pc[Reader] /\ UNCHANGED ev
      <3>1. ev.event.page \in Pages
        BY <2>2, HandFacts DEF Learning
      <3> QED BY <2>2, <3>1 DEF Worldly, Worldless
    <2> QED BY <2>1, <2>2
  <1>4. ASSUME NEW p \in Pages \ cleaned', Settled(p)', NEW w \in reEmitted'[p] PROVE Leads(p, w)' \/ Coming(p, w)'
    <2>1. p \in Pages \ cleaned /\ Settled(p) /\ latestCtx'[p] = latestCtx[p]
      BY <1>4 DEF Settled, browser
    <2>2. CASE Leads(p, w)
      BY <2>1, <2>2 DEF Leads, Renumbered
    <2>3. CASE Coming(p, w)
      BY <2>1, <2>3 DEF Coming
    <2> QED BY <1>4, <2>1, <2>2, <2>3 DEF Worldly, Announced
  <1>5. Announced'
    BY <1>4 DEF Announced
  <1> QED BY <1>1, <1>2, <1>3, <1>5 DEF Worldly

\* The browser's writes.
LEMMA WorldsWritten ==
    ASSUME Typed, Owners, Worldly, UNCHANGED <<bridge, pc, ev, reEmitted>>, live' \subseteq AllCtx,
           EndsDead', \A c \in live' : c \in live \/ Has(queue', Makes(c[1])),
           \A c \in AllCtx : Dead(c) => Dead(c)',
           \A p \in Pages : Has(queue, Makes(p)) => Has(queue', Makes(p))
    PROVE  Worldly'
  <1>1. UNCHANGED <<ctxMap, ctxCounter, sessions, cleaned, latestCtx>>
    BY DEF bridge
  <1>2. Numbered'
    <2>1. CASE pc[Reader] = "drop"
      <3>1. ev.event \in Gone /\ Dead(ev.event.ctx) /\ ev.id \in 0 .. ctxCounter
            /\ (ev.id \in DOMAIN ctxMap => ctxMap[ev.id].ctx = ev.event.ctx)
        BY <2>1 DEF Worldly, Numbered, Typed, InHand
      <3>2. PICK x \in AllCtx : x = ev.event.ctx
        BY <3>1, GoneFacts
      <3>3. Dead(x)'
        BY <3>1, <3>2
      <3>4. Dead(ev.event.ctx)'
        BY <3>2, <3>3 DEF Dead
      <3> QED BY <1>1, <2>1, <3>1, <3>4 DEF Numbered
    <2>2. CASE pc[Reader] # "drop"
      BY <1>1, <2>2 DEF Worldly, Numbered
    <2> QED BY <2>1, <2>2
  <1>3. Worldless'
    BY <1>1 DEF Worldly, Worldless
  <1>4. ASSUME NEW p \in Pages \ cleaned', Settled(p)', NEW w \in reEmitted'[p] PROVE Leads(p, w)' \/ Coming(p, w)'
    <2>1. PICK c \in live' : c = latestCtx'[p]
      BY <1>4 DEF Settled
    <2>2. c = latestCtx[p] /\ Own(p, c) /\ c # NoCtx
      BY <1>1, <2>1, AbsenceAssumption DEF Owners
    <2>3. c \in live
      BY <1>4, <2>1, <2>2 DEF Own, Settled
    <2>4. Settled(p)
      BY <1>4, <2>2, <2>3 DEF Settled
    <2>5. Leads(p, w) \/ Coming(p, w)
      BY <1>1, <1>4, <2>4 DEF Worldly, Announced
    <2> QED BY <1>1, <2>5 DEF Leads, Coming
  <1>5. Announced'
    BY <1>4 DEF Announced
  <1> QED BY <1>2, <1>3, <1>5 DEF Worldly

LEMMA WorldsBrowser ==
    ASSUME Typed, Owners, Worldly,
           (\E p \in Pages : BrowserStep(p)) \/ (\E t \in Threads : BrowserServes(t)),
           Typed'
    PROVE  Worldly'
  <1>1. live' \subseteq AllCtx
    BY DEF Typed, Browser
  <1>2. ASSUME NEW p \in Pages, BrowserStep(p) PROVE Worldly'
    <2>1. UNCHANGED <<bridge, pc, ev, reEmitted>>
      BY <1>2 DEF BrowserStep
    <2> QED BY <1>1, <1>2, <2>1, BrowserQueue, WorldsWritten DEF Worldly
  <1>3. ASSUME NEW t \in Threads, BrowserServes(t) PROVE Worldly'
    <2>1. UNCHANGED <<bridge, pc, ev, reEmitted>>
      BY <1>3 DEF BrowserServes
    <2>2. EndsDead' /\ \A c \in live' : c \in live
      BY <1>3, ServesQueue DEF Worldly
    <2>3. /\ \A c \in AllCtx : Dead(c) => Dead(c)'
          /\ \A p \in Pages : Has(queue, Makes(p)) => Has(queue', Makes(p))
      BY <1>3, ServesQueue DEF Worldly
    <2> QED BY <1>1, <2>1, <2>2, <2>3, WorldsWritten
  <1> QED BY <1>2, <1>3

\* The read loop takes a write that makes no context.
LEMMA WorldsTaken ==
    ASSUME Typed, Worldly, Takes, Head(queue).kind # "created",
           UNCHANGED <<cleaned, browser, latestCtx>>, sessions \subseteq sessions',
           \/ UNCHANGED <<ctxMap, reEmitted>>
           \/ \E o \in Pages : /\ ctxMap' = Without(ctxMap, OwnedBy(o))
                               /\ reEmitted' = [reEmitted EXCEPT ![o] = {}],
           pc'[Reader] \notin Learning, Numbered'
    PROVE  Worldly'
  <1>1. EndsDead' /\ \A p \in Pages : Has(queue, Makes(p)) /\ Head(queue) \notin Makes(p) => Has(queue', Makes(p))
    BY TakesQueue DEF Worldly, browser
  <1>2. \A p \in Pages : reEmitted'[p] \subseteq reEmitted[p]
    BY DEF Typed, Caches
  <1>3. Worldless'
    BY <1>2 DEF Worldly, Worldless, Learning, Learns
  <1>4. \A p : Head(queue) \notin Makes(p)
    BY DEF Makes
  <1>5. ASSUME NEW p \in Pages \ cleaned', Settled(p)', NEW w \in reEmitted'[p] PROVE Leads(p, w)'
    <2>1. ~Has(queue', Makes(p)) /\ latestCtx'[p] = latestCtx[p] /\ pc[Reader] = "idle" /\ w \in reEmitted[p]
      BY <1>2, <1>5 DEF Settled, Takes
    <2>2. Settled(p)
      BY <1>1, <1>4, <1>5, <2>1 DEF Settled, browser, Learning, Learns
    <2>3. Leads(p, w)
      BY <1>5, <2>1, <2>2 DEF Worldly, Announced, Coming
    <2>4. PICK i \in DOMAIN ctxMap : ctxMap[i] = [ctx |-> latestCtx[p], owner |-> p, world |-> w]
      BY <2>3 DEF Leads
    <2>5. CASE UNCHANGED ctxMap
      BY <2>1, <2>3, <2>5 DEF Leads
    <2>6. ASSUME NEW o \in Pages, ctxMap' = Without(ctxMap, OwnedBy(o)), reEmitted' = [reEmitted EXCEPT ![o] = {}]
          PROVE  Leads(p, w)'
      <3>1. o # p
        BY <1>5, <2>6 DEF Typed, Caches
      <3>2. i \notin OwnedBy(o)
        BY <2>4, <3>1 DEF OwnedBy
      <3>3. i \in DOMAIN ctxMap' /\ ctxMap'[i] = ctxMap[i]
        BY <2>6, <3>2 DEF Without, Restrict
      <3> QED BY <2>1, <2>4, <3>3 DEF Leads
    <2> QED BY <2>5, <2>6
  <1>6. Announced'
    BY <1>5 DEF Announced
  <1> QED BY <1>1, <1>3, <1>6 DEF Worldly

LEMMA WorldsNoted ==
    ASSUME Typed, Worldly, Notes
    PROVE  Worldly'
  <1>1. /\ pc[Reader] = "idle" /\ Takes
        /\ UNCHANGED <<cleaned, latestCtx, pc, browser>>
    BY NotesTyped DEF Takes
  <1>2. Numbered' /\ pc'[Reader] \notin Learning
    BY <1>1 DEF Numbered, Learning, Learns
  <1>3. sessions \subseteq sessions'
    BY DEF Notes, TakeAttached, TakeNavigationStarted, TakeNavigationCommitted, TakeContextsCleared,
           TakeFrameAttached, TakeFrameDetached
  <1>4. Head(queue).kind \in FrameKinds \cup PageKinds
    BY DEF Notes, TakeAttached, TakeNavigationStarted, TakeNavigationCommitted, TakeContextsCleared,
           TakeFrameAttached, TakeFrameDetached, Next1, FrameKinds, PageKinds
  <1>5. Head(queue).kind # "created" /\ Head(queue).kind # "reply"
    BY <1>4 DEF FrameKinds, PageKinds
  <1>6. Head(queue).page \in Pages /\ Head(queue) \in Of(Head(queue).page)
    BY <1>1, <1>5, Taken, Kinds DEF Takes, Of
  <1>7. \/ UNCHANGED <<ctxMap, reEmitted>>
        \/ \E o \in Pages : /\ ctxMap' = Without(ctxMap, OwnedBy(o))
                            /\ reEmitted' = [reEmitted EXCEPT ![o] = {}]
    <2>1. CASE TakeContextsCleared
      BY <1>6, <2>1 DEF TakeContextsCleared, ClearContextsForSession
    <2>2. CASE TakeNavigationCommitted
      BY <1>6, <2>2 DEF TakeNavigationCommitted, ClearContextsForSession
    <2>3. CASE TakeAttached \/ TakeNavigationStarted \/ TakeFrameAttached \/ TakeFrameDetached
      BY <2>3 DEF TakeAttached, TakeNavigationStarted, TakeFrameAttached, TakeFrameDetached, contextMaps
    <2> QED BY <2>1, <2>2, <2>3 DEF Notes
  <1> QED BY <1>1, <1>2, <1>3, <1>5, <1>7, WorldsTaken

LEMMA WorldsAnswered ==
    ASSUME Typed, Worldly, TakeReply \/ TakeDetached \/ TakeContextDestroyed
    PROVE  Worldly'
  <1>1. /\ Takes /\ pc[Reader] = "idle" /\ Head(queue).kind # "created"
        /\ UNCHANGED <<bridge, browser, reEmitted>>
    BY DEF TakeReply, TakeDetached, TakeContextDestroyed, Next1, Takes
  <1>2. UNCHANGED <<cleaned, browser, isBiDi, latestCtx, reEmitted, ctxMap, ctxCounter>> /\ sessions \subseteq sessions'
    BY <1>1 DEF bridge
  <1>3. pc'[Reader] \notin Learning /\ Numbered'
    <2>1. CASE TakeReply
      <3>1. Head(queue) \in Replies
        BY <1>1, <2>1, Taken, Kinds DEF Takes, TakeReply, Next1
      <3>2. Head(queue).to # Reader /\ Reader \in Threads
        BY <3>1, ThreadFacts DEF Replies
      <3>3. pc'[Reader] = "idle"
        BY <1>1, <2>1, <3>2 DEF TakeReply, Goto, Typed, Goroutines
      <3> QED BY <3>3 DEF Numbered, Learning, Learns
    <2>2. CASE TakeDetached
      <3>1. pc'[Reader] = "begin"
        BY <2>2, GotoFacts, ThreadFacts DEF TakeDetached, ReaderPCs
      <3> QED BY <3>1 DEF Numbered, Learning, Learns
    <2>3. CASE TakeContextDestroyed
      <3>1. pc'[Reader] = "drop"
        BY <2>3, GotoFacts, ThreadFacts DEF TakeContextDestroyed, ReaderPCs
      <3>2. Head(queue) \in Gone
        BY <1>1, <2>3, Taken, Kinds DEF Takes, TakeContextDestroyed, Next1
      <3> DEFINE ids == {i \in DOMAIN ctxMap : ctxMap[i].ctx = Head(queue).ctx}
      <3>3. PICK i \in IF ids = {} THEN {0} ELSE ids : ev' = [Idle EXCEPT !.event = Head(queue), !.id = i]
        BY <2>3 DEF TakeContextDestroyed
      <3>4. ev'.event = Head(queue) /\ ev'.id = i
        BY <3>3 DEF Idle
      <3>5. DOMAIN ctxMap \subseteq 1 .. ctxCounter /\ ctxCounter \in Nat
        BY DEF Typed, Caches
      <3>6. i \in 0 .. ctxCounter /\ (i \in DOMAIN ctxMap => ctxMap[i].ctx = Head(queue).ctx)
        <4>1. CASE ids = {}
          BY <3>3, <3>5, <4>1
        <4>2. CASE ids # {}
          BY <3>3, <3>5, <4>2
        <4> QED BY <4>1, <4>2
      <3>7. PICK x : x = Head(queue).ctx
        OBVIOUS
      <3>8. Dead(x)
        BY <1>1, <1>2, <3>2, <3>7, TakesQueue DEF Worldly, browser
      <3>9. Dead(x)' /\ ev'.event.ctx = x
        BY <1>1, <3>4, <3>7, <3>8 DEF Dead, browser
      <3>10. Dead(ev.event.ctx)'
        BY <3>9 DEF Dead
      <3> QED BY <1>2, <3>1, <3>4, <3>6, <3>10 DEF Numbered, Learning, Learns
    <2> QED BY <2>1, <2>2, <2>3
  <1> QED BY <1>1, <1>2, <1>3, WorldsTaken

LEMMA WorldsCreated ==
    ASSUME Typed, Worldly, TakeContextCreated
    PROVE  Worldly'
  <1> DEFINE e == Head(queue)
  <1>1. /\ Takes /\ Goto(Reader, "store") /\ e.kind = "created" /\ pc[Reader] = "idle" /\ ctxCounter' = ctxCounter + 1
        /\ ev' = [event |-> e, id |-> ctxCounter + 1, todo |-> <<>>, page |-> Resolved(e.page)]
        /\ UNCHANGED <<cleaned, sessions, browser, latestCtx, reEmitted, ctxMap>>
    BY DEF TakeContextCreated, Next1, Takes, NextCtxID
  <1>2. e \in Made /\ e.page \in Pages /\ pc'[Reader] = "store"
    BY <1>1, Taken, Kinds, MadeFacts, GotoFacts, ThreadFacts DEF Takes, ReaderPCs
  <1>3. ev'.event = e /\ ev'.id = ctxCounter + 1 /\ ev'.page = Resolved(e.page)
    BY <1>1
  <1>4. EndsDead' /\ \A p \in Pages : Has(queue, Makes(p)) /\ e \notin Makes(p) => Has(queue', Makes(p))
    BY <1>1, TakesQueue DEF Worldly, browser
  <1> HIDE DEF e
  <1>5. Numbered'
    BY <1>2 DEF Numbered
  <1>6. Worldless'
    <2>1. IF ev'.page = NoPage THEN ev'.event.page \notin sessions ELSE ev'.page \in sessions \cup cleaned
      BY <1>2, <1>3, AbsenceAssumption DEF Resolved
    <2> QED BY <1>1, <1>2, <2>1 DEF Worldly, Worldless
  <1>7. ASSUME NEW p \in Pages \ cleaned', Settled(p)', NEW w \in reEmitted'[p] PROVE Leads(p, w)'
    <2>1. e.page # p
      BY <1>2, <1>3, <1>7 DEF Settled, Learning, Learns
    <2>2. e \notin Makes(p)
      BY <2>1 DEF Makes, Of
    <2>3. Settled(p)
      BY <1>1, <1>4, <1>7, <2>2 DEF Settled, browser, Learning, Learns
    <2>4. Leads(p, w)
      BY <1>1, <1>7, <2>3 DEF Worldly, Announced, Coming
    <2> QED BY <1>1, <2>4 DEF Leads
  <1>8. Announced'
    BY <1>7 DEF Announced
  <1> QED BY <1>4, <1>5, <1>6, <1>8 DEF Worldly

\* The maps learn of a context: its page is not settled until the worlds are read, and no
\* number of another context is lost.
LEMMA WorldsLearned ==
    ASSUME Typed, Worldly, StoreContext \/ StoreLatest \/ StoreUnique,
           UNCHANGED <<cleaned, sessions, browser>>
    PROVE  Worldly'
  <1> DEFINE o == ev.event.page
  <1>1. /\ pc[Reader] \in Learns /\ pc'[Reader] \in {"latest", "unique", "isolated", "idle"}
        /\ pc'[Reader] # "idle" => UNCHANGED ev
        /\ UNCHANGED <<queue, reEmitted>>
    <2>1. ASSUME NEW l \in ReaderPCs, Goto(Reader, l) PROVE pc'[Reader] = l
      BY <2>1, GotoFacts, ThreadFacts
    <2>2. /\ pc[Reader] \in Learns /\ UNCHANGED <<queue, reEmitted>>
          /\ \/ \E l \in {"latest", "unique", "isolated"} : Goto(Reader, l) /\ UNCHANGED ev
             \/ Goto(Reader, "idle")
      <3>1. CASE StoreContext
        BY <3>1 DEF StoreContext, Learns
      <3>2. CASE StoreLatest
        BY <3>2 DEF StoreLatest, Learns
      <3>3. CASE StoreUnique
        BY <3>3 DEF StoreUnique, Learns
      <3> QED BY <3>1, <3>2, <3>3
    <2> QED BY <2>1, <2>2 DEF ReaderPCs
  <1>2. o \in Pages /\ NoPage # o /\ (ev.page = NoPage \/ ev.page = o)
    BY <1>1, HandFacts, AbsenceAssumption DEF Typed, InHand
  <1>3. /\ \A i \in DOMAIN ctxMap : i \in DOMAIN ctxMap' /\ ctxMap'[i] = ctxMap[i]
        /\ \A p \in Pages : p # o => latestCtx'[p] = latestCtx[p]
    <2>1. CASE StoreContext
      <3>1. ev.id \notin DOMAIN ctxMap /\ UNCHANGED latestCtx /\ \E e : ctxMap' = With(ctxMap, ev.id, e)
        BY <2>1 DEF StoreContext, Typed, InHand
      <3> QED BY <3>1 DEF With
    <2>2. CASE StoreLatest
      BY <2>2 DEF StoreLatest, Typed, Caches
    <2>3. CASE StoreUnique
      BY <2>3 DEF StoreUnique
    <2> QED BY <2>1, <2>2, <2>3
  <1>4. EndsDead'
    <2>1. \A c : Dead(c)' = Dead(c)
      BY DEF Dead, browser
    <2> QED BY <1>1, <2>1 DEF Worldly, EndsDead
  <1>5. Numbered'
    BY <1>1 DEF Numbered
  <1>6. IF ev.page = NoPage THEN o \notin sessions ELSE ev.page \in sessions \cup cleaned
    BY <1>1 DEF Worldly, Worldless, Learning
  <1>7. Worldless'
    <2>1. pc'[Reader] \in Learning => UNCHANGED ev
      BY <1>1 DEF Learning, Learns
    <2>2. ASSUME pc'[Reader] \in {"unique", "isolated"}, o \notin cleaned PROVE latestCtx'[o] = ev.event.ctx
      <3>1. CASE StoreContext
        <4>1. pc'[Reader] = "latest"
          BY <3>1, GotoFacts, ThreadFacts DEF StoreContext, ReaderPCs
        <4> QED BY <2>2, <4>1
      <3>2. CASE StoreLatest
        BY <1>2, <3>2 DEF StoreLatest, NowLatest, Typed, Caches
      <3>3. CASE StoreUnique
        BY <2>2, <3>3 DEF StoreUnique, Worldly, Worldless
      <3> QED BY <3>1, <3>2, <3>3
    <2>3. pc'[Reader] \in {"unique", "isolated"} /\ ev'.event.page \notin cleaned' => latestCtx'[ev'.event.page] = ev'.event.ctx
      BY <1>1, <2>2
    <2> QED BY <1>1, <1>6, <2>1, <2>3 DEF Worldly, Worldless
  <1>8. ASSUME NEW p \in Pages \ cleaned', Settled(p)', NEW w \in reEmitted'[p] PROVE Leads(p, w)'
    <2>1. CASE p # o
      <3>1. Settled(p) /\ w \in reEmitted[p] /\ p \notin cleaned
        BY <1>1, <1>3, <1>8, <2>1 DEF Settled, browser
      <3>2. Leads(p, w)
        BY <1>1, <3>1 DEF Worldly, Announced, Coming, Learns
      <3> QED BY <1>3, <2>1, <3>2 DEF Leads
    <2>2. CASE p = o
      <3>1. pc'[Reader] \notin Learning
        BY <1>1, <1>8, <2>2 DEF Settled, Learning, Learns
      <3>2. StoreUnique /\ ev.page = NoPage
        <4>1. ASSUME NEW l \in Learning, Goto(Reader, l) PROVE FALSE
          BY <3>1, <4>1, GotoFacts, ThreadFacts DEF Learning, Learns, ReaderPCs
        <4>2. \A l \in {"latest", "unique", "isolated"} : l \in Learning
          BY DEF Learning, Learns
        <4> QED BY <4>1, <4>2 DEF StoreContext, StoreLatest, StoreUnique
      <3>3. reEmitted[p] = {}
        BY <1>6, <1>8, <2>2, <3>2 DEF Worldly, Worldless
      <3> QED BY <1>1, <1>8, <3>3
    <2> QED BY <2>1, <2>2
  <1>9. Announced'
    BY <1>8 DEF Announced
  <1> QED BY <1>4, <1>5, <1>7, <1>9 DEF Worldly

\* The worlds to announce again are read: they are coming.
LEMMA WorldsRead ==
    ASSUME Typed, Worldly, ReadIsolatedWorlds, UNCHANGED <<cleaned, sessions, browser>>
    PROVE  Worldly'
  <1> DEFINE o == ev.page
  <1>1. /\ pc[Reader] = "isolated" /\ Goto(Reader, "worlds")
        /\ ev' = [ev EXCEPT !.todo = isolatedWorlds[o]]
        /\ reEmitted' = [reEmitted EXCEPT ![o] = ToSet(isolatedWorlds[o])]
        /\ UNCHANGED <<latestCtx, ctxMap, queue>>
    BY DEF ReadIsolatedWorlds, contextMaps
  <1>2. o \in Pages /\ o = ev.event.page /\ o \in sessions \cup cleaned /\ isolatedWorlds[o] \in Seq(Worlds)
    <2>1. ev.page = ev.event.page /\ ev.event.page \in Pages /\ NoPage \notin Pages
      BY <1>1, HandFacts, AbsenceAssumption DEF Typed, InHand
    <2> QED BY <1>1, <2>1 DEF Worldly, Worldless, Learning, Typed, Caches
  <1>3. pc'[Reader] = "worlds" /\ ev'.todo = isolatedWorlds[o] /\ ev'.page = o /\ ev'.event = ev.event
    BY <1>1, GotoFacts, ThreadFacts DEF ReaderPCs, Typed, InHand
  <1>4. \A p \in Pages : reEmitted'[p] = IF p = o THEN ToSet(isolatedWorlds[o]) ELSE reEmitted[p]
    BY <1>1, <1>2 DEF Typed, Caches
  <1>5. EndsDead'
    <2>1. \A c : Dead(c)' = Dead(c)
      BY DEF Dead, browser
    <2> QED BY <1>1, <2>1 DEF Worldly, EndsDead
  <1>6. Numbered'
    BY <1>3 DEF Numbered
  <1>7. Worldless'
    BY <1>2, <1>3, <1>4 DEF Worldly, Worldless, Learning, Learns
  <1>8. ASSUME NEW p \in Pages \ cleaned', Settled(p)', NEW w \in reEmitted'[p] PROVE Leads(p, w)' \/ Coming(p, w)'
    <2>1. CASE p # o
      <3>1. Settled(p) /\ w \in reEmitted[p]
        BY <1>1, <1>2, <1>4, <1>8, <2>1 DEF Settled, browser
      <3>2. Leads(p, w)
        BY <1>1, <1>8, <3>1 DEF Worldly, Announced, Coming
      <3> QED BY <1>1, <3>2 DEF Leads
    <2>2. CASE p = o
      <3>1. w \in ToSet(isolatedWorlds[o])
        BY <1>4, <1>8, <2>2
      <3>2. \E k \in 1 .. Len(isolatedWorlds[o]) : isolatedWorlds[o][k] = w
        BY <1>2, <3>1 DEF ToSet
      <3>3. latestCtx'[o] = ev.event.ctx
        BY <1>1, <1>2, <1>8, <2>2 DEF Worldly, Worldless
      <3> QED BY <1>3, <2>2, <3>2, <3>3 DEF Coming
    <2> QED BY <2>1, <2>2
  <1>9. Announced'
    BY <1>8 DEF Announced
  <1> QED BY <1>5, <1>6, <1>7, <1>9 DEF Worldly

LEMMA WorldsTold ==
    ASSUME Typed, Worldly, AnnounceWorld \/ WorldsAnnounced \/ DropContext,
           UNCHANGED <<cleaned, sessions, browser>>
    PROVE  Worldly'
  <1>1. UNCHANGED <<queue, latestCtx, reEmitted>> /\ pc[Reader] \in {"worlds", "drop"}
    BY DEF AnnounceWorld, WorldsAnnounced, DropContext
  <1>2. pc'[Reader] \in {"worlds", "idle"}
    <2>1. CASE AnnounceWorld
      BY <2>1 DEF AnnounceWorld
    <2>2. CASE WorldsAnnounced \/ DropContext
      <3>1. Goto(Reader, "idle")
        BY <2>2 DEF WorldsAnnounced, DropContext
      <3> QED BY <3>1, GotoFacts, ThreadFacts DEF ReaderPCs
    <2> QED BY <2>1, <2>2
  <1>3. EndsDead'
    <2>1. \A c : Dead(c)' = Dead(c)
      BY DEF Dead, browser
    <2> QED BY <1>1, <2>1 DEF Worldly, EndsDead
  <1>4. Numbered' /\ Worldless'
    BY <1>1, <1>2 DEF Worldly, Numbered, Worldless, Learning, Learns
  <1>5. ASSUME NEW p \in Pages \ cleaned', Settled(p)', NEW w \in reEmitted'[p] PROVE Leads(p, w)' \/ Coming(p, w)'
    <2>1. Settled(p) /\ latestCtx'[p] = latestCtx[p]
      BY <1>1, <1>5 DEF Settled, browser, Learning, Learns
    <2>2. Leads(p, w) \/ Coming(p, w)
      BY <1>1, <1>5, <2>1 DEF Worldly, Announced
    <2>3. CASE AnnounceWorld
      <3> DEFINE e == [ctx |-> ev.event.ctx, owner |-> ev.page, world |-> Head(ev.todo)]
      <3>1. /\ ctxCounter' = ctxCounter + 1 /\ ctxMap' = With(ctxMap, ctxCounter + 1, e)
            /\ ev' = [ev EXCEPT !.todo = Tail(@)] /\ UNCHANGED pc /\ ev.todo # <<>>
        BY <2>3 DEF AnnounceWorld, NextCtxID
      <3> HIDE DEF e
      <3>2. Renumbered /\ ctxCounter + 1 \in DOMAIN ctxMap' /\ ctxMap'[ctxCounter + 1] = e
        BY <3>1, RenumberedBy
      <3>3. CASE Leads(p, w)
        BY <1>5, <2>1, <3>2, <3>3 DEF Leads, Renumbered
      <3>4. CASE Coming(p, w)
        <4>1. ev.page = p /\ ev.event.ctx = latestCtx[p] /\ pc[Reader] = "worlds" /\ ev.todo \in Seq(Worlds)
          BY <3>4 DEF Coming, Typed, InHand
        <4>2. PICK k \in 1 .. Len(ev.todo) : ev.todo[k] = w
          BY <3>4 DEF Coming
        <4>3. CASE k = 1
          <5>1. e = [ctx |-> latestCtx[p], owner |-> p, world |-> w]
            BY <4>1, <4>2, <4>3 DEF e
          <5> QED BY <2>1, <3>2, <5>1 DEF Leads
        <4>4. CASE k # 1
          <5>1. ev'.todo = Tail(ev.todo) /\ ev'.page = p /\ ev'.event = ev.event
            BY <3>1, <4>1 DEF Typed, InHand
          <5>2. k - 1 \in 1 .. Len(Tail(ev.todo)) /\ Tail(ev.todo)[k - 1] = w
            BY <3>1, <4>1, <4>2, <4>4
          <5> QED BY <2>1, <3>1, <4>1, <5>1, <5>2 DEF Coming
        <4> QED BY <4>3, <4>4
      <3> QED BY <2>2, <3>3, <3>4
    <2>4. CASE WorldsAnnounced
      <3>1. ev.todo = <<>> /\ UNCHANGED ctxMap
        BY <2>4 DEF WorldsAnnounced
      <3>2. ~Coming(p, w)
        <4>1. ~\E k \in 1 .. Len(ev.todo) : TRUE
          BY <3>1
        <4> QED BY <4>1 DEF Coming
      <3> QED BY <2>1, <2>2, <3>1, <3>2 DEF Leads
    <2>5. CASE DropContext
      <3> DEFINE S == IF isBiDi THEN {i \in DOMAIN ctxMap : ctxMap[i].ctx = ev.event.ctx} ELSE {ev.id}
      <3>1. pc[Reader] = "drop" /\ ctxMap' = Without(ctxMap, S)
        BY <2>5 DEF DropContext
      <3>2. Dead(ev.event.ctx) /\ \A i \in DOMAIN ctxMap : i \in S => ctxMap[i].ctx = ev.event.ctx
        BY <3>1 DEF Worldly, Numbered
      <3>3. PICK i \in DOMAIN ctxMap : ctxMap[i] = [ctx |-> latestCtx[p], owner |-> p, world |-> w]
        BY <2>2, <3>1 DEF Leads, Coming
      <3>4. ~Dead(latestCtx[p])
        BY <2>1, LiveNotDead DEF Settled
      <3>5. i \notin S
        BY <3>2, <3>3, <3>4
      <3> HIDE DEF S
      <3>6. i \in DOMAIN ctxMap' /\ ctxMap'[i] = ctxMap[i]
        BY <3>1, <3>5 DEF Without, Restrict
      <3> QED BY <2>1, <3>3, <3>6 DEF Leads
    <2> QED BY <2>3, <2>4, <2>5
  <1>6. Announced'
    BY <1>5 DEF Announced
  <1> QED BY <1>3, <1>4, <1>6 DEF Worldly

\* Whose caches a cleanup forgets is cleaned.
LEMMA CleansCleaned ==
    ASSUME Typed, Cleaning, NEW t \in Threads, pc[t] \in {"clear", "remove"}
    PROVE  CleanedPage(t) \in cleaned
  <1>1. HasCleaned(t) /\ pc[t] \in Cleans
    BY CleaningOfAll DEF Cleans
  <1>2. CASE t = Reader
    BY <1>1, <1>2, CleanedFacts DEF HasCleaned
  <1>3. CASE t # Reader
    <2>1. t[2] \in Pages /\ (t = Handler(t[2]) \/ t = Closer(t[2])) /\ CleanedPage(t) = t[2]
      BY <1>3, ThreadFacts DEF CleanedPage
    <2>2. t = Handler(t[2]) => h[t[2]].op = "close"
      BY <1>1, <2>1 DEF Typed, Goroutines
    <2> QED BY <1>1, <2>1, <2>2 DEF HasCleaned
  <1> QED BY <1>2, <1>3

LEMMA WorldsCleanup ==
    ASSUME Typed, Cleaning, Worldly, NEW t \in Threads, CleanupStep(t)
    PROVE  Worldly'
  <1>1. UNCHANGED <<queue, browser, isBiDi, reEmitted>> /\ cleaned \subseteq cleaned'
    <2>1. cleaned \subseteq cleaned' /\ UNCHANGED reEmitted
      BY DEF CleanupStep, Closes, BeginCleanup, Local, bridge
    <2> QED BY <2>1, CleanupMoves
  <1>2. \/ pc'[Reader] = pc[Reader] /\ UNCHANGED ev
        \/ {pc[Reader], pc'[Reader]} \cap (Learning \cup {"worlds", "drop"}) = {}
    <2>1. CASE t = Reader
      <3>1. {pc[Reader], pc'[Reader]} \subseteq Cleans \cup {"idle", "wait"}
        BY <2>1, CleanupMoves
      <3> QED BY <3>1 DEF Cleans, Learning, Learns
    <2>2. CASE t # Reader
      <3>1. UNCHANGED ev
        BY <2>2 DEF CleanupStep, Closes, BeginCleanup, ClearState, RemoveSession, Forgets, Local
      <3>2. pc'[Reader] = pc[Reader]
        BY <2>2, CleanupMoves, ThreadFacts
      <3> QED BY <3>1, <3>2
    <2> QED BY <2>1, <2>2
  <1>3. pc[t] \in {"clear", "remove"} => CleanedPage(t) \in cleaned
    BY CleansCleaned
  <1>4. /\ Renumbered /\ sessions' \subseteq sessions /\ sessions \subseteq sessions' \cup cleaned'
        /\ \A p \in Pages \ cleaned : latestCtx'[p] = latestCtx[p]
    <2>1. CASE ClearState(t) /\ UNCHANGED cleaned
      <3>1. /\ CleanedPage(t) \in cleaned /\ latestCtx' = [latestCtx EXCEPT ![CleanedPage(t)] = NoCtx]
            /\ ctxMap' = Without(ctxMap, OwnedBy(CleanedPage(t))) /\ UNCHANGED <<ctxCounter, sessions>>
        BY <1>3, <2>1 DEF ClearState
      <3>2. Renumbered
        BY <3>1, RenumberedBy
      <3> QED BY <3>1, <3>2 DEF Typed, Caches
    <2>2. CASE RemoveSession(t) /\ UNCHANGED cleaned
      <3>1. CleanedPage(t) \in cleaned /\ sessions' = sessions \ {CleanedPage(t)} /\ UNCHANGED <<ctxMap, ctxCounter, latestCtx>>
        BY <1>3, <2>2 DEF RemoveSession, contextMaps
      <3> QED BY <2>2, <3>1, RenumberedBy
    <2>3. CASE Closes(t) \/ BeginCleanup(t)
      <3>1. UNCHANGED <<ctxMap, ctxCounter, latestCtx, sessions>>
        BY <2>3 DEF Closes, BeginCleanup, Local, bridge, contextMaps
      <3> QED BY <3>1, RenumberedBy
    <2> QED BY <2>1, <2>2, <2>3 DEF CleanupStep
  <1> QED BY <1>1, <1>2, <1>4, WorldsElsewhere

LEMMA WorldsReader ==
    ASSUME Typed, Cleaning, Worldly, ReaderStep
    PROVE  Worldly'
  <1>1. CASE CleanupStep(Reader)
    BY <1>1, WorldsCleanup, ThreadFacts
  <1>2. CASE Notes
    BY <1>2, WorldsNoted
  <1>3. CASE TakeReply \/ TakeDetached \/ TakeContextDestroyed
    BY <1>3, WorldsAnswered
  <1>4. CASE TakeContextCreated
    BY <1>4, WorldsCreated
  <1>5. CASE /\ \/ StoreContext \/ StoreLatest \/ StoreUnique
                \/ ReadIsolatedWorlds \/ AnnounceWorld \/ WorldsAnnounced
                \/ DropContext
             /\ UNCHANGED <<isBiDi, cleaned, sessions, browser, isolatedWorlds>>
    BY <1>5, WorldsLearned, WorldsRead, WorldsTold
  <1> QED BY <1>1, <1>2, <1>3, <1>4, <1>5 DEF ReaderStep, Notes

LEMMA WorldsKept == Typed /\ Owners /\ Cleaning /\ Worldly /\ [Next]_vars => Worldly'
  <1> SUFFICES ASSUME Typed, Owners, Cleaning, Worldly, [Next]_vars PROVE Worldly'
    OBVIOUS
  <1>1. ASSUME Renumbered, pc'[Reader] = pc[Reader],
               UNCHANGED <<queue, browser, isBiDi, reEmitted, ev, sessions, cleaned, latestCtx>>
        PROVE  Worldly'
    BY <1>1, WorldsElsewhere
  <1>2. CASE ReaderStep
    BY <1>2, WorldsReader
  <1>3. ASSUME NEW p \in Pages, HandlerStep(p) PROVE Worldly'
    <2>1. CASE Commanded(p)
      <3>1. pc'[Reader] = pc[Reader]
        BY <2>1, ThreadFacts DEF Commanded, Proceeds, Typed, Goroutines
      <3>2. Renumbered
        BY <2>1, RenumberedBy DEF Commanded, Numbers
      <3> QED BY <1>1, <2>1, <3>1, <3>2 DEF Commanded
    <2> QED BY <1>3, <2>1, Commands, WorldsCleanup, ThreadFacts
  <1>4. ASSUME NEW p \in Pages, EnableStores(p) PROVE Worldly'
    <2>1. ctxCounter' = ctxCounter + 1 /\ \E e : ctxMap' = With(ctxMap, ctxCounter + 1, e)
      BY <1>4 DEF EnableStores, NextCtxID
    <2>2. Renumbered
      BY <2>1, RenumberedBy
    <2> QED BY <1>1, <1>4, <2>2 DEF EnableStores
  <1>5. CASE (\E p \in Pages : BrowserStep(p)) \/ (\E t \in Threads : BrowserServes(t))
    <2>1. Typed'
      BY TypedNext
    <2> QED BY <1>5, <2>1, WorldsBrowser
  <1>6. ASSUME NEW p \in Pages, CleanupStep(Closer(p)) PROVE Worldly'
    BY <1>6, WorldsCleanup, ThreadFacts
  <1>7. CASE UNCHANGED vars
    <2>1. UNCHANGED <<bridge, browser, queue, pc, ev, reEmitted>>
      BY <1>7 DEF vars
    <2>2. UNCHANGED <<ctxMap, ctxCounter, sessions, cleaned, latestCtx, isBiDi>>
      BY <2>1 DEF bridge
    <2> QED BY <1>1, <2>1, <2>2, RenumberedBy
  <1> QED BY <1>2, <1>3, <1>4, <1>5, <1>6, <1>7 DEF Next

------------------------------------------------------------------------------
(* What the browser writes about frames.                                    *)

Framing(p) == {e \in Of(p) : e.kind \in FrameKinds \cup {"attached"}}

LEMMA FramingFacts ==
    ASSUME NEW p \in Pages
    PROVE  /\ Attaches(p) \subseteq Framing(p) /\ Turns(p) \subseteq Framing(p) /\ Framing(p) \subseteq Of(p)
           /\ \A f : /\ Names(p, f) \subseteq Framing(p) /\ Moves(p, f) \subseteq Framing(p)
                     /\ Comes(p, f) \subseteq Framing(p) /\ Leaves(p, f) \subseteq Framing(p)
           /\ Parting(p) \cap Framing(p) = {}
           /\ \A q \in Pages : q # p => Of(q) \cap Framing(p) = {}
           /\ \A t : Answers(t) \cap Framing(p) = {}
  <1>1. Framing(p) \subseteq Of(p)
    BY DEF Framing
  <1>2. Attaches(p) \subseteq Framing(p) /\ Turns(p) \subseteq Framing(p)
    BY DEF Framing, Attaches, Turns
  <1>3. \A f : /\ Names(p, f) \subseteq Framing(p) /\ Moves(p, f) \subseteq Framing(p)
               /\ Comes(p, f) \subseteq Framing(p) /\ Leaves(p, f) \subseteq Framing(p)
    BY DEF Framing, Names, Moves, Comes, Leaves, FrameKinds
  <1> QED BY <1>1, <1>2, <1>3, PartingFacts, Kept DEF Framing

\* The kinds of events are apart.
LEMMA FrameEvents ==
    ASSUME NEW p \in Pages, NEW e \in Of(p)
    PROVE  /\ e \in Attaches(p) <=> e.kind = "attached"
           /\ e \in Makes(p) <=> e.kind = "created"
           /\ e \in Turns(p) <=> e.kind \in FrameKinds /\ e.frame \in Mains
           /\ \A f : /\ e \in Moves(p, f) <=> e.kind \in {"started", "committed"} /\ e.frame = f
                     /\ e \in Comes(p, f) <=> e.kind = "frameAttached" /\ e.frame = f
                     /\ e \in Leaves(p, f) <=> e.kind = "frameDetached" /\ e.frame = f
                     /\ e \in Names(p, f) <=> e \in Comes(p, f) \/ e \in Moves(p, f)
                     /\ e \in MadeIn(p, f) <=> e.kind = "created" /\ e.frame = f
  BY DEF Attaches, Makes, Turns, Moves, Comes, Leaves, Names, MadeIn

\* The fields of the browser's writes.
LEMMA EventFacts ==
    ASSUME NEW p \in Pages
    PROVE  /\ \A k \in FrameKinds, f \in Frames :
                 /\ Event(k, p, f, NoCtx) \in Of(p)
                 /\ Event(k, p, f, NoCtx).kind = k /\ Event(k, p, f, NoCtx).frame = f
           /\ \A k \in PageKinds : Event(k, p, NoFrame, NoCtx) \in Of(p) /\ Event(k, p, NoFrame, NoCtx).kind = k
           /\ \A f \in Frames, n \in 1 .. MaxDocs :
                 LET e == Event("created", p, f, <<p, f, n>>)
                 IN  e \in Of(p) /\ e.kind = "created" /\ e.frame = f
  <1>1. \A k, f, c : Event(k, p, f, c).kind = k /\ Event(k, p, f, c).frame = f
    BY DEF Event
  <1>2. \A f \in Frames, n \in 1 .. MaxDocs : Event("created", p, f, <<p, f, n>>) \in Of(p)
    BY QuietFacts DEF MakesCtx, Makes
  <1> QED BY <1>1, <1>2, QuietFacts, Kept

\* The writes r tell all of what changes about the frames of page p.
Told(p, r) ==
    /\ Follows(r, Turns(p), Names(p, mainFrame'[p]))
    /\ mainFrame'[p] = mainFrame[p] \/ Has(r, Names(p, mainFrame'[p]))
    /\ IF page[p] = "new" /\ page'[p] # "new"
         THEN Has(r, Attaches(p)) /\ Once(r, Attaches(p)) /\ FirstIs(r, Makes(p), MadeIn(p, mainFrame'[p]))
         ELSE /\ ~Has(r, Attaches(p))
              /\ page'[p] = "new" => page[p] = "new" /\ ~Has(r, Of(p))
              /\ page'[p] = "live" => page[p] = "live"
    /\ \A s \in Subs :
          /\ Has(r, Moves(p, s)) => subs[p][s] = "there" /\ ~Has(r, Leaves(p, s))
          /\ subs'[p][s] = "there" => ~Has(r, Leaves(p, s)) /\ (subs[p][s] = "there" \/ Has(r, Comes(p, s)))

LEMMA FollowsSelf ==
    ASSUME NEW S, NEW r \in Seq(S), NEW E, NEW T, S \cap E \subseteq T
    PROVE  Follows(r, E, T)
  <1> SUFFICES ASSUME NEW i \in DOMAIN r, r[i] \in E PROVE \E j \in i .. Len(r) : r[j] \in T
    BY DEF Follows
  <1>1. r[i] \in S /\ i \in i .. Len(r)
    OBVIOUS
  <1> QED BY <1>1

LEMMA ToldNothing ==
    ASSUME NEW p \in Pages, NEW S, NEW r \in Seq(S), S \cap Framing(p) = {},
           mainFrame'[p] = mainFrame[p], subs'[p] = subs[p],
           \/ page'[p] = page[p] /\ (page[p] = "new" => S \cap Of(p) = {})
           \/ page[p] = "live" /\ page'[p] = "gone"
    PROVE  Told(p, r)
  <1>1. ~Has(r, Attaches(p)) /\ ~Has(r, Turns(p)) /\ \A s : ~Has(r, Moves(p, s)) /\ ~Has(r, Leaves(p, s))
    BY FramingFacts, HasNone
  <1>2. S \cap Of(p) = {} => ~Has(r, Of(p))
    BY HasNone
  <1>3. Follows(r, Turns(p), Names(p, mainFrame'[p]))
    BY <1>1 DEF Follows, Has
  <1> QED BY <1>1, <1>2, <1>3 DEF Told

LEMMA OpensTold ==
    ASSUME Typed, NEW p \in Pages, Opens(p)
    PROVE  \E r : queue' = queue \o r /\ r \in Seq(Of(p)) /\ Told(p, r)
  <1> DEFINE f        == mainFrame[p]
             a        == Event("attached", p, NoFrame, NoCtx)
             b        == Event("frameAttached", p, f, NoCtx)
             c        == Event("created", p, f, <<p, f, 1>>)
             S        == {a, b, c}
             attached == <<a>>
             frame    == <<b>>
             context  == <<c>>
             A        == Attaches(p)
             E        == Makes(p)
             T        == MadeIn(p, f)
             News4    == {attached \o context, (attached \o frame) \o context,
                          (frame \o context) \o attached, (frame \o attached) \o context}
  <1>1. f \in Frames /\ f \in Mains /\ 1 \in 1 .. MaxDocs
    BY ContextsAssumption DEF Typed, Browser, Frames
  <1>2. /\ page[p] = "new" /\ page'[p] = "live" /\ mainFrame' = mainFrame /\ subs' = subs
        /\ \E news \in News4 : queue' = queue \o news
    BY DEF Opens, Typed, Browser
  <1>3. /\ a \in Of(p) /\ a.kind = "attached" /\ b \in Of(p) /\ b.kind = "frameAttached" /\ b.frame = f
        /\ c \in Of(p) /\ c.kind = "created" /\ c.frame = f
    BY <1>1, EventFacts DEF FrameKinds, PageKinds
  <1> HIDE DEF a, b, c, f
  <1>4. /\ S \subseteq Of(p) /\ S \cap Turns(p) \subseteq Names(p, f)
        /\ a \in A /\ b \notin A /\ c \notin A /\ c \in T /\ a \notin E /\ b \notin E
        /\ \A s \in Subs : S \cap Moves(p, s) = {} /\ S \cap Leaves(p, s) = {}
    BY <1>3, FrameEvents DEF FrameKinds
  <1>5. /\ attached \in Seq(S) /\ Has(attached, A) /\ Once(attached, A) /\ ~Has(attached, E)
        /\ frame \in Seq(S) /\ ~Has(frame, A) /\ ~Has(frame, E)
        /\ context \in Seq(S) /\ ~Has(context, A) /\ FirstIs(context, E, T)
    <2>1. /\ attached \in Seq(S) /\ frame \in Seq(S) /\ context \in Seq(S)
          /\ Has(attached, A) /\ Once(attached, A) /\ ~Has(attached, E)
          /\ ~Has(frame, A) /\ ~Has(frame, E) /\ ~Has(context, A)
      BY <1>4, One, HasOne
    <2>2. DOMAIN context = 1 .. 1 /\ context[1] = c
      OBVIOUS
    <2>3. FirstIs(context, E, T)
      <3>1. 1 \in DOMAIN context /\ context[1] \in T /\ \A k \in 1 .. 1 - 1 : context[k] \notin E
        BY <1>4, <2>2
      <3> QED BY <3>1 DEF FirstIs
    <2> QED BY <2>1, <2>3
  <1> HIDE DEF attached, frame, context, S, A, E, T
  <1>6. ASSUME NEW s \in Seq(S), NEW u \in Seq(S)
        PROVE  /\ s \o u \in Seq(S)
               /\ Has(s \o u, A) <=> Has(s, A) \/ Has(u, A)
               /\ Has(s \o u, E) <=> Has(s, E) \/ Has(u, E)
               /\ Once(s, A) /\ ~Has(u, A) => Once(s \o u, A)
               /\ ~Has(s, A) /\ Once(u, A) => Once(s \o u, A)
               /\ FirstIs(s, E, T) => FirstIs(s \o u, E, T)
               /\ ~Has(s, E) /\ FirstIs(u, E, T) => FirstIs(s \o u, E, T)
    <2>1. \A x \in Seq(S) : ~Has(x, A) => Once(x, A)
      BY DEF Has, Once
    <2> QED BY <2>1, Joined, HasJoined, OnceJoined, FirstJoined
  <1> DEFINE Good(r) == r \in Seq(S) /\ Has(r, A) /\ Once(r, A) /\ FirstIs(r, E, T)
  <1>7. Good(attached \o context)
    BY <1>5, <1>6
  <1>8. Good((attached \o frame) \o context)
    <2>1. attached \o frame \in Seq(S) /\ Has(attached \o frame, A) /\ Once(attached \o frame, A)
          /\ ~Has(attached \o frame, E)
      BY <1>5, <1>6
    <2> QED BY <1>5, <1>6, <2>1
  <1>9. Good((frame \o context) \o attached)
    <2>1. frame \o context \in Seq(S) /\ ~Has(frame \o context, A) /\ FirstIs(frame \o context, E, T)
      BY <1>5, <1>6
    <2> QED BY <1>5, <1>6, <2>1
  <1>10. Good((frame \o attached) \o context)
    <2>1. frame \o attached \in Seq(S) /\ Has(frame \o attached, A) /\ Once(frame \o attached, A)
          /\ ~Has(frame \o attached, E)
      BY <1>5, <1>6
    <2> QED BY <1>5, <1>6, <2>1
  <1>11. PICK r : queue' = queue \o r /\ Good(r)
    BY <1>2, <1>7, <1>8, <1>9, <1>10
  <1>12. r \in Seq(Of(p)) /\ Follows(r, Turns(p), Names(p, f))
         /\ \A s \in Subs : ~Has(r, Moves(p, s)) /\ ~Has(r, Leaves(p, s))
    <2>1. r \in Seq(S)
      BY <1>11
    <2>2. S \subseteq Of(p) /\ S \cap Turns(p) \subseteq Names(p, f)
          /\ \A s \in Subs : S \cap Moves(p, s) = {} /\ S \cap Leaves(p, s) = {}
      BY <1>4 DEF S
    <2> QED BY <2>1, <2>2, SeqWider, FollowsSelf, HasNone
  <1>13. \A s \in Subs : subs'[p][s] = "there" => subs[p][s] = "there"
    BY <1>2
  <1>14. mainFrame'[p] = f /\ mainFrame[p] = f
    BY <1>2 DEF f
  <1>15. Has(r, Attaches(p)) /\ Once(r, Attaches(p)) /\ FirstIs(r, Makes(p), MadeIn(p, f))
    BY <1>11 DEF A, E, T
  <1>16. Told(p, r)
    BY <1>2, <1>12, <1>13, <1>14, <1>15 DEF Told
  <1> QED BY <1>11, <1>12, <1>16

LEMMA CommitsTold ==
    ASSUME Typed, NEW p \in Pages, Commits(p)
    PROVE  \E r : queue' = queue \o r /\ r \in Seq(Of(p)) /\ Told(p, r)
  <1>1. PICK f \in IF isBiDi THEN {mainFrame[p]} ELSE Mains, told \in BOOLEAN, early \in BOOLEAN :
          LET c == <<p, f, docs[p] + 1>>
              old == SetToSeq({s \in Subs : subs[p][s] = "there"})
              frames == (IF told /\ f # mainFrame[p]
                           THEN <<Event("frameDetached", p, mainFrame[p], NoCtx),
                                  Event("frameAttached", p, f, NoCtx)>>
                           ELSE <<>>)
                        \o [i \in DOMAIN old |-> Event("frameDetached", p, old[i], NoCtx)]
              committed == <<Event("committed", p, f, NoCtx)>>
              created   == <<Event("created", p, f, c)>>
              news == IF isBiDi THEN Destroyed(p) \o created
                      ELSE frames \o <<Event("started", p, f, NoCtx)>> \o Destroyed(p)
                           \o <<Event("cleared", p, NoFrame, NoCtx)>>
                           \o (IF early THEN created \o committed ELSE committed \o created)
          IN  /\ mainFrame' = [mainFrame EXCEPT ![p] = f]
              /\ queue' = queue \o news
    BY DEF Commits
  <1> DEFINE c == <<p, f, docs[p] + 1>>
             V == {s \in Subs : subs[p][s] = "there"}
             old == SetToSeq(V)
             swap == IF told /\ f # mainFrame[p]
                       THEN <<Event("frameDetached", p, mainFrame[p], NoCtx),
                              Event("frameAttached", p, f, NoCtx)>>
                       ELSE <<>>
             left == [i \in DOMAIN old |-> Event("frameDetached", p, old[i], NoCtx)]
             started   == <<Event("started", p, f, NoCtx)>>
             cleared   == <<Event("cleared", p, NoFrame, NoCtx)>>
             committed == <<Event("committed", p, f, NoCtx)>>
             created   == <<Event("created", p, f, c)>>
             before == (((swap \o left) \o started) \o Destroyed(p)) \o cleared
             d == Destroyed(p)
             S == {e \in Of(p) : e \notin Attaches(p) /\ \A s \in Subs : e \notin Moves(p, s)}
  <1>2. /\ mainFrame' = [mainFrame EXCEPT ![p] = f]
        /\ queue' = queue \o (IF isBiDi THEN d \o created
                              ELSE before \o (IF early THEN created \o committed ELSE committed \o created))
    BY <1>1
  <1>3. f \in Mains /\ mainFrame[p] \in Mains /\ docs[p] + 1 \in 1 .. MaxDocs
    <2>1. mainFrame[p] \in Mains /\ docs[p] \in 0 .. MaxDocs /\ MaxDocs \in Nat
      BY ContextsAssumption DEF Typed, Browser
    <2>2. docs[p] < MaxDocs
      BY DEF Commits
    <2> QED BY <2>1, <2>2
  <1>4. Mains \subseteq Frames /\ Subs \subseteq Frames /\ \A s \in Subs : s \notin Mains
    BY ContextsAssumption DEF Frames
  <1>5. /\ \A k \in FrameKinds, g \in Mains : Event(k, p, g, NoCtx) \in S
        /\ \A g \in Frames : Event("frameDetached", p, g, NoCtx) \in S
        /\ Event("cleared", p, NoFrame, NoCtx) \in S
        /\ \A g \in Frames, n \in 1 .. MaxDocs : Event("created", p, g, <<p, g, n>>) \in S
    <2>1. ASSUME NEW e \in Of(p), e.kind # "attached", e.kind \in {"started", "committed"} => e.frame \in Mains
          PROVE  e \in S
      BY <1>4, <2>1, FrameEvents
    <2>2. \A k \in FrameKinds : k # "attached"
      BY DEF FrameKinds
    <2> HIDE DEF S
    <2> QED BY <1>4, <2>1, <2>2, EventFacts DEF FrameKinds, PageKinds
  <1>6. Event("committed", p, f, NoCtx) \in Names(p, f)
        /\ Event("created", p, f, c) \notin Turns(p)
    BY <1>3, <1>4, EventFacts, FrameEvents DEF FrameKinds
  <1>7. Parting(p) \subseteq S
    BY PartingFacts, FramingFacts
  <1>8. S \subseteq Of(p) /\ S \cap Attaches(p) = {} /\ \A s \in Subs : S \cap Moves(p, s) = {}
    OBVIOUS
  <1> HIDE DEF S
  <1>9. /\ created \in Seq(S) /\ started \in Seq(S) /\ cleared \in Seq(S) /\ committed \in Seq(S)
    BY <1>3, <1>4, <1>5, One DEF FrameKinds
  <1>10. swap \in Seq(S)
    BY <1>3, <1>4, <1>5 DEF FrameKinds
  <1>11. left \in Seq(S)
    <2>1. IsFiniteSet(V)
      <3>1. V \subseteq Subs /\ IsFiniteSet(Subs)
        BY ContextsAssumption
      <3> QED BY <3>1, FS_Subset
    <2>2. old \in [1 .. Cardinality(V) -> V] /\ Cardinality(V) \in Nat
      BY <2>1, Listed
    <2>3. \A s \in V : Event("frameDetached", p, s, NoCtx) \in S
      BY <1>4, <1>5
    <2> HIDE DEF old, V
    <2>4. left \in [1 .. Cardinality(V) -> S]
      BY <2>2, <2>3
    <2> HIDE DEF left
    <2> QED BY <2>2, <2>4, Mapped
  <1>12. d \in Seq(S)
    <2>1. d \in Seq(Ends(p)) /\ Ends(p) \subseteq S
      BY <1>7, DestroyedQuiet DEF Parting
    <2> HIDE DEF d
    <2> QED BY <2>1, SeqWider
  <1> DEFINE N == Names(p, f)
             Good(r) == r \in Seq(S) /\ Has(r, N) /\ Follows(r, Turns(p), N)
             Bare(r) == r \in Seq(S) /\ ~Has(r, Turns(p))
  <1>13. Good(committed) /\ Bare(created)
    <2>1. DOMAIN committed = 1 .. 1 /\ committed[1] = Event("committed", p, f, NoCtx) /\ Len(committed) = 1
      OBVIOUS
    <2>2. Has(committed, N) /\ Follows(committed, Turns(p), N)
      <3> HIDE DEF committed
      <3> QED BY <1>6, <2>1 DEF Has, Follows
    <2>3. ~Has(created, Turns(p))
      BY <1>6, HasOne
    <2> QED BY <1>9, <2>2, <2>3
  <1> HIDE DEF c, swap, left, started, cleared, committed, created, d, N
  <1>14. ASSUME NEW s \in Seq(S), NEW u \in Seq(S)
         PROVE  /\ s \o u \in Seq(S)
                /\ Good(u) => Good(s \o u)
                /\ Good(s) /\ Bare(u) => Good(s \o u)
    <2>1. s \o u \in Seq(S) /\ (Has(s \o u, N) <=> Has(s, N) \/ Has(u, N))
      BY Joined, HasJoined
    <2>2. ASSUME Good(u) PROVE Follows(s \o u, Turns(p), N)
      <3>1. Follows(s, Turns(p), Turns(p))
        BY FollowsSelf
      <3> QED BY <2>2, <3>1, FollowsJoined
    <2>3. ASSUME Good(s), Bare(u) PROVE Follows(s \o u, Turns(p), N)
      <3>1. Follows(u, Turns(p), N)
        BY <2>3 DEF Follows, Has
      <3> QED BY <2>3, <3>1, FollowsJoined
    <2> QED BY <2>1, <2>2, <2>3
  <1>15. before \in Seq(S)
    <2>1. swap \o left \in Seq(S)
      BY <1>10, <1>11, <1>14
    <2>2. (swap \o left) \o started \in Seq(S)
      BY <1>9, <2>1, <1>14
    <2>3. ((swap \o left) \o started) \o d \in Seq(S)
      BY <1>12, <2>2, <1>14
    <2> QED BY <1>9, <2>3, <1>14 DEF d
  <1> HIDE DEF before
  <1>16. Good(created \o committed) /\ Good(committed \o created)
    BY <1>9, <1>13, <1>14
  <1>17. Bare(d \o created)
    <2>1. Bare(d)
      <3>1. Ends(p) \cap Turns(p) = {} /\ d \in Seq(Ends(p))
        BY DestroyedQuiet, FramingFacts DEF Parting, d
      <3> QED BY <1>12, <3>1, HasNone
    <2> QED BY <1>9, <1>13, <2>1, Joined, HasJoined
  <1>18. Good(before \o (committed \o created)) /\ Good(before \o (created \o committed))
    BY <1>14, <1>15, <1>16
  <1> HIDE DEF Good, Bare
  <1>19. PICK r : queue' = queue \o r /\ (Good(r) \/ (isBiDi /\ Bare(r)))
    BY <1>2, <1>17, <1>18
  <1>20. /\ r \in Seq(S) /\ Follows(r, Turns(p), Names(p, f))
         /\ f = mainFrame[p] \/ Has(r, Names(p, f))
    <2>1. CASE Good(r)
      BY <2>1 DEF Good, N
    <2>2. CASE isBiDi /\ Bare(r)
      <3>1. f = mainFrame[p]
        BY <1>1, <2>2
      <3> QED BY <2>2, <3>1 DEF Bare, Follows, Has
    <2> QED BY <1>19, <2>1, <2>2
  <1>21. r \in Seq(Of(p)) /\ ~Has(r, Attaches(p)) /\ \A s \in Subs : ~Has(r, Moves(p, s))
    BY <1>8, <1>20, SeqWider, HasNone
  <1>22. /\ mainFrame'[p] = f /\ page[p] = "live" /\ page' = page
         /\ \A s \in Subs : subs'[p][s] # "there"
    BY <1>2 DEF Commits, Typed, Browser
  <1>23. Told(p, r)
    BY <1>20, <1>21, <1>22 DEF Told
  <1> QED BY <1>19, <1>21, <1>23

LEMMA FramesTold ==
    ASSUME Typed, NEW p \in Pages, NEW s \in Subs,
           SubFrameAppears(p, s) \/ SubFrameNavigates(p, s) \/ SubFrameGoes(p, s)
    PROVE  \E r : queue' = queue \o r /\ r \in Seq(Of(p)) /\ Told(p, r)
  <1> DEFINE c == <<p, s, docs[p]>>
  <1>1. page[p] = "live"
    BY DEF SubFrameAppears, SubFrameNavigates, SubFrameGoes
  <1>2. s \in Frames /\ s \notin Mains /\ docs[p] \in 1 .. MaxDocs /\ s \in AnyFrame /\ c \in AllCtx /\ c[1] = p
    <2>1. s \in Frames /\ s \notin Mains /\ docs[p] \in 1 .. MaxDocs /\ s \in AnyFrame
      BY <1>1, ContextsAssumption DEF Typed, Browser, Frames, AnyFrame
    <2> QED BY <2>1, Written
  <1>3. UNCHANGED <<page, mainFrame>> /\ subs \in [Pages -> [Subs -> {"none", "there", "left"}]]
    BY DEF SubFrameAppears, SubFrameNavigates, SubFrameGoes, browser, Typed, Browser
  \* Two writes that concern no main frame.
  <1>4. ASSUME NEW a \in Of(p), NEW e \in Of(p), a \notin Framing(p) \/ a.frame = s, e \notin Framing(p) \/ e.frame = s,
               a \notin Attaches(p), e \notin Attaches(p)
        PROVE  \E r : /\ r = <<a, e>> /\ r \in Seq(Of(p))
                      /\ ~Has(r, Attaches(p)) /\ ~Has(r, Turns(p)) /\ Follows(r, Turns(p), Names(p, mainFrame[p]))
                      /\ \A T : Has(r, T) <=> a \in T \/ e \in T
                      /\ \A x \in Subs : x # s => ~Has(r, Moves(p, x)) /\ ~Has(r, Leaves(p, x))
    <2> DEFINE r == <<a, e>>
    <2>1. r \in Seq(Of(p)) /\ DOMAIN r = 1 .. 2 /\ r[1] = a /\ r[2] = e
      OBVIOUS
    <2> HIDE DEF r
    <2>2. \A T : Has(r, T) <=> a \in T \/ e \in T
      BY <2>1 DEF Has
    <2>3. a \notin Turns(p) /\ e \notin Turns(p)
      BY <1>2, <1>4, FrameEvents, FramingFacts
    <2>4. \A x \in Subs : x # s => /\ a \notin Moves(p, x) /\ e \notin Moves(p, x)
                                   /\ a \notin Leaves(p, x) /\ e \notin Leaves(p, x)
      BY <1>4, FrameEvents, FramingFacts
    <2>5. ~Has(r, Turns(p))
      BY <2>2, <2>3
    <2>6. Follows(r, Turns(p), Names(p, mainFrame[p]))
      BY <2>5 DEF Follows, Has
    <2> QED BY <1>4, <2>1, <2>2, <2>4, <2>5, <2>6
  <1>5. CASE SubFrameAppears(p, s)
    <2> DEFINE a == Event("frameAttached", p, s, NoCtx)
               e == Event("created", p, s, c)
    <2>1. queue' = queue \o <<a, e>> /\ subs' = [subs EXCEPT ![p][s] = "there"]
      BY <1>5 DEF SubFrameAppears
    <2>2. a \in Of(p) /\ a.kind = "frameAttached" /\ a.frame = s /\ e \in Of(p) /\ e.kind = "created" /\ e.frame = s
      BY <1>2, EventFacts DEF FrameKinds
    <2> HIDE DEF a, e
    <2>3. /\ a \notin Attaches(p) /\ e \notin Attaches(p) /\ a \in Comes(p, s)
          /\ a \notin Moves(p, s) /\ e \notin Moves(p, s) /\ a \notin Leaves(p, s) /\ e \notin Leaves(p, s)
      BY <2>2, FrameEvents
    <2>4. PICK r : /\ r = <<a, e>> /\ r \in Seq(Of(p))
                   /\ ~Has(r, Attaches(p)) /\ ~Has(r, Turns(p)) /\ Follows(r, Turns(p), Names(p, mainFrame[p]))
                   /\ \A T : Has(r, T) <=> a \in T \/ e \in T
                   /\ \A x \in Subs : x # s => ~Has(r, Moves(p, x)) /\ ~Has(r, Leaves(p, x))
      BY <2>2, <2>3, <1>4
    <2>5. Has(r, Comes(p, s)) /\ ~Has(r, Moves(p, s)) /\ ~Has(r, Leaves(p, s))
      BY <2>3, <2>4
    <2>6. \A x \in Subs : x # s => subs'[p][x] = subs[p][x]
      BY <1>3, <2>1
    <2>7. Told(p, r)
      BY <1>1, <1>3, <2>4, <2>5, <2>6 DEF Told
    <2> QED BY <2>1, <2>4, <2>7
  <1>6. CASE SubFrameNavigates(p, s)
    <2> DEFINE a == Event("started", p, s, NoCtx)
               e == Event("committed", p, s, NoCtx)
    <2>1. queue' = queue \o <<a, e>> /\ subs' = subs /\ subs[p][s] = "there"
      BY <1>6 DEF SubFrameNavigates, browser
    <2>2. a \in Of(p) /\ a.kind = "started" /\ a.frame = s /\ e \in Of(p) /\ e.kind = "committed" /\ e.frame = s
      BY <1>2, EventFacts DEF FrameKinds
    <2> HIDE DEF a, e
    <2>3. /\ a \notin Attaches(p) /\ e \notin Attaches(p) /\ a \notin Leaves(p, s) /\ e \notin Leaves(p, s)
      BY <2>2, FrameEvents
    <2>4. PICK r : /\ r = <<a, e>> /\ r \in Seq(Of(p))
                   /\ ~Has(r, Attaches(p)) /\ ~Has(r, Turns(p)) /\ Follows(r, Turns(p), Names(p, mainFrame[p]))
                   /\ \A T : Has(r, T) <=> a \in T \/ e \in T
                   /\ \A x \in Subs : x # s => ~Has(r, Moves(p, x)) /\ ~Has(r, Leaves(p, x))
      BY <2>2, <2>3, <1>4
    <2>5. ~Has(r, Leaves(p, s))
      BY <2>3, <2>4
    <2>6. Told(p, r)
      BY <1>1, <1>3, <2>1, <2>4, <2>5 DEF Told
    <2> QED BY <2>1, <2>4, <2>6
  <1>7. CASE SubFrameGoes(p, s)
    <2> DEFINE a == Event("destroyed", p, s, c)
               e == Event("frameDetached", p, s, NoCtx)
    <2>1. queue' = queue \o <<a, e>> /\ subs' = [subs EXCEPT ![p][s] = "left"]
      BY <1>7 DEF SubFrameGoes
    <2>2. a \in Of(p) /\ a.kind = "destroyed" /\ a.frame = s /\ e \in Of(p) /\ e.kind = "frameDetached" /\ e.frame = s
      BY <1>2, EventFacts, QuietFacts, Kept DEF FrameKinds, Event
    <2> HIDE DEF a, e
    <2>3. /\ a \notin Attaches(p) /\ e \notin Attaches(p) /\ a \notin Moves(p, s) /\ e \notin Moves(p, s)
      BY <2>2, FrameEvents
    <2>4. PICK r : /\ r = <<a, e>> /\ r \in Seq(Of(p))
                   /\ ~Has(r, Attaches(p)) /\ ~Has(r, Turns(p)) /\ Follows(r, Turns(p), Names(p, mainFrame[p]))
                   /\ \A T : Has(r, T) <=> a \in T \/ e \in T
                   /\ \A x \in Subs : x # s => ~Has(r, Moves(p, x)) /\ ~Has(r, Leaves(p, x))
      BY <2>2, <2>3, <1>4
    <2>5. ~Has(r, Moves(p, s))
      BY <2>3, <2>4
    <2>6. subs'[p][s] = "left" /\ \A x \in Subs : x # s => subs'[p][x] = subs[p][x]
      BY <1>3, <2>1
    <2>7. Told(p, r)
      BY <1>1, <1>3, <2>4, <2>5, <2>6 DEF Told
    <2> QED BY <2>1, <2>4, <2>7
  <1> QED BY <1>5, <1>6, <1>7

LEMMA PageTold ==
    ASSUME Typed, NEW p \in Pages, BrowserStep(p)
    PROVE  \E r : queue' = queue \o r /\ r \in Seq(Of(p)) /\ Told(p, r)
  <1>1. CASE PageNavigates(p)
    <2> DEFINE r == <<>>
    <2>1. queue' = queue \o r /\ r \in Seq({}) /\ r \in Seq(Of(p)) /\ UNCHANGED <<page, mainFrame, subs>>
      BY <1>1 DEF PageNavigates, Typed, Browser
    <2> HIDE DEF r
    <2>2. Told(p, r)
      BY <2>1, ToldNothing
    <2> QED BY <2>1, <2>2
  <1>2. CASE ClosesItself(p)
    <2>1. /\ queue' = queue \o Detached(p) /\ page[p] = "live" /\ page'[p] = "gone"
          /\ UNCHANGED <<mainFrame, subs>>
      BY <1>2 DEF ClosesItself, Goes, Typed, Browser
    <2>2. Detached(p) \in Seq(Parting(p)) /\ Detached(p) \in Seq(Of(p)) /\ Parting(p) \cap Framing(p) = {}
      <3>1. Detached(p) \in Seq(Parting(p))
        BY DetachedParts
      <3> QED BY <3>1, PartingFacts, FramingFacts, SeqWider
    <2>3. PICK r : r = Detached(p)
      OBVIOUS
    <2>4. Told(p, r)
      BY <2>1, <2>2, <2>3, ToldNothing
    <2> QED BY <2>1, <2>2, <2>3, <2>4
  <1>3. CASE NavigationStarts(p)
    <2> DEFINE e == Event("committed", p, mainFrame[p], NoCtx)
               r == <<e>>
    <2>1. mainFrame[p] \in Mains /\ mainFrame[p] \in Frames /\ mainFrame[p] \notin Subs
      BY ContextsAssumption DEF Typed, Browser, Frames
    <2>2. e \in Of(p) /\ e.kind = "committed" /\ e.frame = mainFrame[p]
      BY <2>1, EventFacts DEF FrameKinds
    <2>3. queue' = Append(queue, e) /\ page[p] = "live" /\ UNCHANGED <<page, mainFrame, subs>>
      BY <1>3 DEF NavigationStarts
    <2> HIDE DEF e
    <2>4. queue' = queue \o r
      BY <2>3 DEF Typed, Browser
    <2>5. r \in Seq(Of(p)) /\ DOMAIN r = 1 .. 1 /\ Len(r) = 1 /\ r[1] = e
      BY <2>2
    <2> HIDE DEF r
    <2>6. \A T : Has(r, T) <=> e \in T
      BY <2>5 DEF Has
    <2>7. /\ e \notin Attaches(p) /\ e \in Names(p, mainFrame[p])
          /\ \A s \in Subs : e \notin Moves(p, s) /\ e \notin Leaves(p, s)
      BY <2>1, <2>2, FrameEvents
    <2>8. Follows(r, Turns(p), Names(p, mainFrame[p]))
      BY <2>5, <2>7 DEF Follows
    <2>9. Told(p, r)
      BY <2>3, <2>6, <2>7, <2>8 DEF Told
    <2> QED BY <2>4, <2>5, <2>9
  <1> QED BY <1>1, <1>2, <1>3, OpensTold, CommitsTold, FramesTold DEF BrowserStep

\* All the browser's writes tell what changes.
Tells(r) == queue' = queue \o r /\ r \in Seq(News) /\ \A p \in Pages : Told(p, r)

LEMMA BrowserTells ==
    ASSUME Typed, NEW o \in Pages, BrowserStep(o)
    PROVE  \E r : Tells(r)
  <1>1. PICK r : queue' = queue \o r /\ r \in Seq(Of(o)) /\ Told(o, r)
    BY PageTold
  <1>2. r \in Seq(News)
    BY <1>1, Kept, SeqWider
  <1>3. \A q \in Pages : q # o => page'[q] = page[q] /\ mainFrame'[q] = mainFrame[q] /\ subs'[q] = subs[q]
    <2>1. ASSUME NEW s \in Subs, SubFrameAppears(o, s) \/ SubFrameNavigates(o, s) \/ SubFrameGoes(o, s)
          PROVE  UNCHANGED <<page, mainFrame>> /\ \A q \in Pages : q # o => subs'[q] = subs[q]
      BY <2>1 DEF SubFrameAppears, SubFrameNavigates, SubFrameGoes, browser, Typed, Browser
    <2>2. CASE Opens(o)
      BY <2>2 DEF Opens, Typed, Browser
    <2>3. CASE Commits(o)
      BY <2>3 DEF Commits, Typed, Browser
    <2>4. CASE PageNavigates(o) \/ NavigationStarts(o)
      BY <2>4 DEF PageNavigates, NavigationStarts
    <2>5. CASE ClosesItself(o)
      BY <2>5 DEF ClosesItself, Goes, Typed, Browser
    <2> QED BY <2>1, <2>2, <2>3, <2>4, <2>5 DEF BrowserStep
  <1>4. ASSUME NEW q \in Pages, q # o PROVE Told(q, r)
    <2>1. Of(o) \cap Framing(q) = {} /\ Of(o) \cap Of(q) = {}
      BY <1>4, FramingFacts, Kept
    <2> QED BY <1>1, <1>3, <1>4, <2>1, ToldNothing
  <1> QED BY <1>1, <1>2, <1>4 DEF Tells

LEMMA ServesTells ==
    ASSUME Typed, NEW t \in Threads, BrowserServes(t)
    PROVE  \E r : Tells(r)
  <1>1. PICK r : Served(t, r)
    BY Serves
  <1> DEFINE o == t[2]
             S == Parting(o) \cup Answers(t)
  <1>2. o \in Pages /\ t \in Callers
    BY Serves, ThreadFacts
  <1>3. Parting(o) \subseteq Of(o) /\ Of(o) \subseteq News /\ Answers(t) \subseteq News
    BY <1>2, Kept, PartingFacts DEF Answers, News
  <1>4. queue' = queue \o r /\ r \in Seq(S) /\ r \in Seq(News)
    <2>1. queue' = queue \o r /\ r \in Seq(S) /\ S \subseteq News
      BY <1>1, <1>3 DEF Served
    <2> HIDE DEF S
    <2> QED BY <2>1, SeqWider
  <1>5. UNCHANGED <<mainFrame, subs>>
    BY Serves DEF Goes
  <1>6. ASSUME NEW q \in Pages PROVE Told(q, r)
    <2>1. Answers(t) \cap Framing(q) = {} /\ Answers(t) \cap Of(q) = {} /\ S \cap Framing(q) = {}
      BY <1>2, <1>3, FramingFacts, Kept
    <2>2. CASE page[o] = "live" /\ Goes(o)
      <3>1. page' = [page EXCEPT ![o] = "gone"]
        BY <2>2 DEF Goes
      <3>2. q # o => page'[q] = page[q] /\ S \cap Of(q) = {}
        <4>1. q # o => Of(o) \cap Of(q) = {}
          BY <1>2, Kept
        <4> QED BY <1>3, <2>1, <3>1, <4>1 DEF Typed, Browser
      <3>3. q = o => page[q] = "live" /\ page'[q] = "gone"
        BY <2>2, <3>1 DEF Typed, Browser
      <3> HIDE DEF S
      <3> QED BY <1>4, <1>5, <2>1, <3>2, <3>3, ToldNothing
    <2>3. CASE ~(page[o] = "live" /\ Goes(o))
      <3>1. r \in Seq(Answers(t)) /\ UNCHANGED page
        BY <1>1, <2>3, Serves DEF Served
      <3> QED BY <1>5, <2>1, <3>1, ToldNothing
    <2> QED BY <2>2, <2>3
  <1> QED BY <1>4, <1>6 DEF Tells

------------------------------------------------------------------------------
(* Frames: the browser's writes.                                            *)

LEMMA SubsWritten ==
    ASSUME Typed, NEW p \in Pages, SubsKnown(p), NEW r, Tells(r), UNCHANGED bridge
    PROVE  SubsKnown(p)'
  <1> DEFINE On(s)  == Comes(p, s)
             Off(s) == Leaves(p, s)
             b(s)   == s \in subFrames[p]
  <1>1. queue \in Seq(News) /\ r \in Seq(News) /\ queue' = queue \o r /\ Told(p, r)
    BY DEF Typed, Browser, Tells
  <1>2. queue' \in Seq(News) /\ Len(queue') = Len(queue) + Len(r) /\ Len(queue) \in Nat /\ Len(r) \in Nat
        /\ DOMAIN queue = 1 .. Len(queue)
    BY <1>1, Joined
  <1>3. \A s : \A i \in 1 .. Len(queue) + 1 :
           HoldsAt(queue, b(s), On(s), Off(s), i) => HoldsAt(queue', b(s), On(s), Off(s), i)
    BY <1>1, HoldsJoined
  \* What holds at the end of the queue holds on while the frame does not leave.
  <1>4. ASSUME NEW s \in Subs, KnownAt(p, s, Len(queue) + 1), ~Has(r, Off(s)),
               NEW l \in Len(queue) + 1 .. Len(queue') + 1
        PROVE  HoldsAt(queue', b(s), On(s), Off(s), l)
    <2>1. HoldsAt(queue', b(s), On(s), Off(s), Len(queue) + 1)
      BY <1>2, <1>3, <1>4 DEF KnownAt
    <2>2. \A k \in Len(queue) + 1 .. l - 1 : queue'[k] \notin Off(s)
      <3> TAKE k \in Len(queue) + 1 .. l - 1
      <3>1. k \in DOMAIN queue' /\ k \notin DOMAIN queue
        BY <1>1, <1>2, Joined
      <3> QED BY <1>1, <1>4, <3>1, Joined DEF Has
    <2>3. Len(queue) + 1 \in 1 .. Len(queue') + 1
      BY <1>2
    <2> HIDE DEF On, Off, b
    <2> QED BY <1>2, <2>1, <2>2, <2>3, HoldsLater
  <1>5. ASSUME NEW s \in Subs, NEW i \in DOMAIN queue', queue'[i] \in Moves(p, s)
        PROVE  HoldsAt(queue', b(s), On(s), Off(s), i)
    <2>1. CASE i \in DOMAIN queue
      <3>1. queue[i] \in Moves(p, s) /\ i \in 1 .. Len(queue) + 1
        BY <1>1, <1>2, <1>5, <2>1, Joined
      <3> QED BY <1>3, <2>1, <3>1 DEF SubsKnown, KnownAt
    <2>2. CASE i \notin DOMAIN queue
      <3>1. Has(r, Moves(p, s)) /\ i \in Len(queue) + 1 .. Len(queue') + 1
        BY <1>1, <1>2, <1>5, <2>2, Joined DEF Has
      <3>2. subs[p][s] = "there" /\ ~Has(r, Off(s))
        BY <1>1, <3>1 DEF Told
      <3> QED BY <1>4, <3>1, <3>2 DEF SubsKnown
    <2> QED BY <2>1, <2>2
  <1>6. ASSUME NEW s \in Subs, subs'[p][s] = "there"
        PROVE  HoldsAt(queue', b(s), On(s), Off(s), Len(queue') + 1)
    <2>1. ~Has(r, Off(s)) /\ (subs[p][s] = "there" \/ Has(r, On(s)))
      BY <1>1, <1>6 DEF Told
    <2>2. CASE subs[p][s] = "there"
      <3>1. KnownAt(p, s, Len(queue) + 1)
        BY <2>2 DEF SubsKnown
      <3>2. Len(queue') + 1 \in Len(queue) + 1 .. Len(queue') + 1
        BY <1>2
      <3> HIDE DEF On, Off, b
      <3> QED BY <1>4, <2>1, <3>1, <3>2
    <2>3. CASE Has(r, On(s))
      <3> HIDE DEF On, Off, b
      <3> QED BY <1>1, <2>1, <2>3, HoldsCome
    <2> QED BY <2>1, <2>2, <2>3
  <1>7. UNCHANGED subFrames
    BY DEF bridge
  <1> QED BY <1>5, <1>6, <1>7 DEF SubsKnown, KnownAt

LEMMA MainWritten ==
    ASSUME Typed, NEW p \in Pages, Unborn(p), page[p] = "live" => MainNoted(p), page'[p] = "live",
           NEW r, Tells(r), UNCHANGED bridge
    PROVE  MainNoted(p)'
  <1> DEFINE f == mainFrame[p]
             g == mainFrame'[p]
             A == Attaches(p)
             E == Makes(p)
  <1>1. queue \in Seq(News) /\ r \in Seq(News) /\ queue' = queue \o r /\ Told(p, r)
        /\ UNCHANGED <<sessions, frameID, pendingFrameIDs>>
    BY DEF Typed, Browser, Tells, bridge
  <1>2. CASE page[p] # "live"
    <2>1. page[p] = "new" /\ Has(r, A) /\ FirstIs(r, E, MadeIn(p, g))
      BY <1>1, <1>2 DEF Told
    <2>2. p \notin sessions /\ pendingFrameIDs[p] = NoFrame /\ ~Has(queue, E)
      BY <2>1 DEF Unborn, Has, Makes
    <2>3. Has(queue', A) /\ FirstIs(queue', E, MadeIn(p, g))
      BY <1>1, <2>1, <2>2, HasJoined, FirstJoined
    <2> QED BY <1>1, <2>2, <2>3 DEF MainNoted, Noted
  <1>3. CASE page[p] = "live" /\ g = f
    <2>1. \A x : Noted(p, x) => Noted(p, x)'
      BY <1>1, <1>3, FirstJoined DEF Noted
    <2>2. /\ Has(queue, Names(p, f)) => Has(queue', Names(p, f))
          /\ HasAfter(queue, A, Names(p, f)) => HasAfter(queue', A, Names(p, f))
          /\ Has(queue, A) => Has(queue', A)
      BY <1>1, HasJoined, AfterJoined
    <2>3. Noted(p, frameID[p]) => Noted(p, frameID[p])'
      BY <1>1, <1>3, FirstJoined DEF Noted
    <2>4. Noted(p, pendingFrameIDs[p]) => Noted(p, pendingFrameIDs[p])'
      BY <1>1, <1>3, FirstJoined DEF Noted
    <2> QED BY <1>1, <1>3, <2>2, <2>3, <2>4 DEF MainNoted
  <1>4. CASE page[p] = "live" /\ g # f
    <2>1. Has(r, Names(p, g))
      BY <1>1, <1>4 DEF Told
    <2>2. CASE p \in sessions
      <3>1. Has(queue', Names(p, g))
        BY <1>1, <2>1, HasJoined
      <3> QED BY <1>1, <2>2, <3>1 DEF MainNoted
    <2>3. CASE p \notin sessions
      <3>1. Has(queue, A)
        BY <1>4, <2>3 DEF MainNoted, HasAfter, Has
      <3>2. HasAfter(queue', A, Names(p, g))
        BY <1>1, <2>1, <3>1, AfterJoined
      <3> QED BY <1>1, <2>3, <3>2 DEF MainNoted
    <2> QED BY <2>2, <2>3
  <1> QED BY <1>2, <1>3, <1>4

LEMMA FramesWritten ==
    ASSUME Typed, NEW p \in Pages, FramesKnown(p), NEW r, Tells(r), UNCHANGED <<bridge, pc, ev>>
    PROVE  FramesKnown(p)'
  <1>1. queue \in Seq(News) /\ r \in Seq(News) /\ queue' = queue \o r /\ Told(p, r)
        /\ UNCHANGED <<sessions, cleaned, pendingFrameIDs>>
    BY DEF Typed, Browser, Tells, bridge
  <1>2. LastNamed(p)'
    <2> DEFINE T == Names(p, mainFrame'[p])
               U == Names(p, mainFrame[p])
    <2>1. Follows(r, Turns(p), T) /\ Follows(queue, Turns(p), U) /\ (U = T \/ Has(r, T))
      BY <1>1 DEF Told, FramesKnown, LastNamed
    <2> HIDE DEF T, U
    <2>2. Follows(queue', Turns(p), T)
      BY <1>1, <2>1, FollowsJoined
    <2> QED BY <2>2 DEF LastNamed, T
  <1>3. Unborn(p)'
    <2>1. Unborn(p) /\ Attaches(p) \subseteq Of(p)
      BY DEF FramesKnown, Attaches
    <2>2. page'[p] = "new" => page[p] = "new" /\ ~Has(queue', Of(p))
      BY <1>1, <2>1, HasJoined DEF Told, Unborn
    <2>3. Once(r, Attaches(p)) /\ (Has(r, Attaches(p)) => page[p] = "new" /\ ~Has(queue, Attaches(p)) /\ p \notin sessions)
      BY <1>1, <2>1 DEF Told, Unborn, Once, Has
    <2>4. Once(queue', Attaches(p)) /\ (Has(queue', Attaches(p)) => p \notin sessions)
      BY <1>1, <2>1, <2>3, OnceJoined, HasJoined DEF Unborn
    <2> QED BY <1>1, <2>1, <2>2, <2>4 DEF Unborn
  <1> QED BY <1>1, <1>2, <1>3, SubsWritten, MainWritten DEF FramesKnown

------------------------------------------------------------------------------
(* Frames: what the read loop takes.                                        *)

\* What becomes of a frame noted for page p, unless an event says which is the main frame.
Renotes(p, f, g) ==
    IF Head(queue) \in Makes(p) /\ f = NoFrame THEN g = Head(queue).frame ELSE g = f \/ f \in Subs

\* The caches follow the event.
MainFollows(p) ==
    /\ p \in sessions' <=> p \in sessions \/ Head(queue) \in Attaches(p)
    /\ Head(queue) \in Attaches(p) => frameID'[p] = pendingFrameIDs[p]
    /\ Head(queue) \notin Attaches(p) /\ p \in sessions =>
          /\ Head(queue) \in Names(p, mainFrame[p]) => frameID'[p] = mainFrame[p]
          /\ Head(queue) \notin Turns(p) => Renotes(p, frameID[p], frameID'[p])
    /\ Head(queue) \notin Attaches(p) /\ p \notin sessions => Renotes(p, pendingFrameIDs[p], pendingFrameIDs'[p])
SubsFollow(p) ==
    \A s \in Subs :
        Head(queue) \in Comes(p, s) \/ (s \in subFrames[p] /\ Head(queue) \notin Leaves(p, s)) => s \in subFrames'[p]

LEMMA NotedTaken ==
    ASSUME Typed, Takes, NEW p \in Pages, NEW f, NEW g, Noted(p, f), Renotes(p, f, g)
    PROVE  g = mainFrame[p] \/ (g = NoFrame /\ FirstIs(queue', Makes(p), MadeIn(p, mainFrame[p])))
  <1> DEFINE e == Head(queue)
             m == mainFrame[p]
  <1>1. queue \in Seq(News) /\ queue # <<>> /\ queue' = Tail(queue)
    BY DEF Typed, Browser, Takes
  <1>2. m \in Mains /\ m # NoFrame /\ m \notin Subs /\ NoFrame \notin Subs
    BY ContextsAssumption DEF Typed, Browser
  <1>3. CASE f = m
    BY <1>2, <1>3 DEF Renotes
  <1>4. CASE f = NoFrame /\ FirstIs(queue, Makes(p), MadeIn(p, m))
    <2>1. CASE e \in Makes(p)
      <3>1. e \in MadeIn(p, m)
        BY <1>1, <1>4, <2>1, FirstRest
      <3> QED BY <1>4, <2>1, <3>1 DEF Renotes, MadeIn
    <2>2. CASE e \notin Makes(p)
      <3>1. e \notin MadeIn(p, m)
        BY <2>2 DEF MadeIn
      <3>2. FirstIs(queue', Makes(p), MadeIn(p, m))
        BY <1>1, <1>4, <3>1, FirstRest
      <3> QED BY <1>2, <1>4, <2>2, <3>2 DEF Renotes
    <2> QED BY <2>1, <2>2
  <1> QED BY <1>3, <1>4 DEF Noted

LEMMA MainTaken ==
    ASSUME Typed, Takes, NEW p \in Pages, Unborn(p), LastNamed(p), MainNoted(p), MainFollows(p), UNCHANGED mainFrame
    PROVE  MainNoted(p)'
  <1> DEFINE e == Head(queue)
             m == mainFrame[p]
             A == Attaches(p)
             N == Names(p, m)
  <1>1. queue \in Seq(News) /\ queue # <<>> /\ queue' = Tail(queue)
    BY DEF Typed, Browser, Takes
  <1>2. /\ e \in Turns(p) /\ e \notin N => Has(queue', N)
        /\ Has(queue, N) /\ e \notin N => Has(queue', N)
        /\ Has(queue, A) /\ e \notin A => Has(queue', A)
        /\ HasAfter(queue, A, N) => Has(queue', N) /\ Has(queue, A)
        /\ HasAfter(queue, A, N) /\ e \notin A => HasAfter(queue', A, N)
        /\ e \in A => Has(queue, A)
    BY <1>1, FollowsRest, HasRest, AfterRest DEF LastNamed
  <1>3. A \cap Makes(p) = {} /\ N \subseteq Turns(p) /\ A \cap Turns(p) = {}
    <2>1. A \subseteq Of(p) /\ N \subseteq Of(p) /\ m \in Mains
      BY FramingFacts DEF Typed, Browser
    <2> QED BY <2>1, FrameEvents DEF FrameKinds
  <1>4. CASE e \in A
    <2>1. p \notin sessions /\ p \in sessions' /\ frameID'[p] = pendingFrameIDs[p]
      BY <1>2, <1>4 DEF Unborn, MainFollows
    <2>2. CASE HasAfter(queue, A, N)
      BY <1>2, <2>1, <2>2 DEF MainNoted
    <2>3. CASE Noted(p, pendingFrameIDs[p])
      <3>1. Renotes(p, pendingFrameIDs[p], pendingFrameIDs[p])
        BY <1>3, <1>4 DEF Renotes
      <3>2. frameID'[p] = m \/ (frameID'[p] = NoFrame /\ FirstIs(queue', Makes(p), MadeIn(p, m)))
        BY <2>1, <2>3, <3>1, NotedTaken
      <3> QED BY <2>1, <3>2 DEF MainNoted, Noted
    <2> QED BY <2>1, <2>2, <2>3 DEF MainNoted
  <1>5. CASE e \notin A /\ p \in sessions
    <2>1. p \in sessions'
      BY <1>5 DEF MainFollows
    <2>2. CASE e \in N
      BY <1>5, <2>1, <2>2 DEF MainFollows, MainNoted, Noted
    <2>3. CASE e \notin N /\ (e \in Turns(p) \/ Has(queue, N))
      BY <1>2, <2>1, <2>3 DEF MainNoted
    <2>4. CASE e \notin Turns(p) /\ Noted(p, frameID[p])
      <3>1. frameID'[p] = m \/ (frameID'[p] = NoFrame /\ FirstIs(queue', Makes(p), MadeIn(p, m)))
        BY <1>5, <2>4, NotedTaken DEF MainFollows
      <3> QED BY <2>1, <3>1 DEF MainNoted, Noted
    <2> QED BY <1>5, <2>2, <2>3, <2>4 DEF MainNoted
  <1>6. CASE e \notin A /\ p \notin sessions
    <2>1. p \notin sessions'
      BY <1>6 DEF MainFollows
    <2>2. CASE HasAfter(queue, A, N)
      BY <1>2, <1>6, <2>1, <2>2 DEF MainNoted
    <2>3. CASE Has(queue, A) /\ Noted(p, pendingFrameIDs[p])
      <3>1. pendingFrameIDs'[p] = m \/ (pendingFrameIDs'[p] = NoFrame /\ FirstIs(queue', Makes(p), MadeIn(p, m)))
        BY <1>6, <2>3, NotedTaken DEF MainFollows
      <3> QED BY <1>2, <1>6, <2>1, <2>3, <3>1 DEF MainNoted, Noted
    <2> QED BY <1>6, <2>2, <2>3 DEF MainNoted
  <1> QED BY <1>4, <1>5, <1>6

LEMMA SubsTaken ==
    ASSUME Typed, Takes, NEW p \in Pages, SubsKnown(p), SubsFollow(p), UNCHANGED subs
    PROVE  SubsKnown(p)'
  <1> DEFINE On(s)  == Comes(p, s)
             Off(s) == Leaves(p, s)
             b(s)   == s \in subFrames[p]
             c(s)   == s \in subFrames'[p]
  <1>1. queue \in Seq(News) /\ queue # <<>> /\ queue' = Tail(queue) /\ Len(queue) \in Nat \ {0}
        /\ Len(queue') + 1 = Len(queue)
    <2>1. queue \in Seq(News) /\ queue # <<>> /\ queue' = Tail(queue)
      BY DEF Typed, Browser, Takes
    <2> QED BY <2>1, Rest
  <1>2. ASSUME NEW s \in Subs, NEW i \in 1 .. Len(queue), KnownAt(p, s, i + 1)
        PROVE  HoldsAt(queue', c(s), On(s), Off(s), i)
    <2>1. On(s) \cap Off(s) = {}
      BY DEF Comes, Leaves
    <2>2. (Head(queue) \in On(s) => c(s)) /\ (b(s) /\ Head(queue) \notin Off(s) => c(s))
      BY DEF SubsFollow
    <2>3. HoldsAt(queue, b(s), On(s), Off(s), i + 1)
      BY <1>2 DEF KnownAt
    <2> HIDE DEF On, Off, b, c
    <2>4. HoldsAt(Tail(queue), c(s), On(s), Off(s), i)
      BY <1>1, <2>1, <2>2, <2>3, HoldsRest
    <2> QED BY <1>1, <2>4
  <1>3. ASSUME NEW s \in Subs, NEW i \in DOMAIN queue', queue'[i] \in Moves(p, s)
        PROVE  HoldsAt(queue', c(s), On(s), Off(s), i)
    <2>1. i + 1 \in DOMAIN queue /\ queue[i + 1] \in Moves(p, s) /\ i \in 1 .. Len(queue)
      BY <1>1, <1>3, Rest
    <2> QED BY <1>2, <2>1 DEF SubsKnown
  <1>4. ASSUME NEW s \in Subs, subs'[p][s] = "there"
        PROVE  HoldsAt(queue', c(s), On(s), Off(s), Len(queue') + 1)
    <2>1. KnownAt(p, s, Len(queue) + 1) /\ Len(queue) \in 1 .. Len(queue)
      BY <1>1, <1>4 DEF SubsKnown
    <2>2. HoldsAt(queue', c(s), On(s), Off(s), Len(queue))
      BY <1>2, <2>1
    <2> QED BY <1>1, <2>2
  <1> QED BY <1>3, <1>4 DEF SubsKnown, KnownAt

\* The threads have not begun a cleanup of a page that is not open yet.
LEMMA UnbornTaken ==
    ASSUME Typed, Takes, NEW p \in Pages, Unborn(p), UNCHANGED <<page, cleaned>>,
           Head(queue) \in Of(p) \/ pendingFrameIDs'[p] = pendingFrameIDs[p],
           p \in sessions' => p \in sessions \/ Head(queue) \in Attaches(p),
           pc'[Reader] # "idle" => ev'.event = Head(queue) /\ Head(queue) \in PageEvents,
           \A t \in Callers : pc'[t] # "begin" \/ pc'[t] = pc[t]
    PROVE  Unborn(p)'
  <1>1. queue \in Seq(News) /\ queue # <<>> /\ queue' = Tail(queue)
    BY DEF Typed, Browser, Takes
  <1>2. /\ Has(queue', Of(p)) \/ Head(queue) \in Of(p) => Has(queue, Of(p))
        /\ Has(queue', Attaches(p)) => Has(queue, Attaches(p)) /\ Head(queue) \notin Attaches(p)
        /\ Once(queue', Attaches(p))
    BY <1>1, HasRest, OnceRest DEF Unborn
  <1>3. Attaches(p) \subseteq Of(p)
    BY DEF Attaches
  <1>4. Handler(p) \in Callers /\ Closer(p) \in Callers
    BY ThreadFacts
  <1>5. ASSUME page[p] = "new"
        PROVE  /\ p \notin sessions' \cup cleaned' /\ pendingFrameIDs'[p] = NoFrame /\ ~Has(queue', Of(p))
               /\ pc'[Reader] # "idle" => ev'.event.page # p
               /\ pc'[Handler(p)] # "begin" /\ pc'[Closer(p)] # "begin"
    <2>1. Head(queue) \notin Of(p)
      BY <1>2, <1>5 DEF Unborn
    <2> QED BY <1>2, <1>3, <1>4, <1>5, <2>1 DEF Unborn, Of
  <1>6. Has(queue', Attaches(p)) => p \notin sessions'
    BY <1>2 DEF Unborn
  <1> QED BY <1>2, <1>5, <1>6 DEF Unborn

LEMMA FramesTaken ==
    ASSUME Typed, Takes, NEW p \in Pages, FramesKnown(p), UNCHANGED <<browser, cleaned>>, Unborn(p)',
           p \notin cleaned => MainFollows(p) /\ SubsFollow(p)
    PROVE  FramesKnown(p)'
  <1>1. queue \in Seq(News) /\ queue # <<>> /\ queue' = Tail(queue) /\ UNCHANGED <<page, mainFrame, subs>>
    BY DEF Typed, Browser, Takes, browser
  <1>2. LastNamed(p)'
    BY <1>1, FollowsRest DEF FramesKnown, LastNamed
  <1> QED BY <1>1, <1>2, MainTaken, SubsTaken DEF FramesKnown

\* Events of other pages, and those that are about no frame.
LEMMA Aside ==
    ASSUME NEW p \in Pages, Head(queue) \notin Framing(p), Head(queue) \notin Makes(p),
           p \in sessions' <=> p \in sessions, frameID'[p] = frameID[p],
           pendingFrameIDs'[p] = pendingFrameIDs[p], subFrames'[p] = subFrames[p]
    PROVE  MainFollows(p) /\ SubsFollow(p)
  <1>1. /\ Head(queue) \notin Attaches(p) /\ Head(queue) \notin Turns(p) /\ Head(queue) \notin Names(p, mainFrame[p])
        /\ \A s \in Subs : Head(queue) \notin Comes(p, s)
    BY FramingFacts
  <1> QED BY <1>1 DEF MainFollows, SubsFollow, Renotes

LEMMA OthersAside ==
    ASSUME NEW p \in Pages, NEW o \in Pages, o # p, Head(queue) \in Of(o)
    PROVE  Head(queue) \notin Framing(p) /\ Head(queue) \notin Makes(p) /\ Head(queue) \notin Of(p)
  BY FramingFacts, Kept DEF Of, Makes

LEMMA FramesMoved ==
    ASSUME Typed, Takes, NEW p \in Pages, SubsKnown(p), Head(queue) \in Of(p),
           Head(queue).kind \in {"started", "committed"}, frameID' = RefreshMainFrame(p, Head(queue).frame),
           UNCHANGED <<sessions, pendingFrameIDs, subFrames>>
    PROVE  MainFollows(p) /\ SubsFollow(p)
  <1> DEFINE e == Head(queue)
             f == e.frame
  <1>1. queue \in Seq(News) /\ queue # <<>> /\ frameID \in [Pages -> AnyFrame] /\ subFrames[p] \subseteq Subs
        /\ mainFrame[p] \in Mains
    BY DEF Typed, Browser, Takes, Caches
  <1>2. f \in Mains \cup Subs /\ Mains \cap Subs = {}
    <2>1. e \in News /\ e.kind \in FrameKinds
      BY <1>1, Kept DEF FrameKinds
    <2> QED BY <2>1, Kinds, ContextsAssumption DEF Frames
  <1>3. /\ e \notin Attaches(p) /\ e \notin Makes(p) /\ e \in Moves(p, f)
        /\ e \in Turns(p) <=> f \in Mains
        /\ \A g : /\ e \notin Comes(p, g) /\ e \notin Leaves(p, g)
                  /\ e \in Names(p, g) => f = g
    BY FrameEvents DEF FrameKinds
  <1>4. ASSUME f \in Subs PROVE f \in subFrames[p]
    <2>1. 1 \in DOMAIN queue /\ queue[1] \in Moves(p, f)
      BY <1>1, <1>3, Rest
    <2>2. KnownAt(p, f, 1)
      BY <1>4, <2>1 DEF SubsKnown
    <2>3. \A j : j \notin 1 .. 1 - 1
      OBVIOUS
    <2> QED BY <2>2, <2>3 DEF KnownAt, HoldsAt
  <1>5. ASSUME p \in sessions PROVE frameID'[p] = IF f \in Mains THEN f ELSE frameID[p]
    <2>1. f \in Mains <=> f \notin subFrames[p]
      BY <1>1, <1>2, <1>4
    <2> QED BY <1>1, <1>5, <2>1 DEF RefreshMainFrame, IsSubFrame
  <1> HIDE DEF e, f
  <1>6. MainFollows(p)
    BY <1>1, <1>2, <1>3, <1>5 DEF MainFollows, Renotes, e
  <1>7. SubsFollow(p)
    BY <1>3 DEF SubsFollow, e
  <1> QED BY <1>6, <1>7

LEMMA FramesCome ==
    ASSUME Typed, Takes, NEW p \in Pages, Head(queue) \in Of(p),
           \/ Head(queue).kind = "frameAttached" /\ TakeFrameAttached
           \/ Head(queue).kind = "frameDetached" /\ TakeFrameDetached
    PROVE  MainFollows(p) /\ SubsFollow(p)
  <1> DEFINE e == Head(queue)
             f == e.frame
  <1>1. queue \in Seq(News) /\ queue # <<>> /\ frameID \in [Pages -> AnyFrame] /\ subFrames \in [Pages -> SUBSET Subs]
        /\ mainFrame[p] \in Mains /\ e.page = p
    BY DEF Typed, Browser, Takes, Caches, Of
  <1>2. f \in Mains \cup Subs /\ Mains \cap Subs = {}
    <2>1. e \in News /\ e.kind \in FrameKinds
      BY <1>1, Kept DEF FrameKinds
    <2> QED BY <2>1, Kinds, ContextsAssumption DEF Frames
  <1>3. /\ e \notin Attaches(p) /\ e \notin Makes(p) /\ (e \in Turns(p) <=> f \in Mains)
        /\ \A g : e \notin Moves(p, g)
    BY FrameEvents DEF FrameKinds
  <1>4. CASE e.kind = "frameAttached" /\ TakeFrameAttached
    <2>1. /\ frameID' = IF f \in Mains /\ p \in sessions THEN [frameID EXCEPT ![p] = f] ELSE frameID
          /\ subFrames' = IF f \in Subs THEN [subFrames EXCEPT ![p] = @ \cup {f}] ELSE subFrames
          /\ UNCHANGED <<sessions, pendingFrameIDs>>
      BY <1>1, <1>4 DEF TakeFrameAttached
    <2>2. \A g : /\ e \in Names(p, g) => f = g
                 /\ e \in Comes(p, g) => f = g
                 /\ e \notin Leaves(p, g)
      BY <1>4, FrameEvents
    <2>3. /\ p \in sessions => frameID'[p] = IF f \in Mains THEN f ELSE frameID[p]
          /\ subFrames'[p] = IF f \in Subs THEN subFrames[p] \cup {f} ELSE subFrames[p]
      BY <1>1, <1>2, <2>1
    <2> HIDE DEF e, f
    <2>4. MainFollows(p)
      BY <1>1, <1>2, <1>3, <2>1, <2>2, <2>3 DEF MainFollows, Renotes, e
    <2>5. SubsFollow(p)
      BY <2>2, <2>3 DEF SubsFollow, e
    <2> QED BY <2>4, <2>5
  <1>5. CASE e.kind = "frameDetached" /\ TakeFrameDetached
    <2>1. /\ frameID' = [frameID EXCEPT ![p] = IF @ = f THEN NoFrame ELSE @]
          /\ subFrames' = [subFrames EXCEPT ![p] = @ \ {f}]
          /\ UNCHANGED <<sessions, pendingFrameIDs>>
      BY <1>1, <1>5 DEF TakeFrameDetached
    <2>2. \A g : /\ e \notin Names(p, g) /\ e \notin Comes(p, g)
                 /\ e \in Leaves(p, g) <=> f = g
      BY <1>3, <1>5, FrameEvents
    <2>3. /\ frameID'[p] = IF frameID[p] = f THEN NoFrame ELSE frameID[p]
          /\ subFrames'[p] = subFrames[p] \ {f}
      BY <1>1, <2>1
    <2> HIDE DEF e, f
    <2>4. MainFollows(p)
      BY <1>1, <1>2, <1>3, <2>1, <2>2, <2>3 DEF MainFollows, Renotes, e
    <2>5. SubsFollow(p)
      BY <2>2, <2>3 DEF SubsFollow, e
    <2> QED BY <2>4, <2>5
  <1> QED BY <1>4, <1>5

LEMMA FramesNoted ==
    ASSUME Typed, NEW p \in Pages, FramesKnown(p), Notes
    PROVE  FramesKnown(p)'
  <1> DEFINE e == Head(queue)
             o == e.page
  <1>1. /\ Takes /\ pc[Reader] = "idle" /\ UNCHANGED <<cleaned, pc, browser>>
        /\ sessions \subseteq Pages /\ frameID \in [Pages -> AnyFrame]
        /\ pendingFrameIDs \in [Pages -> AnyFrame] /\ subFrames \in [Pages -> SUBSET Subs]
    BY NotesTyped DEF Takes, Typed, Caches
  <1>2. \E k \in FrameKinds \cup PageKinds : e.kind = k
    BY DEF Notes, TakeAttached, TakeNavigationStarted, TakeNavigationCommitted, TakeContextsCleared,
           TakeFrameAttached, TakeFrameDetached, Next1, FrameKinds, PageKinds
  <1>3. o \in Pages /\ e \in Of(o)
    BY <1>1, <1>2, Taken, Kinds DEF Takes, Of, FrameKinds, PageKinds
  <1>4. /\ \A q \in Pages : q # o => /\ q \in sessions' <=> q \in sessions
                                     /\ frameID'[q] = frameID[q] /\ pendingFrameIDs'[q] = pendingFrameIDs[q]
                                     /\ subFrames'[q] = subFrames[q]
        /\ p \in sessions' => p \in sessions \/ e \in Attaches(p)
    <2> HIDE DEF e
    <2>1. CASE TakeAttached
      <3>1. /\ sessions' = sessions \cup {o} /\ frameID' = [frameID EXCEPT ![o] = pendingFrameIDs[o]]
            /\ pendingFrameIDs' = [pendingFrameIDs EXCEPT ![o] = NoFrame] /\ UNCHANGED subFrames
            /\ e.kind = "attached"
        BY <2>1 DEF TakeAttached, Next1, e
      <3> QED BY <1>1, <1>3, <3>1 DEF Attaches
    <2>2. CASE TakeNavigationStarted \/ TakeNavigationCommitted
      <3>1. frameID' = RefreshMainFrame(o, e.frame) /\ UNCHANGED <<sessions, pendingFrameIDs, subFrames>>
        BY <2>2 DEF TakeNavigationStarted, TakeNavigationCommitted, e
      <3> QED BY <1>1, <1>3, <3>1 DEF RefreshMainFrame
    <2>3. CASE TakeContextsCleared
      BY <2>3 DEF TakeContextsCleared
    <2>4. CASE TakeFrameAttached
      <3>1. /\ \E f : frameID' = [frameID EXCEPT ![o] = f] \/ frameID' = frameID
            /\ \E S : subFrames' = [subFrames EXCEPT ![o] = S] \/ subFrames' = subFrames
            /\ UNCHANGED <<sessions, pendingFrameIDs>>
        BY <2>4 DEF TakeFrameAttached, e
      <3> QED BY <1>1, <1>3, <3>1
    <2>5. CASE TakeFrameDetached
      <3>1. /\ \E f : frameID' = [frameID EXCEPT ![o] = f]
            /\ \E S : subFrames' = [subFrames EXCEPT ![o] = S]
            /\ UNCHANGED <<sessions, pendingFrameIDs>>
        BY <2>5 DEF TakeFrameDetached, e
      <3> QED BY <1>1, <1>3, <3>1
    <2> QED BY <2>1, <2>2, <2>3, <2>4, <2>5 DEF Notes
  <1>5. Unborn(p)'
    <2>1. e \in Of(p) \/ pendingFrameIDs'[p] = pendingFrameIDs[p]
      BY <1>3, <1>4
    <2> QED BY <1>1, <1>4, <2>1, UnbornTaken DEF FramesKnown, browser
  <1>6. ASSUME p \notin cleaned PROVE MainFollows(p) /\ SubsFollow(p)
    <2>1. CASE o # p
      BY <1>3, <1>4, <2>1, Aside, OthersAside
    <2>2. CASE o = p /\ (TakeNavigationStarted \/ TakeNavigationCommitted)
      <3>1. /\ e.kind \in {"started", "committed"} /\ frameID' = RefreshMainFrame(p, e.frame)
            /\ UNCHANGED <<sessions, pendingFrameIDs, subFrames>> /\ e \in Of(p)
        BY <1>3, <2>2 DEF TakeNavigationStarted, TakeNavigationCommitted, Next1
      <3> QED BY <1>1, <1>6, <3>1, FramesMoved DEF FramesKnown
    <2>3. CASE o = p /\ (TakeFrameAttached \/ TakeFrameDetached)
      <3>1. \/ e.kind = "frameAttached" /\ TakeFrameAttached
            \/ e.kind = "frameDetached" /\ TakeFrameDetached
        BY <2>3 DEF TakeFrameAttached, TakeFrameDetached, Next1
      <3> QED BY <1>1, <1>3, <2>3, <3>1, FramesCome
    <2>4. CASE o = p /\ TakeContextsCleared
      <3>1. e.kind = "cleared" /\ UNCHANGED <<sessions, frameID, pendingFrameIDs, subFrames>>
        BY <2>4 DEF TakeContextsCleared, Next1
      <3>2. e \notin Framing(p) /\ e \notin Makes(p)
        BY <3>1 DEF Framing, FrameKinds, Makes
      <3> QED BY <3>1, <3>2, Aside
    <2>5. CASE o = p /\ TakeAttached
      <3>1. /\ sessions' = sessions \cup {p} /\ frameID' = [frameID EXCEPT ![p] = pendingFrameIDs[p]]
            /\ UNCHANGED subFrames /\ e.kind = "attached"
        BY <2>5 DEF TakeAttached, Next1
      <3>2. e \in Attaches(p) /\ \A s : e \notin Comes(p, s)
        BY <1>3, <2>5, <3>1, FrameEvents
      <3>3. frameID'[p] = pendingFrameIDs[p]
        BY <1>1, <3>1
      <3> QED BY <3>1, <3>2, <3>3 DEF MainFollows, SubsFollow
    <2> QED BY <2>1, <2>2, <2>3, <2>4, <2>5 DEF Notes
  <1> QED BY <1>1, <1>5, <1>6, FramesTaken

\* Writes that change no cache.
LEMMA Answering ==
    ASSUME Typed, TakeReply \/ TakeDetached \/ TakeContextDestroyed
    PROVE  /\ Takes /\ UNCHANGED <<bridge, browser>> /\ Head(queue).kind \in {"reply", "detached", "destroyed"}
           /\ \/ TakeReply
              \/ ev'.event = Head(queue) /\ Head(queue).kind # "reply" /\ \E l \in {"begin", "drop"} : Goto(Reader, l)
  <1>1. Takes /\ UNCHANGED <<bridge, browser>>
    BY DEF TakeReply, TakeDetached, TakeContextDestroyed, Next1, Takes
  <1>2. Head(queue).kind \in {"reply", "detached", "destroyed"}
    BY DEF TakeReply, TakeDetached, TakeContextDestroyed, Next1
  <1>3. ASSUME ~TakeReply
        PROVE  ev'.event = Head(queue) /\ Head(queue).kind # "reply" /\ \E l \in {"begin", "drop"} : Goto(Reader, l)
    <2>1. \E l \in {"begin", "drop"} : Goto(Reader, l)
      BY <1>3 DEF TakeDetached, TakeContextDestroyed
    <2>2. Head(queue).kind # "reply"
      BY <1>3 DEF TakeDetached, TakeContextDestroyed, Next1
    <2>3. ev'.event = Head(queue)
      BY <1>3 DEF TakeDetached, TakeContextDestroyed, Idle
    <2> QED BY <2>1, <2>2, <2>3
  <1> QED BY <1>1, <1>2, <1>3

LEMMA FramesAnswered ==
    ASSUME Typed, NEW p \in Pages, FramesKnown(p), TakeReply \/ TakeDetached \/ TakeContextDestroyed
    PROVE  FramesKnown(p)'
  <1> DEFINE e == Head(queue)
  <1>1. /\ Takes /\ pc[Reader] = "idle" /\ e.kind \in {"reply", "detached", "destroyed"}
        /\ UNCHANGED <<bridge, browser>>
    BY Answering DEF Takes
  <1>2. e \in News
    BY <1>1, Taken DEF Takes
  <1>3. MainFollows(p) /\ SubsFollow(p)
    <2>1. e \notin Framing(p) /\ e \notin Makes(p)
      BY <1>1 DEF Framing, FrameKinds, Makes
    <2> QED BY <1>1, <2>1, Aside DEF bridge
  <1>4. /\ pc'[Reader] # "idle" => ev'.event = e /\ e \in PageEvents
        /\ \A t \in Callers : pc'[t] # "begin" \/ pc'[t] = pc[t]
    <2>1. CASE TakeReply
      <3>1. e.to \in Callers
        BY <1>2, <2>1, Kinds DEF TakeReply, Next1
      <3>2. e.to \in Threads /\ e.to # Reader /\ Goto(e.to, After(e.to, e.ok))
            /\ After(e.to, e.ok) \in HandlerPCs /\ After(e.to, e.ok) # "begin"
        <4>1. After(e.to, e.ok) \in {"roll", "write", "frameAgain", "clear", "idle"}
          BY DEF After
        <4>2. e.to \in Threads /\ e.to # Reader /\ Goto(e.to, After(e.to, e.ok))
          BY <2>1, <3>1, ThreadFacts DEF TakeReply
        <4> HIDE DEF e
        <4> QED BY <4>1, <4>2 DEF HandlerPCs
      <3>3. pc'[e.to] # "begin" /\ \A t \in Threads : t # e.to => pc'[t] = pc[t]
        BY <3>2, GotoFacts
      <3> QED BY <1>1, <3>2, <3>3, ThreadFacts
    <2>2. CASE ~TakeReply
      <3>1. ev'.event = e /\ e.kind # "reply" /\ \E l \in {"begin", "drop"} : Goto(Reader, l)
        BY <2>2, Answering
      <3>2. \A t \in Callers : pc'[t] = pc[t]
        BY <3>1, GotoFacts, ThreadFacts DEF ReaderPCs
      <3> QED BY <1>2, <3>1, <3>2, Kinds
    <2> QED BY <2>1, <2>2
  <1>5. UNCHANGED <<page, cleaned, sessions, pendingFrameIDs>>
    BY <1>1 DEF bridge, browser
  <1>6. Unborn(p)'
    BY <1>1, <1>4, <1>5, UnbornTaken DEF FramesKnown
  <1> QED BY <1>1, <1>3, <1>5, <1>6, FramesTaken

LEMMA FramesCreated ==
    ASSUME Typed, NEW p \in Pages, FramesKnown(p), TakeContextCreated
    PROVE  FramesKnown(p)'
  <1> DEFINE e == Head(queue)
             o == e.page
             f == e.frame
  <1>1. /\ Takes /\ pc[Reader] = "idle" /\ e.kind = "created" /\ Goto(Reader, "store") /\ ev'.event = e
        /\ frameID' = IF o \in sessions /\ frameID[o] = NoFrame THEN [frameID EXCEPT ![o] = f] ELSE frameID
        /\ pendingFrameIDs' = IF o \notin sessions /\ pendingFrameIDs[o] = NoFrame
                                THEN [pendingFrameIDs EXCEPT ![o] = f] ELSE pendingFrameIDs
        /\ UNCHANGED <<cleaned, sessions, subFrames, browser>>
    BY DEF TakeContextCreated, Next1, Takes
  <1>2. o \in Pages /\ e \in Of(o) /\ e \in PageEvents
    BY <1>1, Taken, Kinds DEF Takes, Of
  <1>3. \A t \in Callers : pc'[t] = pc[t]
    BY <1>1, GotoFacts, ThreadFacts DEF ReaderPCs
  <1>4. /\ frameID \in [Pages -> AnyFrame] /\ pendingFrameIDs \in [Pages -> AnyFrame]
    BY DEF Typed, Caches
  <1> HIDE DEF e, f
  <1>5. p # o => pendingFrameIDs'[p] = pendingFrameIDs[p] /\ frameID'[p] = frameID[p]
    BY <1>1, <1>2, <1>4
  <1>6. Unborn(p)'
    <2>1. e \in Of(p) \/ pendingFrameIDs'[p] = pendingFrameIDs[p]
      BY <1>2, <1>5
    <2> QED BY <1>1, <1>2, <1>3, <2>1, UnbornTaken DEF FramesKnown, browser, e
  <1>7. MainFollows(p) /\ SubsFollow(p)
    <2>1. CASE o # p
      BY <1>1, <1>2, <1>5, <2>1, Aside, OthersAside DEF e
    <2>2. CASE o = p
      <3>1. /\ e \in Makes(p) /\ e \notin Attaches(p) /\ e \notin Turns(p)
            /\ \A g : e \notin Names(p, g) /\ e \notin Comes(p, g)
        BY <1>1, <1>2, <2>2, FrameEvents DEF FrameKinds
      <3>2. /\ p \in sessions => frameID'[p] = IF frameID[p] = NoFrame THEN f ELSE frameID[p]
            /\ p \notin sessions => pendingFrameIDs'[p] = IF pendingFrameIDs[p] = NoFrame THEN f ELSE pendingFrameIDs[p]
        BY <1>1, <1>4, <2>2
      <3>3. MainFollows(p)
        BY <1>1, <3>1, <3>2 DEF MainFollows, Renotes, e, f
      <3> QED BY <1>1, <3>1, <3>3 DEF SubsFollow, e
    <2> QED BY <2>1, <2>2
  <1> QED BY <1>1, <1>6, <1>7, FramesTaken

------------------------------------------------------------------------------
(* Frames: the other steps.                                                 *)

LEMMA FramesElsewhere ==
    ASSUME NEW p \in Pages, FramesKnown(p), UNCHANGED <<queue, browser>>,
           p \in sessions' => p \in sessions, p \in cleaned => p \in cleaned',
           page[p] = "new" => /\ p \notin cleaned'
                              /\ pc'[Reader] # "idle" => ev'.event.page # p
                              /\ pc'[Handler(p)] # "begin" /\ pc'[Closer(p)] # "begin",
           p \notin cleaned' => /\ p \in sessions' <=> p \in sessions
                                /\ frameID'[p] = frameID[p] /\ pendingFrameIDs'[p] = pendingFrameIDs[p]
                                /\ subFrames'[p] = subFrames[p]
    PROVE  FramesKnown(p)'
  <1>1. UNCHANGED <<queue, page, mainFrame, subs>>
    BY DEF browser
  <1>2. Unborn(p)'
    BY <1>1 DEF FramesKnown, Unborn
  <1>3. LastNamed(p)'
    BY <1>1 DEF FramesKnown, LastNamed
  <1>4. ASSUME p \notin cleaned' PROVE SubsKnown(p)' /\ (page'[p] = "live" => MainNoted(p)')
    <2>1. p \notin cleaned
      BY <1>4
    <2>2. SubsKnown(p) /\ (page[p] = "live" => MainNoted(p))
      BY <2>1 DEF FramesKnown
    <2>3. SubsKnown(p)'
      BY <1>1, <1>4, <2>2 DEF SubsKnown, KnownAt
    <2>4. MainNoted(p) => MainNoted(p)'
      BY <1>1, <1>4 DEF MainNoted, Noted
    <2> QED BY <1>1, <2>2, <2>3, <2>4
  <1> QED BY <1>2, <1>3, <1>4 DEF FramesKnown

LEMMA FramesCleanup ==
    ASSUME Typed, Cleaning, NEW p \in Pages, FramesKnown(p), NEW t \in Threads, CleanupStep(t)
    PROVE  FramesKnown(p)'
  <1> DEFINE o == CleanedPage(t)
  <1>1. UNCHANGED <<queue, browser>> /\ cleaned \subseteq cleaned' /\ sessions' \subseteq sessions
    BY CleanupMoves DEF CleanupStep, Closes, BeginCleanup, ClearState, RemoveSession, Local, bridge
  <1>2. pc'[Reader] # "idle" => pc[Reader] # "idle" /\ ev'.event = ev.event
    <2>1. CASE t = Reader
      <3>1. pc[t] \in Cleans \/ Closes(t)
        BY DEF CleanupStep, BeginCleanup, ClearState, RemoveSession, Cleans
      <3>2. ~Closes(t)
        BY <2>1, ThreadFacts DEF Closes
      <3>3. UNCHANGED ev \/ Goto(Reader, "idle")
        BY <2>1, <3>2 DEF CleanupStep, BeginCleanup, ClearState, RemoveSession, Forgets
      <3> QED BY <2>1, <3>1, <3>2, <3>3, GotoFacts, ThreadFacts DEF ReaderPCs, Cleans
    <2>2. CASE t # Reader
      <3>1. UNCHANGED ev
        BY <2>2 DEF CleanupStep, Closes, BeginCleanup, ClearState, RemoveSession, Forgets, Local
      <3>2. pc'[Reader] = pc[Reader]
        BY <2>2, CleanupMoves, ThreadFacts
      <3> QED BY <3>1, <3>2
    <2> QED BY <2>1, <2>2
  <1>3. ASSUME page[p] = "new"
        PROVE  /\ p \notin cleaned'
               /\ pc'[Reader] # "idle" => ev'.event.page # p
               /\ pc'[Handler(p)] # "begin" /\ pc'[Closer(p)] # "begin"
    <2>1. /\ p \notin sessions \cup cleaned /\ (pc[Reader] # "idle" => ev.event.page # p)
          /\ pc[Handler(p)] # "begin" /\ pc[Closer(p)] # "begin"
      BY <1>3 DEF FramesKnown, Unborn
    <2>2. p \notin cleaned'
      <3>1. CASE BeginCleanup(t)
        <4>1. pc[t] = "begin" /\ cleaned' \subseteq cleaned \cup {o}
          BY <3>1 DEF BeginCleanup
        <4>2. o # p
          BY <2>1, <4>1, CleanedFacts, ThreadFacts DEF Cleans
        <4> QED BY <2>1, <4>1, <4>2
      <3>2. CASE ~BeginCleanup(t)
        <4>1. UNCHANGED cleaned
          BY <3>2 DEF CleanupStep, Closes, Local, bridge
        <4> QED BY <2>1, <4>1
      <3> QED BY <3>1, <3>2
    <2>3. ASSUME NEW u \in Threads, u = Handler(p) \/ u = Closer(p) PROVE pc'[u] # "begin"
      <3>1. CASE u # t
        BY <2>1, <2>3, <3>1, CleanupMoves
      <3>2. CASE u = t /\ Closes(t)
        <4>1. t[2] \in sessions /\ t[2] = p
          BY <2>3, <3>2, ThreadFacts DEF Closes, Begin
        <4> QED BY <2>1, <4>1
      <3>3. CASE u = t /\ ~Closes(t)
        <4>1. \E l \in {"idle", "clear", "wait", "remove"} : Goto(t, l)
          BY <3>3 DEF CleanupStep, BeginCleanup, ClearState, RemoveSession, Forgets
        <4>2. pc'[t] # "begin"
          BY <4>1, GotoFacts DEF HandlerPCs
        <4> QED BY <3>3, <4>2
      <3> QED BY <3>1, <3>2, <3>3
    <2> QED BY <1>2, <2>1, <2>2, <2>3, ThreadFacts
  <1>4. ASSUME p \notin cleaned'
        PROVE  /\ p \in sessions' <=> p \in sessions
               /\ frameID'[p] = frameID[p] /\ pendingFrameIDs'[p] = pendingFrameIDs[p] /\ subFrames'[p] = subFrames[p]
    <2>1. CASE Closes(t) \/ BeginCleanup(t)
      BY <2>1 DEF Closes, BeginCleanup, Local, bridge
    <2>2. CASE ClearState(t) \/ RemoveSession(t)
      <3>1. pc[t] \in {"clear", "remove"}
        BY <2>2 DEF ClearState, RemoveSession
      <3>2. o # p
        BY <1>1, <1>4, <3>1, CleansCleaned
      <3>3. CASE ClearState(t)
        <4>1. /\ UNCHANGED <<sessions, frameID>> /\ pendingFrameIDs' = [pendingFrameIDs EXCEPT ![o] = NoFrame]
              /\ subFrames' = [subFrames EXCEPT ![o] = {}]
          BY <3>3 DEF ClearState
        <4> QED BY <3>2, <4>1 DEF Typed, Caches
      <3>4. CASE RemoveSession(t)
        <4>1. /\ UNCHANGED <<pendingFrameIDs, subFrames>> /\ frameID' = [frameID EXCEPT ![o] = NoFrame]
              /\ sessions' = sessions \ {o}
          BY <3>4 DEF RemoveSession
        <4> QED BY <3>2, <4>1 DEF Typed, Caches
      <3> QED BY <2>2, <3>3, <3>4
    <2> QED BY <2>1, <2>2 DEF CleanupStep
  <1> QED BY <1>1, <1>3, <1>4, FramesElsewhere

\* Steps that are no cleanup's and change no cache of frames.
LEMMA FramesLeft ==
    ASSUME Typed, NEW p \in Pages, FramesKnown(p),
           UNCHANGED <<queue, browser, sessions, cleaned, frameID, pendingFrameIDs, subFrames>>,
           pc'[Reader] # "idle" => pc[Reader] # "idle" /\ ev'.event = ev.event,
           \A t \in Callers : pc'[t] = "begin" => pc[t] = "begin"
    PROVE  FramesKnown(p)'
  <1>1. Handler(p) \in Callers /\ Closer(p) \in Callers
    BY ThreadFacts
  <1>2. page[p] = "new" => /\ p \notin cleaned'
                           /\ pc'[Reader] # "idle" => ev'.event.page # p
                           /\ pc'[Handler(p)] # "begin" /\ pc'[Closer(p)] # "begin"
    BY <1>1 DEF FramesKnown, Unborn
  <1> QED BY <1>2, FramesElsewhere

LEMMA FramesReader ==
    ASSUME Typed, Cleaning, NEW p \in Pages, FramesKnown(p), ReaderStep
    PROVE  FramesKnown(p)'
  <1>1. CASE CleanupStep(Reader)
    BY <1>1, FramesCleanup, ThreadFacts
  <1>2. CASE Notes
    BY <1>2, FramesNoted
  <1>3. CASE TakeReply \/ TakeDetached \/ TakeContextDestroyed
    BY <1>3, FramesAnswered
  <1>4. CASE TakeContextCreated
    BY <1>4, FramesCreated
  <1>5. CASE /\ \/ StoreContext \/ StoreLatest \/ StoreUnique
                \/ ReadIsolatedWorlds \/ AnnounceWorld \/ WorldsAnnounced \/ DropContext
             /\ UNCHANGED <<cleaned, sessions, frameID, pendingFrameIDs, subFrames, browser>>
    <2>1. UNCHANGED queue /\ pc[Reader] # "idle"
      BY <1>5 DEF StoreContext, StoreLatest, StoreUnique, ReadIsolatedWorlds, AnnounceWorld, WorldsAnnounced,
                  DropContext
    <2>2. UNCHANGED pc \/ \E l \in {"idle", "latest", "unique", "isolated", "worlds"} : Goto(Reader, l)
      BY <1>5 DEF StoreContext, StoreLatest, StoreUnique, ReadIsolatedWorlds, AnnounceWorld, WorldsAnnounced,
                  DropContext
    <2>3. \A t \in Callers : pc'[t] = pc[t]
      BY <2>2, GotoFacts, ThreadFacts DEF ReaderPCs
    <2>4. pc'[Reader] # "idle" => ev'.event = ev.event
      <3>1. CASE Goto(Reader, "idle")
        BY <3>1, GotoFacts, ThreadFacts DEF ReaderPCs
      <3>2. CASE ~Goto(Reader, "idle")
        <4>1. UNCHANGED ev \/ \E d : ev' = [ev EXCEPT !.todo = d]
          BY <1>5, <3>2 DEF StoreContext, StoreLatest, StoreUnique, ReadIsolatedWorlds, AnnounceWorld,
                            WorldsAnnounced, DropContext
        <4> QED BY <4>1 DEF Typed, InHand
      <3> QED BY <3>1, <3>2
    <2> QED BY <1>5, <2>1, <2>3, <2>4, FramesLeft
  <1> QED BY <1>1, <1>2, <1>3, <1>4, <1>5 DEF ReaderStep, Notes

LEMMA FramesKept ==
    ASSUME NEW p \in Pages
    PROVE  Typed /\ Owners /\ Cleaning /\ FramesKnown(p) /\ [Next]_vars => FramesKnown(p)'
  <1> SUFFICES ASSUME Typed, Owners, Cleaning, FramesKnown(p), [Next]_vars PROVE FramesKnown(p)'
    OBVIOUS
  <1>1. CASE ReaderStep
    BY <1>1, FramesReader
  <1>2. ASSUME NEW q \in Pages, HandlerStep(q) PROVE FramesKnown(p)'
    <2>1. CASE Commanded(q)
      <3>1. pc'[Reader] = pc[Reader] /\ \A t \in Callers : pc'[t] = "begin" => pc[t] = "begin"
        <4>1. PICK l \in HandlerPCs \ Cleans : pc' = [pc EXCEPT ![Handler(q)] = l]
          BY <2>1 DEF Commanded, Proceeds
        <4>2. l # "begin"
          BY <4>1 DEF Cleans
        <4> QED BY <4>1, <4>2, ThreadFacts DEF Typed, Goroutines
      <3> QED BY <2>1, <3>1, FramesLeft DEF Commanded
    <2> QED BY <1>2, <2>1, Commands, FramesCleanup, ThreadFacts
  <1>3. ASSUME NEW q \in Pages, EnableStores(q) PROVE FramesKnown(p)'
    BY <1>3, FramesLeft DEF EnableStores
  <1>4. CASE (\E q \in Pages : BrowserStep(q)) \/ (\E t \in Threads : BrowserServes(t))
    <2>1. UNCHANGED <<bridge, pc, ev>>
      BY <1>4 DEF BrowserStep, BrowserServes
    <2>2. \E r : Tells(r)
      BY <1>4, BrowserTells, ServesTells
    <2> QED BY <2>1, <2>2, FramesWritten
  <1>5. ASSUME NEW q \in Pages, CleanupStep(Closer(q)) PROVE FramesKnown(p)'
    BY <1>5, FramesCleanup, ThreadFacts
  <1>6. CASE UNCHANGED vars
    <2>1. UNCHANGED <<queue, browser, sessions, cleaned, frameID, pendingFrameIDs, subFrames, pc, ev>>
      BY <1>6 DEF vars, bridge
    <2> QED BY <2>1, FramesLeft
  <1> QED BY <1>1, <1>2, <1>3, <1>4, <1>5, <1>6 DEF Next

LEMMA FramesInit == Init => Typed /\ Owners /\ Calls /\ Cleaning /\ \A p \in Pages : FramesKnown(p)
  <1> SUFFICES ASSUME Init PROVE Typed /\ Owners /\ Calls /\ Cleaning /\ \A p \in Pages : FramesKnown(p)
    OBVIOUS
  <1>1. Typed /\ Owners
    BY TypedInit
  <1>2. DOMAIN queue = {} /\ sessions = {} /\ cleaned = {}
    BY DEF Init
  <1>3. \A t \in Threads : pc[t] = "idle" /\ inbox[t] = NoEvent
    BY DEF Init
  <1>4. Calls /\ Cleaning
    BY <1>2, <1>3, ThreadFacts DEF Calls, Once, Has, Cleaning
  <1>5. ASSUME NEW p \in Pages PROVE FramesKnown(p)
    <2>1. pendingFrameIDs[p] = NoFrame /\ page[p] = "new" /\ \A s \in Subs : subs[p][s] = "none"
      BY DEF Init
    <2>2. Unborn(p)
      BY <1>2, <1>3, <2>1, ThreadFacts DEF Unborn, Once, Has
    <2>3. LastNamed(p)
      BY <1>2 DEF LastNamed, Follows
    <2>4. SubsKnown(p)
      BY <1>2, <2>1 DEF SubsKnown
    <2> QED BY <2>1, <2>2, <2>3, <2>4 DEF FramesKnown
  <1> QED BY <1>1, <1>4, <1>5

------------------------------------------------------------------------------
(* Navigations end in a document after the one they began in.               *)

\* Documents only follow one another.
LEMMA DocsGrow ==
    ASSUME Typed, (\E q \in Pages : BrowserStep(q)) \/ (\E t \in Threads : BrowserServes(t)), NEW p \in Pages
    PROVE  docs[p] \in Nat /\ docs'[p] \in Nat /\ docs'[p] >= docs[p]
  <1>1. docs[p] \in Nat
    BY DEF Typed, Browser
  <1>2. ASSUME NEW q \in Pages, BrowserStep(q) PROVE docs'[p] \in Nat /\ docs'[p] >= docs[p]
    <2>1. CASE Opens(q)
      BY <1>1, <2>1 DEF Opens, Typed, Browser
    <2>2. CASE Commits(q)
      <3>1. docs' = [docs EXCEPT ![q] = docs[q] + 1] /\ docs \in [Pages -> 0 .. MaxDocs] /\ MaxDocs \in Nat
        BY <2>2, ContextsAssumption DEF Commits, Typed, Browser
      <3> QED BY <1>1, <3>1
    <2>3. CASE UNCHANGED docs
      BY <1>1, <2>3
    <2>4. CASE \E s \in Subs : SubFrameAppears(q, s) \/ SubFrameNavigates(q, s) \/ SubFrameGoes(q, s)
      BY <2>3, <2>4 DEF SubFrameAppears, SubFrameNavigates, SubFrameGoes, browser
    <2>5. CASE PageNavigates(q) \/ NavigationStarts(q) \/ ClosesItself(q)
      BY <2>3, <2>5 DEF PageNavigates, NavigationStarts, ClosesItself, Goes
    <2> QED BY <1>2, <2>1, <2>2, <2>4, <2>5 DEF BrowserStep
  <1>3. ASSUME NEW t \in Threads, BrowserServes(t) PROVE docs'[p] \in Nat /\ docs'[p] >= docs[p]
    <2>1. UNCHANGED docs
      BY <1>3, Serves DEF Goes
    <2> QED BY <1>1, <2>1
  <1> QED BY <1>1, <1>2, <1>3

\* What is known of page p while its handler keeps to its command.
LEMMA RollingOn ==
    ASSUME NEW p \in Pages, Rolling(p), h'[p] = h[p],
           pc'[Handler(p)] = pc[Handler(p)] \/ (pc[Handler(p)] = "wait" /\ pc'[Handler(p)] = "roll"),
           page[p] # "new" => page'[p] # "new" /\ (~Has(queue, Attaches(p)) => ~Has(queue', Attaches(p))),
           h[p].clean => h[p].from <= docs'[p],
           \A e \in Makes(p) : Has(queue', {e}) \/ ev'.event = e
                                 => Has(queue, {e}) \/ ev.event = e \/ (h[p].clean => Fresh(p, e.ctx)),
           \/ latestCtx'[p] = latestCtx[p] \/ latestCtx'[p] = NoCtx
           \/ \E e \in Makes(p) : ev.event = e /\ latestCtx'[p] = e.ctx,
           p \in sessions' => p \in sessions \/ Has(queue, Attaches(p))
    PROVE  Rolling(p)'
  <1>1. pc'[Handler(p)] # "idle" => page'[p] # "new" /\ ~Has(queue', Attaches(p))
    BY DEF Rolling
  <1>2. ASSUME h[p].clean, NEW e \in Makes(p), Has(queue', {e}) \/ ev'.event = e PROVE Fresh(p, e.ctx)'
    BY <1>2 DEF Rolling, Fresh
  <1>3. ASSUME h[p].clean, p \in sessions', latestCtx'[p] \notin {NoCtx, h[p].prior}
        PROVE  latestCtx'[p][2] \in Subs \/ latestCtx'[p][3] > h[p].from
    <2>1. p \in sessions
      BY <1>3 DEF Rolling
    <2>2. CASE latestCtx'[p] = latestCtx[p]
      BY <1>3, <2>1, <2>2 DEF Rolling, Fresh
    <2>3. ASSUME NEW e \in Makes(p), ev.event = e, latestCtx'[p] = e.ctx
          PROVE  latestCtx'[p][2] \in Subs \/ latestCtx'[p][3] > h[p].from
      BY <1>3, <2>3 DEF Rolling, Fresh
    <2> QED BY <1>3, <2>2, <2>3
  <1>4. h'[p].clean =>
          /\ pc'[Handler(p)] \in {"wait", "roll"} /\ h'[p].op \in {"navigate", "fragment"}
          /\ h'[p].from <= docs'[p]
    BY DEF Rolling
  <1> QED BY <1>1, <1>2, <1>3, <1>4 DEF Rolling, Fresh

\* A page that is attached is not attached again.
LEMMA AttachedOnce ==
    ASSUME Typed, NEW p \in Pages, page[p] # "new", NEW r, Tells(r)
    PROVE  page'[p] # "new" /\ (~Has(queue, Attaches(p)) => ~Has(queue', Attaches(p)))
  <1>1. page'[p] # "new" /\ ~Has(r, Attaches(p))
    BY DEF Tells, Told
  <1>2. Has(queue', Attaches(p)) <=> Has(queue, Attaches(p)) \/ Has(r, Attaches(p))
    BY HasJoined DEF Tells, Typed, Browser
  <1> QED BY <1>1, <1>2

LEMMA RollingBrowser ==
    ASSUME Typed, NEW p \in Pages, Rolling(p), NEW q \in Pages, BrowserStep(q)
    PROVE  Rolling(p)'
  <1>1. UNCHANGED <<h, pc, ev, latestCtx, sessions>> /\ h[p].from \in Nat
    BY DEF BrowserStep, bridge, Typed, Goroutines, Command
  <1>2. docs[p] \in Nat /\ docs'[p] \in Nat /\ docs'[p] >= docs[p]
    BY DocsGrow
  <1>3. page[p] # "new" => page'[p] # "new" /\ (~Has(queue, Attaches(p)) => ~Has(queue', Attaches(p)))
    BY BrowserTells, AttachedOnce
  <1>4. ASSUME h[p].clean, NEW e \in Makes(p), Has(queue', {e}) PROVE Has(queue, {e}) \/ Fresh(p, e.ctx)
    <2>1. PICK r : Wrote(q, r)
      BY BrowserWrites
    <2>2. r \in Seq(News) /\ queue \in Seq(News) /\ queue' = queue \o r /\ r \in Seq(Of(q))
      BY <2>1, Kept, SeqWider DEF Wrote, Typed, Browser
    <2>3. CASE Has(r, {e})
      <3>1. q = p
        <4>1. q # p => Of(q) \cap {e} = {}
          BY Kept
        <4> QED BY <2>2, <2>3, <4>1, HasNone
      <3>2. Has(r, Makes(p))
        BY <2>3 DEF Has
      <3>3. Reports(r, p, newest'[p]) /\ (newest'[p][2] \in Subs \/ newest'[p][3] > docs[p]) /\ newest'[p] \in AllCtx
        BY <1>4, <2>1, <3>1, <3>2 DEF Wrote, Rolling
      <3>4. e.ctx = newest'[p]
        BY <2>3, <3>3 DEF Reports, Has, MakesCtx
      <3>5. newest'[p][3] \in Nat /\ h[p].from <= docs[p]
        BY <1>4, <3>3, ContextFacts, ContextsAssumption DEF Rolling
      <3> QED BY <1>1, <1>2, <3>3, <3>4, <3>5 DEF Fresh
    <2> QED BY <1>4, <2>2, <2>3, HasJoined
  <1>5. h[p].clean => h[p].from <= docs'[p]
    BY <1>1, <1>2 DEF Rolling
  <1> QED BY <1>1, <1>3, <1>4, <1>5, RollingOn

LEMMA RollingServes ==
    ASSUME Typed, NEW p \in Pages, Rolling(p), NEW t \in Threads, BrowserServes(t)
    PROVE  Rolling(p)'
  <1>1. UNCHANGED <<h, pc, ev, latestCtx, sessions>> /\ h[p].from \in Nat
    BY Serves DEF bridge, Typed, Goroutines, Command
  <1>2. docs[p] \in Nat /\ docs'[p] \in Nat /\ docs'[p] >= docs[p]
    BY DocsGrow
  <1>3. page[p] # "new" => page'[p] # "new" /\ (~Has(queue, Attaches(p)) => ~Has(queue', Attaches(p)))
    BY ServesTells, AttachedOnce
  <1>4. ASSUME NEW e \in Makes(p), Has(queue', {e}) PROVE Has(queue, {e})
    <2>1. PICK r : Served(t, r)
      BY Serves
    <2>2. t \in Callers /\ t[2] \in Pages
      BY Serves, ThreadFacts
    <2>3. (Parting(t[2]) \cup Answers(t)) \cap {e} = {} /\ Parting(t[2]) \cup Answers(t) \subseteq News
      <3>1. Parting(t[2]) \cap Makes(p) = {} /\ Parting(t[2]) \subseteq News
        BY <2>2, Kept, PartingFacts
      <3>2. Makes(p) \subseteq Of(p) /\ Of(p) \cap Answers(t) = {} /\ Answers(t) \subseteq News
        BY Kept DEF Makes, Answers, News
      <3> QED BY <3>1, <3>2
    <2>4. queue \in Seq(News) /\ r \in Seq(News) /\ ~Has(r, {e}) /\ queue' = queue \o r
      BY <2>1, <2>3, HasNone, SeqWider DEF Typed, Browser, Served
    <2> QED BY <1>4, <2>4, HasJoined
  <1>5. h[p].clean => h[p].from <= docs'[p]
    BY <1>1, <1>2 DEF Rolling
  <1> QED BY <1>1, <1>3, <1>4, <1>5, RollingOn

LEMMA RollingReply ==
    ASSUME Typed, Calls, NEW p \in Pages, Rolling(p), TakeReply
    PROVE  Rolling(p)'
  <1> DEFINE e == Head(queue)
             t == e.to
             l == After(t, e.ok)
  <1>1. /\ Takes /\ e \in Replies /\ queue \in Seq(News)
        /\ Goto(t, l) /\ UNCHANGED <<ev, page, docs, latestCtx, sessions>>
        /\ t[1] # "closer" => h' = [h EXCEPT ![t[2]] = IF l = "idle" THEN NoCommand ELSE @]
        /\ t[1] = "closer" => UNCHANGED h
    <2>1. Takes /\ e.kind = "reply"
      BY DEF TakeReply, Next1, Takes
    <2>2. e \in Replies
      BY <2>1, Taken, Kinds DEF Takes
    <2> QED BY <2>1, <2>2 DEF TakeReply, bridge, browser, Typed, Browser
  <1>2. t \in Callers /\ t \in Threads /\ e \in Answers(t)
    BY <1>1, ThreadFacts DEF Replies, Answers
  <1>3. \A T : Has(queue', T) => Has(queue, T)
    BY <1>1, HasRest DEF Takes
  <1>4. CASE t # Handler(p)
    <2>1. h'[p] = h[p]
      <3>1. CASE t[1] = "closer"
        BY <1>1, <3>1
      <3>2. CASE t[1] # "closer"
        <4>1. t[2] # p
          BY <1>2, <1>4, <3>2, ThreadFacts
        <4> QED BY <1>1, <3>2, <4>1 DEF Typed, Goroutines
      <3> QED BY <3>1, <3>2
    <2>2. pc'[Handler(p)] = pc[Handler(p)]
      BY <1>1, <1>4, ThreadFacts DEF Goto, Typed, Goroutines
    <2>3. h[p].clean => h[p].from <= docs'[p]
      BY <1>1 DEF Rolling
    <2> HIDE DEF e, t, l
    <2> QED BY <1>1, <1>3, <2>1, <2>2, <2>3, RollingOn
  <1>5. CASE t = Handler(p)
    <2>1. pc[t] = "wait"
      <3>1. Has(queue, Answers(t))
        BY <1>1, <1>2, HasRest DEF Takes
      <3> QED BY <1>2, <3>1 DEF Calls
    <2>2. t[1] = "handler" /\ t[2] = p /\ pc'[t] = l
      <3>1. t[1] = "handler" /\ t[2] = p
        BY <1>5, ThreadFacts
      <3> QED BY <1>1, <1>2, <3>1 DEF Goto, Typed, Goroutines
    <2>3. h'[p] = IF l = "idle" THEN NoCommand ELSE h[p]
      BY <1>1, <2>2 DEF Typed, Goroutines
    <2>4. page'[p] # "new" /\ ~Has(queue', Attaches(p))
      BY <1>1, <1>3, <1>5, <2>1 DEF Rolling
    <2>5. CASE ~h'[p].clean
      BY <2>4, <2>5 DEF Rolling
    <2>6. CASE h'[p].clean
      <3>1. l # "idle" /\ h'[p] = h[p]
        BY <2>3, <2>6 DEF NoCommand
      <3>2. h[p].op \in {"navigate", "fragment"}
        BY <2>6, <3>1 DEF Rolling
      <3>3. l = "roll"
        BY <2>2, <3>1, <3>2 DEF After
      <3>4. h[p].clean => h[p].from <= docs'[p]
        BY <1>1 DEF Rolling
      <3> HIDE DEF e, t, l
      <3> QED BY <1>1, <1>3, <1>5, <2>1, <2>2, <2>4, <3>1, <3>3, <3>4, RollingOn
    <2> QED BY <2>5, <2>6
  <1> QED BY <1>4, <1>5

LEMMA RollingReads ==
    ASSUME Typed, Calls, NEW p \in Pages, Rolling(p), ReaderStep, ~CleanupStep(Reader)
    PROVE  Rolling(p)'
  <1>1. ASSUME ~TakeReply, h'[p] = h[p], pc'[Handler(p)] = pc[Handler(p)], UNCHANGED <<page, docs>>,
               UNCHANGED queue \/ Takes,
               UNCHANGED sessions \/ TakeAttached,
               UNCHANGED latestCtx \/ StoreLatest,
               ev'.event \in {ev.event, NoEvent} \/ (Takes /\ ev'.event = Head(queue))
        PROVE  Rolling(p)'
    <2>1. queue \in Seq(News) /\ \A T : (Has(queue', T) => Has(queue, T)) /\ (Takes /\ Head(queue) \in T => Has(queue, T))
      BY <1>1, HasRest DEF Takes, Typed, Browser
    <2>2. \A e \in Makes(p) : Has(queue', {e}) \/ ev'.event = e => Has(queue, {e}) \/ ev.event = e
      <3>1. NoEvent \notin Makes(p)
        BY DEF NoEvent, Makes
      <3> QED BY <1>1, <2>1, <3>1
    <2>3. p \in sessions' => p \in sessions \/ Has(queue, Attaches(p))
      <3>1. CASE TakeAttached
        <4>1. Takes /\ Head(queue).kind = "attached" /\ sessions' = sessions \cup {Head(queue).page}
          BY <3>1 DEF TakeAttached, Next1, Takes
        <4>2. Head(queue) \in PageEvents
          BY <4>1, Taken, Kinds DEF Takes
        <4>3. Head(queue).page = p => Head(queue) \in Attaches(p)
          BY <4>1, <4>2 DEF Attaches, Of
        <4> QED BY <2>1, <4>1, <4>3
      <3> QED BY <1>1, <3>1
    <2>4. \/ latestCtx'[p] = latestCtx[p]
          \/ \E e \in Makes(p) : ev.event = e /\ latestCtx'[p] = e.ctx
      <3>1. CASE StoreLatest
        <4>1. latestCtx'[p] = IF p = ev.event.page THEN ev.event.ctx ELSE latestCtx[p]
          BY <3>1 DEF StoreLatest, NowLatest, Typed, Caches
        <4>2. ev.event \in Made
          BY <3>1 DEF StoreLatest, Typed, InHand, Learns, Learning
        <4>3. p = ev.event.page => ev.event \in Makes(p)
          BY <4>2, MadeFacts DEF Makes, Of, PageEvents
        <4> QED BY <4>1, <4>3
      <3> QED BY <1>1, <3>1
    <2>5. h[p].clean => h[p].from <= docs'[p]
      BY <1>1 DEF Rolling
    <2> QED BY <1>1, <2>1, <2>2, <2>3, <2>4, <2>5, RollingOn
  <1>2. CASE TakeReply
    BY <1>2, RollingReply
  <1>3. ASSUME ~TakeReply
        PROVE  /\ h'[p] = h[p] /\ pc'[Handler(p)] = pc[Handler(p)] /\ UNCHANGED <<page, docs>>
               /\ UNCHANGED queue \/ Takes
    BY <1>3, ReaderMoves, ThreadFacts DEF browser
  <1>4. CASE Notes
    <2>1. UNCHANGED <<latestCtx, ev>> /\ (UNCHANGED sessions \/ TakeAttached) /\ ~TakeReply
      <3>1. UNCHANGED sessions \/ TakeAttached
        BY <1>4 DEF Notes, TakeNavigationStarted, TakeNavigationCommitted, TakeContextsCleared,
                    TakeFrameAttached, TakeFrameDetached
      <3>2. ~TakeReply
        BY <1>4 DEF Notes, TakeAttached, TakeNavigationStarted, TakeNavigationCommitted, TakeContextsCleared,
                    TakeFrameAttached, TakeFrameDetached, TakeReply, Next1
      <3> QED BY <1>4, <3>1, <3>2, NotesTyped
    <2> QED BY <1>1, <1>3, <2>1
  <1>5. CASE (TakeDetached \/ TakeContextDestroyed) /\ ~TakeReply
    BY <1>1, <1>3, <1>5, Answering DEF bridge
  <1>6. CASE TakeContextCreated
    <2>1. Takes /\ ev'.event = Head(queue) /\ UNCHANGED <<sessions, latestCtx>> /\ ~TakeReply
      BY <1>6 DEF TakeContextCreated, TakeReply, Next1, Takes
    <2> QED BY <1>1, <1>3, <2>1
  <1>7. CASE /\ \/ StoreContext \/ StoreLatest \/ StoreUnique
                \/ ReadIsolatedWorlds \/ AnnounceWorld \/ WorldsAnnounced \/ DropContext
             /\ UNCHANGED sessions /\ ~TakeReply
    <2>1. UNCHANGED latestCtx \/ StoreLatest
      BY <1>7 DEF StoreContext, StoreUnique, ReadIsolatedWorlds, AnnounceWorld, WorldsAnnounced, DropContext
    <2>2. ev'.event \in {ev.event, NoEvent}
      <3>1. UNCHANGED ev \/ ev' = Idle \/ (\E d : ev' = [ev EXCEPT !.todo = d])
        BY <1>7 DEF StoreContext, StoreLatest, StoreUnique, ReadIsolatedWorlds, AnnounceWorld, WorldsAnnounced,
                    DropContext
      <3>2. Idle.event = NoEvent
        BY IdleFacts
      <3> QED BY <3>1, <3>2 DEF Typed, InHand
    <2> QED BY <1>1, <1>3, <1>7, <2>1, <2>2
  <1> QED BY <1>2, <1>4, <1>5, <1>6, <1>7 DEF ReaderStep, Notes

\* A cleanup changes its own handler's command only, and never to a navigation.
LEMMA CleanupCommands ==
    ASSUME Typed, NEW t \in Threads, CleanupStep(t)
    PROVE  UNCHANGED h \/ \E q \in Pages, k \in Command : t = Handler(q) /\ h' = [h EXCEPT ![q] = k] /\ ~k.clean
  <1>1. NoCommand \in Command /\ ~NoCommand.clean
    BY CommandFacts DEF NoCommand
  <1>2. \A q \in Pages : /\ Started(q, "close", NoFrame, NoCtx) \in Command
                         /\ ~Started(q, "close", NoFrame, NoCtx).clean
    <2>1. ASSUME NEW q \in Pages PROVE Started(q, "close", NoFrame, NoCtx) \in Command
      <3>1. "close" \in Ops
        BY DEF Ops
      <3> QED BY <3>1, CommandFacts
    <2>2. ASSUME NEW q \in Pages PROVE ~Started(q, "close", NoFrame, NoCtx).clean
      BY DEF Started, NoCommand
    <2> QED BY <2>1, <2>2
  <1>3. CASE Closes(t)
    BY <1>2, <1>3 DEF Closes
  <1>4. CASE Forgets(t)
    <2>1. CASE t[1] = "handler"
      <3>1. t[2] \in Pages /\ t = Handler(t[2])
        BY <2>1, ThreadFacts
      <3> QED BY <1>1, <1>4, <2>1, <3>1 DEF Forgets
    <2> QED BY <1>4, <2>1 DEF Forgets
  <1>5. CASE UNCHANGED h
    BY <1>5
  <1> QED BY <1>3, <1>4, <1>5 DEF CleanupStep, BeginCleanup, ClearState, RemoveSession

LEMMA RollingCleanup ==
    ASSUME Typed, NEW p \in Pages, Unborn(p), Rolling(p), NEW t \in Threads, CleanupStep(t)
    PROVE  Rolling(p)'
  <1>1. UNCHANGED <<queue, page, docs>> /\ pc[t] \in Cleans \cup {"idle"} /\ \A u \in Threads : u # t => pc'[u] = pc[u]
    BY CleanupMoves DEF browser
  <1>2. CASE t # Handler(p)
    <2>1. h'[p] = h[p]
      BY <1>2, CleanupCommands DEF Typed, Goroutines
    <2>2. pc'[Handler(p)] = pc[Handler(p)]
      BY <1>1, <1>2, ThreadFacts
    <2>3. sessions' \subseteq sessions
      BY DEF CleanupStep, Closes, BeginCleanup, ClearState, RemoveSession, Local, bridge
    <2>4. latestCtx'[p] \in {latestCtx[p], NoCtx}
      <3>1. CASE ClearState(t)
        BY <3>1 DEF ClearState, Typed, Caches
      <3>2. CASE ~ClearState(t)
        <4>1. UNCHANGED latestCtx
          BY <3>2 DEF CleanupStep, Closes, BeginCleanup, RemoveSession, Local, bridge
        <4> QED BY <4>1
      <3> QED BY <3>1, <3>2
    <2>5. ev' \in {ev, Idle}
      BY DEF CleanupStep, Closes, BeginCleanup, ClearState, RemoveSession, Forgets, Local
    <2>6. \A e \in Makes(p) : ev'.event = e => ev.event = e
      <3>1. NoEvent \notin Makes(p)
        BY DEF NoEvent, Makes
      <3> QED BY <2>5, <3>1, IdleFacts
    <2>7. h[p].clean => h[p].from <= docs'[p]
      BY <1>1 DEF Rolling
    <2> QED BY <1>1, <2>1, <2>2, <2>3, <2>4, <2>6, <2>7, RollingOn
  <1>3. CASE t = Handler(p)
    <2>1. ~h'[p].clean
      <3>1. ~h[p].clean
        BY <1>1, <1>3 DEF Rolling, Cleans
      <3>2. \A q \in Pages : t = Handler(q) => q = p
        BY <1>3, ThreadFacts
      <3> QED BY <3>1, <3>2, CleanupCommands DEF Typed, Goroutines
    <2>2. CASE pc[t] = "idle"
      <3>1. p \in sessions
        <4>1. Closes(t)
          BY <2>2 DEF CleanupStep, BeginCleanup, ClearState, RemoveSession
        <4>2. t[1] = "handler" /\ \A q \in Pages : t = Handler(q) => q = p
          BY <1>3, ThreadFacts
        <4> QED BY <4>1, <4>2 DEF Closes, Begin
      <3>2. page[p] # "new" /\ ~Has(queue, Attaches(p))
        BY <3>1 DEF Unborn
      <3> QED BY <1>1, <2>1, <3>2 DEF Rolling
    <2>3. CASE pc[t] # "idle"
      BY <1>1, <1>3, <2>1, <2>3 DEF Rolling
    <2> QED BY <2>2, <2>3
  <1> QED BY <1>2, <1>3

\* A command begins in an open session.
LEMMA Begins ==
    ASSUME NEW p \in Pages, HandlerStep(p), pc[Handler(p)] = "idle", ~CleanupStep(Handler(p))
    PROVE  p \in sessions
  <1>1. CASE Frameless(p)
    BY <1>1 DEF Frameless, Navigate, WaitForMainFrame, CallNavigate, AwaitRollover, RolloverTimesOut, Begin
  <1>2. CASE Evaluates(p)
    BY <1>2 DEF Evaluates, Ask, LookUp, ChooseContext, WaitForAnyContext, WriteContent, GetLayoutMetrics, Begin
  <1>3. CASE Loads(p)
    BY <1>3 DEF Loads, Reload, SetContent, GetFrameTree, PollFrame, ProbeForFrame, ReadFrameAgain, Begin
  <1>4. CASE Others(p)
    BY <1>4 DEF Others, NameFrame, CreateIsolatedWorld, RecordIsolatedWorld, EnableRuntime, Begin
  <1> QED BY <1>1, <1>2, <1>3, <1>4 DEF HandlerStep, Frameless, Evaluates, Loads, Others

\* Only the call of Page.navigate makes a command one that has read all contexts.
LEMMA Unclean ==
    ASSUME Typed, NEW p \in Pages, Rolling(p), HandlerStep(p), ~CleanupStep(Handler(p)), ~CallNavigate(p)
    PROVE  ~h'[p].clean
  <1>0. h \in [Pages -> Command] /\ (h[p].clean => pc[Handler(p)] \in {"wait", "roll"})
        /\ ~NoCommand.clean /\ \A op, f, c : ~Started(p, op, f, c).clean
    BY DEF Typed, Goroutines, Rolling, NoCommand, Started
  <1>1. ASSUME NEW k, h' = [h EXCEPT ![p] = k], ~k.clean PROVE ~h'[p].clean
    BY <1>0, <1>1
  <1>2. ASSUME pc[Handler(p)] \notin {"wait", "roll"}, NEW k,
               h' = [h EXCEPT ![p] = k],
               \/ \E f : k = [h[p] EXCEPT !.frame = f]
               \/ \E c, u : k = [h[p] EXCEPT !.ctx = c, !.unowned = u]
               \/ \E c, i, u : k = [h[p] EXCEPT !.ctx = c, !.number = i, !.unowned = u]
               \/ \E o : k = [h[p] EXCEPT !.op = o]
        PROVE  ~h'[p].clean
    <2>1. ~k.clean
      BY <1>0, <1>2 DEF Command
    <2> QED BY <1>1, <1>2, <2>1
  <1>3. CASE Navigate(p) \/ SetContent(p) \/ Reload(p) \/ GetLayoutMetrics(p) \/ GetFrameTree(p)
    <2>1. \E op, f, c : h' = [h EXCEPT ![p] = Started(p, op, f, c)]
      BY <1>3 DEF Navigate, SetContent, Reload, GetLayoutMetrics, GetFrameTree, Then, ThenSend
    <2> QED BY <1>0, <1>1, <2>1
  <1>4. CASE AwaitRollover(p) \/ RolloverTimesOut(p) \/ NameFrame(p) \/ RecordIsolatedWorld(p)
    BY <1>0, <1>1, <1>4 DEF AwaitRollover, RolloverTimesOut, NameFrame, RecordIsolatedWorld, Done, Then
  <1>5. CASE WaitForMainFrame(p) \/ LookUp(p) \/ ChooseContext(p) \/ WaitForAnyContext(p)
    <2>1. pc[Handler(p)] \notin {"wait", "roll"}
      BY <1>5 DEF WaitForMainFrame, LookUp, ChooseContext, WaitForAnyContext
    <2>2. CASE h' = [h EXCEPT ![p] = NoCommand]
      BY <1>0, <1>1, <2>2
    <2>3. CASE \E f : h' = [h EXCEPT ![p] = [h[p] EXCEPT !.frame = f]]
      BY <1>2, <2>1, <2>3
    <2>4. CASE \E c, u : h' = [h EXCEPT ![p] = [h[p] EXCEPT !.ctx = c, !.unowned = u]]
      BY <1>2, <2>1, <2>4
    <2>5. CASE \E c, i, u : h' = [h EXCEPT ![p] = [h[p] EXCEPT !.ctx = c, !.number = i, !.unowned = u]]
      BY <1>2, <2>1, <2>5
    <2>6. CASE UNCHANGED h
      BY <1>0, <2>1, <2>6
    <2>7. CASE WaitForMainFrame(p)
      BY <2>2, <2>3, <2>7 DEF WaitForMainFrame, Done, Then
    <2>8. CASE LookUp(p)
      BY <2>5, <2>6, <2>8 DEF LookUp, Then
    <2>9. CASE ChooseContext(p) \/ WaitForAnyContext(p)
      BY <2>2, <2>4, <2>6, <2>9 DEF ChooseContext, WaitForAnyContext, Evaluate, ThenSend, Done, Then
    <2> QED BY <1>5, <2>7, <2>8, <2>9
  <1>6. CASE PollFrame(p) \/ ReadFrameAgain(p) \/ WriteContent(p)
    <2>1. pc[Handler(p)] \notin {"wait", "roll"}
      BY <1>6 DEF PollFrame, ReadFrameAgain, WriteContent
    <2> QED BY <1>2, <1>6, <2>1 DEF PollFrame, ReadFrameAgain, WriteContent, ThenSend, Then
  <1>7. CASE ProbeForFrame(p) \/ EnableRuntime(p)
    BY <1>0, <1>7 DEF ProbeForFrame, EnableRuntime, Begin
  <1>8. CASE CreateIsolatedWorld(p)
    <2>1. PICK w \in Worlds : h' = [h EXCEPT ![p] = [Started(p, "isolatedWorld", NoFrame, NoCtx) EXCEPT !.world = w]]
      BY <1>8 DEF CreateIsolatedWorld, Then
    <2>2. ~[Started(p, "isolatedWorld", NoFrame, NoCtx) EXCEPT !.world = w].clean
      BY DEF Started, NoCommand
    <2> QED BY <1>1, <2>1, <2>2
  <1>9. CASE Ask(p)
    <2>1. PICK op, c, i, u :
            h' = [h EXCEPT ![p] = [Started(p, op, NoFrame, c) EXCEPT !.number = i, !.unowned = u]]
      BY <1>9 DEF Ask, Then
    <2>2. ~[Started(p, op, NoFrame, c) EXCEPT !.number = i, !.unowned = u].clean
      BY DEF Started, NoCommand
    <2> QED BY <1>1, <2>1, <2>2
  <1> QED BY <1>3, <1>4, <1>5, <1>6, <1>7, <1>8, <1>9 DEF HandlerStep

LEMMA RollingCalls ==
    ASSUME Typed, NEW p \in Pages, Rolling(p), CallNavigate(p)
    PROVE  Rolling(p)'
  <1> DEFINE k == [h[p] EXCEPT !.prior = Latest(p), !.from = docs[p], !.clean = ~Unread(p)]
  <1>1. pc[Handler(p)] = "prior" /\ h' = [h EXCEPT ![p] = k] /\ Goto(Handler(p), "wait")
        /\ UNCHANGED <<ev, page, docs, queue, latestCtx, sessions>>
    BY DEF CallNavigate, ThenSend, Send, Local, bridge, browser
  <1>2. h[p] \in Command /\ h[p].op \in {"navigate", "fragment"} /\ docs[p] \in Nat
    BY <1>1 DEF Typed, Goroutines, Browser
  <1>3. h'[p] = k /\ pc'[Handler(p)] = "wait"
    BY <1>1, GotoFacts, ThreadFacts DEF HandlerPCs, Typed, Goroutines
  <1>4. k.op = h[p].op /\ k.prior = Latest(p) /\ k.from = docs[p] /\ k.clean = ~Unread(p)
    BY <1>2 DEF Command
  <1>5. page[p] # "new" /\ ~Has(queue, Attaches(p))
    BY <1>1 DEF Rolling
  <1>6. \A e \in Makes(p) : Has(queue, {e}) \/ ev.event = e => Unread(p)
    BY DEF Unread, Has, Makes, Of
  <1>7. p \in sessions => k.prior = latestCtx[p]
    BY <1>4 DEF Latest
  <1> HIDE DEF k
  <1>8. page'[p] # "new" /\ ~Has(queue', Attaches(p))
    BY <1>1, <1>5
  <1>9. h'[p].op \in {"navigate", "fragment"} /\ h'[p].from <= docs'[p]
    BY <1>1, <1>2, <1>3, <1>4
  <1>10. ASSUME h'[p].clean, NEW e \in Makes(p), Has(queue', {e}) \/ ev'.event = e
         PROVE  FALSE
    <2>1. Has(queue, {e}) \/ ev.event = e
      BY <1>1, <1>10
    <2>2. Unread(p)
      BY <2>1, <1>6, <1>10
    <2> QED BY <2>2, <1>3, <1>4, <1>10
  <1>11. ~(p \in sessions' /\ latestCtx'[p] \notin {NoCtx, h'[p].prior})
    BY <1>1, <1>3, <1>7
  <1> QED BY <1>3, <1>8, <1>9, <1>10, <1>11 DEF Rolling

LEMMA RollingKept ==
    ASSUME NEW p \in Pages
    PROVE  Typed /\ Owners /\ Calls /\ Unborn(p) /\ Rolling(p) /\ [Next]_vars => Rolling(p)'
  <1> SUFFICES ASSUME Typed, Owners, Calls, Unborn(p), Rolling(p), [Next]_vars PROVE Rolling(p)'
    OBVIOUS
  <1>1. ASSUME h'[p] = h[p], pc'[Handler(p)] = pc[Handler(p)], UNCHANGED <<ev, page, docs, queue, latestCtx, sessions>>
        PROVE  Rolling(p)'
    <2>1. h[p].clean => h[p].from <= docs'[p]
      BY <1>1 DEF Rolling
    <2> QED BY <1>1, <2>1, RollingOn
  <1>2. ASSUME NEW t \in Threads, CleanupStep(t) PROVE Rolling(p)'
    BY <1>2, RollingCleanup
  <1>3. CASE ReaderStep
    BY <1>2, <1>3, RollingReads, ThreadFacts
  <1>4. ASSUME NEW q \in Pages, HandlerStep(q) PROVE Rolling(p)'
    <2>1. CASE CleanupStep(Handler(q))
      BY <1>2, <2>1, ThreadFacts
    <2>2. CASE Commanded(q) /\ q # p
      <3>1. h'[p] = h[p] /\ pc'[Handler(p)] = pc[Handler(p)]
        BY <2>2, ThreadFacts DEF Commanded, Proceeds, Typed, Goroutines
      <3> QED BY <1>1, <2>2, <3>1 DEF Commanded, browser
    <2>3. CASE Commanded(q) /\ q = p /\ ~CleanupStep(Handler(p)) /\ ~CallNavigate(p)
      <3>1. ~h'[p].clean /\ UNCHANGED <<page, queue>>
        BY <1>4, <2>3, Unclean DEF Commanded, browser
      <3>2. page[p] # "new" /\ ~Has(queue, Attaches(p))
        BY <1>4, <2>3, Begins DEF Unborn, Rolling
      <3> QED BY <3>1, <3>2 DEF Rolling
    <2> QED BY <1>4, <2>1, <2>2, <2>3, Commands, RollingCalls
  <1>5. ASSUME NEW q \in Pages, EnableStores(q) PROVE Rolling(p)'
    BY <1>1, <1>5 DEF EnableStores, browser
  <1>6. ASSUME NEW q \in Pages, CleanupStep(Closer(q)) PROVE Rolling(p)'
    BY <1>2, <1>6, ThreadFacts
  <1>7. CASE UNCHANGED vars
    BY <1>1, <1>7 DEF vars, bridge, browser
  <1> QED BY <1>3, <1>4, <1>5, <1>6, <1>7, RollingBrowser, RollingServes DEF Next

------------------------------------------------------------------------------
(* Theorems.                                                                *)

\* Every variable keeps its type, in particular the caches hold contexts and frames
\* that the browser has, and a context that exists is of its page's document now.
THEOREM TypeCorrect == Spec => []TypeOK
  <1>1. Typed => TypeOK
    <2>1. ASSUME Caches PROVE /\ \A i \in DOMAIN ctxMap :
                                   ctxMap[i] \in [ctx : AllCtx, owner : Pages \cup {NoPage}, world : Worlds \cup {"main"}]
                              /\ \A p \in Pages : isolatedWorlds[p] \in Seq(Worlds)
      BY <2>1 DEF Caches, Entry, AnyPage, AnyWorld
    <2> QED BY <2>1 DEF Typed, Caches, Goroutines, Browser, TypeOK, AnyFrame, AnyCtx
  <1> QED BY <1>1, AlwaysTyped, PTL

\* Whichever unique id or number a client gives for a context, of its page, of another or
\* of none, and whatever is stored, cleared and forgotten between the check, the lookup and
\* the choice of the context, which are three critical sections: what the check found owned
\* by the session is evaluated in a context of its page or in none (contextOwned,
\* uniqueContextOwned, handleEvaluate, handleCallFunctionOn, createIsolatedWorld).  A name
\* that nobody owned when it was checked passes the check; the theorem says nothing of it
\* if there is no latest context to replace it.
THEOREM ContextsOwn == Spec => []OwnContext
  <1> DEFINE Inv == Typed /\ Owners /\ Calls /\ \A p \in Pages : Asked(p)
  <1>1. Init => Inv
    <2> SUFFICES ASSUME Init PROVE Inv
      OBVIOUS
    <2>1. Typed /\ Owners
      BY TypedInit
    <2>2. /\ \A t \in Threads : pc[t] = "idle" /\ inbox[t] = NoEvent
          /\ queue = <<>> /\ DOMAIN queue = {}
      BY DEF Init
    <2>3. Calls
      BY <2>2, ThreadFacts DEF Calls, Once, Has
    <2>4. \A p \in Pages : Asked(p)
      BY <2>2, ThreadFacts DEF Asked
    <2> QED BY <2>1, <2>3, <2>4
  <1>2. Inv /\ [Next]_vars => Inv'
    <2> SUFFICES ASSUME Inv, [Next]_vars PROVE Inv'
      OBVIOUS
    <2>1. \A p \in Pages : Asked(p)'
      BY AskedKept
    <2> QED BY <2>1, TypedNext, CallsKept
  <1>3. Inv => OwnContext
    <2>1. NoEvent.kind = "none"
      BY DEF NoEvent
    <2> QED BY <2>1 DEF Asked, OwnContext, Own
  <1> QED BY <1>1, <1>2, <1>3, PTL DEF Spec

\* When the read loop has taken all that the browser wrote about an open page, the
\* latest context of its session is the one the page made last: over navigations that
\* replace the main frame, subframes that come and go, contexts reported before their
\* session, and cleanups that other goroutines run in between (the handler of
\* Runtime.executionContextCreated, clearConnectionState).
THEOREM NewestKnown == Spec => []LatestIsNewest
  <1> DEFINE Inv == Typed /\ Owners /\ Calls /\ Cleaning /\ LastMade /\ Latests
  <1>1. Init => Inv
    <2> SUFFICES ASSUME Init PROVE Inv
      OBVIOUS
    <2>1. Typed /\ Owners
      BY TypedInit
    <2>2. queue = <<>> /\ DOMAIN queue = {}
      BY DEF Init
    <2>3. \A t \in Threads : pc[t] = "idle" /\ inbox[t] = NoEvent
      BY DEF Init
    <2>4. Calls
      BY <2>2, <2>3, ThreadFacts DEF Calls, Once, Has
    <2>5. Cleaning
      BY <2>3, ThreadFacts DEF Cleaning
    <2>6. LastMade
      BY <2>2 DEF LastMade, Follows
    <2>7. Latests
      BY DEF Init, Latests
    <2> QED BY <2>1, <2>4, <2>5, <2>6, <2>7
  <1>2. Inv /\ [Next]_vars => Inv'
    BY TypedNext, CallsKept, CleaningKept, LatestKept
  <1>3. Inv => LatestIsNewest
    <2> SUFFICES ASSUME Inv, NEW p \in Pages, Open(p), CaughtUp(p) PROVE latestCtx[p] = newest[p]
      BY DEF LatestIsNewest
    <2>1. page[p] # "new" /\ p \notin cleaned /\ ~Storing(p)
      BY DEF Open, CaughtUp, Storing
    <2>2. ~Has(queue, MakesCtx(p, newest[p]))
      <3>1. \A e \in MakesCtx(p, newest[p]) : e.kind # "reply" /\ e.page = p
        BY DEF MakesCtx, Makes, Of
      <3> QED BY <3>1 DEF CaughtUp, Has
    <2> QED BY <2>1, <2>2 DEF Latests
  <1> QED BY <1>1, <1>2, <1>3, PTL DEF Spec

\* When the read loop has taken all that the browser wrote about an open page, and the
\* latest context of its session exists, each isolated world that was announced again
\* with it and not cleared since has a number that leads to it, the session and the world:
\* over contexts that are destroyed (when any number of a context may be dropped, not only
\* the one meant), made anew and stored one map after the other, navigations that start and
\* never commit, and the cleanups of other pages (the handlers of
\* Runtime.executionContextCreated, executionContextDestroyed, executionContextsCleared
\* and, on BiDi, Page.navigationCommitted; clearConnectionState).
THEOREM WorldsStay == Spec => []WorldsFollow
  <1> DEFINE Inv == Typed /\ Owners /\ Calls /\ Cleaning /\ Worldly
  <1>1. Init => Inv
    <2> SUFFICES ASSUME Init PROVE Inv
      OBVIOUS
    <2>1. Typed /\ Owners
      BY TypedInit
    <2>2. DOMAIN queue = {} /\ pc[Reader] = "idle" /\ \A p \in Pages : reEmitted[p] = {}
      BY ThreadFacts DEF Init
    <2>3. \A t \in Threads : pc[t] = "idle" /\ inbox[t] = NoEvent
      BY DEF Init
    <2>4. Calls /\ Cleaning
      BY <2>2, <2>3, ThreadFacts DEF Calls, Once, Has, Cleaning
    <2>5. Worldly
      BY <2>2 DEF Worldly, EndsDead, Has, Numbered, Worldless, Announced, Learning, Learns
    <2> QED BY <2>1, <2>4, <2>5
  <1>2. Inv /\ [Next]_vars => Inv'
    BY TypedNext, CallsKept, CleaningKept, WorldsKept
  <1>3. Inv => WorldsFollow
    <2> SUFFICES ASSUME Inv, NEW p \in Pages, Open(p), CaughtUp(p), latestCtx[p] \in live, NEW w \in reEmitted[p]
                 PROVE  [ctx |-> latestCtx[p], owner |-> p, world |-> w] \in {ctxMap[i] : i \in DOMAIN ctxMap}
      BY DEF WorldsFollow
    <2>1. p \notin cleaned /\ pc[Reader] = "idle"
      BY DEF Open, CaughtUp
    <2>2. ~Has(queue, Makes(p))
      <3>1. \A e \in Makes(p) : e.kind # "reply" /\ e.page = p
        BY DEF Makes, Of
      <3> QED BY <3>1 DEF CaughtUp, Has
    <2>3. Settled(p)
      BY <2>1, <2>2 DEF Settled, Learning, Learns
    <2>4. Leads(p, w)
      BY <2>1, <2>3 DEF Worldly, Announced, Coming
    <2> QED BY <2>4 DEF Leads
  <1> QED BY <1>1, <1>2, <1>3, PTL DEF Spec

\* When the read loop has taken all that the browser wrote about an open page, the frame
\* its session takes for the main one is the page's: over navigations that replace the
\* main frame, subframes that come, navigate and go, frames told before their session,
\* and cleanups that other goroutines run in between (refreshMainFrame,
\* pendingFrameIDs, noteSubFrame, clearConnectionState).
THEOREM MainKnown == Spec => []FramesAgree
  <1> DEFINE Inv == Typed /\ Owners /\ Calls /\ Cleaning /\ \A p \in Pages : FramesKnown(p)
  <1>1. Init => Inv
    BY FramesInit
  <1>2. Inv /\ [Next]_vars => Inv'
    <2> SUFFICES ASSUME Inv, [Next]_vars PROVE Inv'
      OBVIOUS
    <2>1. \A p \in Pages : FramesKnown(p)'
      BY FramesKept
    <2> QED BY <2>1, TypedNext, CallsKept, CleaningKept
  <1>3. Inv => FramesAgree
    <2> SUFFICES ASSUME Inv, NEW p \in Pages, Open(p), CaughtUp(p) PROVE frameID[p] = mainFrame[p]
      BY DEF FramesAgree
    <2>1. p \in sessions /\ p \notin cleaned /\ page[p] = "live" /\ MainNoted(p)
      BY DEF Open, FramesKnown
    <2>2. ~Has(queue, Of(p))
      <3>1. \A e \in Of(p) : e.kind # "reply" /\ e.page = p
        BY DEF Of, PageEvents, Made, Gone, FrameNews, PageNews, FrameKinds, PageKinds, Event
      <3> QED BY <3>1 DEF CaughtUp, Has
    <2>3. Names(p, mainFrame[p]) \cup MadeIn(p, mainFrame[p]) \subseteq Of(p)
      BY DEF Names, Comes, Moves, MadeIn, Makes
    <2>4. ~Has(queue, Names(p, mainFrame[p])) /\ ~FirstIs(queue, Makes(p), MadeIn(p, mainFrame[p]))
      BY <2>2, <2>3 DEF Has, FirstIs
    <2> QED BY <2>1, <2>4 DEF MainNoted, Noted
  <1> QED BY <1>1, <1>2, <1>3, PTL DEF Spec

\* A navigation that waits until the latest context is another one, and had read all that
\* were made before, ends in a document after the one it began in, or with a subframe's
\* context: no context of the old document that is reported late ends the wait
\* (waitForContext of Page.navigate).
THEOREM GoesForward == Spec => NavigatesForward
  <1> DEFINE Forward == \A p \in Pages : AwaitRollover(p) /\ h[p].clean
                            => Latest(p)[2] \in Subs \/ Latest(p)[3] > h[p].from
             Inv == /\ Typed /\ Owners /\ Calls /\ Cleaning
                    /\ \A p \in Pages : FramesKnown(p) /\ Rolling(p)
  <1>1. Init => Inv
    <2> SUFFICES ASSUME Init PROVE Inv
      OBVIOUS
    <2>1. Typed /\ Owners /\ Calls /\ Cleaning /\ \A p \in Pages : FramesKnown(p)
      BY FramesInit
    <2>2. \A p \in Pages : pc[Handler(p)] = "idle" /\ h[p] = NoCommand
      BY ThreadFacts DEF Init
    <2>3. \A p \in Pages : Rolling(p)
      BY <2>2 DEF Rolling, NoCommand
    <2> QED BY <2>1, <2>3
  <1>2. Inv /\ [Next]_vars => Inv'
    <2> SUFFICES ASSUME Inv, [Next]_vars PROVE Inv'
      OBVIOUS
    <2>1. ASSUME NEW p \in Pages PROVE FramesKnown(p)' /\ Rolling(p)'
      <3>1. FramesKnown(p) /\ Rolling(p) /\ Unborn(p)
        BY DEF FramesKnown
      <3> QED BY <3>1, FramesKept, RollingKept
    <2> QED BY <2>1, TypedNext, CallsKept, CleaningKept
  <1>3. Inv /\ [Next]_vars => [Forward]_vars
    <2> SUFFICES ASSUME Inv, NEW p \in Pages, AwaitRollover(p), h[p].clean
                 PROVE  Latest(p)[2] \in Subs \/ Latest(p)[3] > h[p].from
      OBVIOUS
    <2>1. p \in sessions /\ Latest(p) = latestCtx[p] /\ latestCtx[p] \notin {NoCtx, h[p].prior}
      BY DEF AwaitRollover, RolledOver, Latest
    <2>2. Rolling(p)
      OBVIOUS
    <2> QED BY <2>1, <2>2 DEF Rolling, Fresh
  <1> HIDE DEF Inv
  <1>4. Spec => [][Forward]_vars
    BY <1>1, <1>2, <1>3, PTL DEF Spec
  <1> QED BY <1>4 DEF NavigatesForward
=============================================================================
