------------------------------ MODULE HeldProofs ------------------------------
(***************************************************************************)
(* Theorems about what a client holds on to, for any pages, tasks, programs *)
(* and bounds:                                                              *)
(*   HandlesStay     what a client holds that keeps to its own objects is   *)
(*                   good, whatever objects other clients name              *)
(*   SelectorsMatch  a remembered selector meets the function it is for     *)
(***************************************************************************)
EXTENDS HandlesProofs, FiniteSetTheorems

------------------------------------------------------------------------------
(* Objects and nodes: what a client holds that names objects it was given on *)
(* its own page alone.                                                       *)

Stored(p, o)  == \E i \in DOMAIN nodeObjects : nodeObjects[i] = [obj |-> o, owner |-> p]
Own(p, o)     == o = NoObject \/ o[1] = p

\* The nodes of such a client lead to objects of its page.
NodesOwn ==
    \A i \in DOMAIN nodeObjects :
        KeepsToItsOwn(nodeObjects[i].owner) => nodeObjects[i].obj[1] = nodeObjects[i].owner

\* Objects were made, those any client holds.
Made(o) == o = NoObject \/ o[2] <= made[o[1]]
AllMade ==
    /\ \A o \in disposed : Made(o)
    /\ \A i \in DOMAIN nodeObjects : Made(nodeObjects[i].obj)
    /\ \A p \in Pages : Made(call[p].obj) /\ \A k \in Tasks : Made(tasks[p][k].obj)

\* A node id that is allocated and not stored is one handler's.
Reserved ==
    \A p \in Pages :
        pc[p] \in {"store", "note"} =>
            /\ h[p].id \notin DOMAIN nodeObjects
            /\ \A q \in Pages : q # p /\ pc[q] \in {"store", "note"} => h[q].id # h[p].id

\* What a handler works on is its page's own, and nobody disposes of it meanwhile.
Disposing(p) == call[p].kind = "dispose" /\ call[p].result # "sent"
Busy(p) ==
    pc[p] # "idle" =>
        LET t == tasks[p][h[p].task]
        IN  /\ Own(p, t.obj)
            /\ t.obj \in disposed => Disposing(p)
Calls(p) ==
    /\ Own(p, call[p].obj)
    /\ pc[p] = "idle" => call[p] = NoCall
    /\ call[p].kind = "dispose" => pc[p] = "used" /\ h[p].cmd = "release"
    /\ call[p].kind = "dispose" /\ call[p].result = "sent" => ~Stored(p, call[p].obj)
    /\ pc[p] \in Quiet => call[p] = NoCall
    /\ call[p].result = "sent" /\ call[p].obj # NoObject => call[p].obj = tasks[p][h[p].task].obj

\* An object just made is in no task, under no node.
Fresh(p) ==
    pc[p] \in Finding /\ call[p].obj # NoObject =>
        /\ call[p].obj \notin disposed /\ ~Stored(p, call[p].obj)
        /\ \A k \in Tasks : tasks[p][k].obj # call[p].obj
        /\ pc[p] = "note" \/ call[p].result = "ok"

\* A task's object is its page's own; and of an open page two tasks hold the same object
\* only if a node leads to it.
Owned(p) == \A k \in Tasks : Own(p, tasks[p][k].obj)
Apart(p) ==
    \A k, l \in Tasks : k # l /\ tasks[p][k].obj = tasks[p][l].obj /\ tasks[p][k].obj # NoObject
                             => Stored(p, tasks[p][k].obj)
Alive(p) ==
    /\ \A o \in disposed : ~Stored(p, o)
    /\ \A k \in Tasks : tasks[p][k].obj \in disposed =>
           pc[p] # "idle" /\ h[p].task = k /\ Disposing(p)
Held(p) == Owned(p) /\ (p \notin cleaned => Apart(p) /\ Alive(p))

\* A node id that a task was told leads to the object it asked about, which it still holds.
Described(p) ==
    p \notin cleaned =>
        /\ \A k \in Tasks :
              LET t == tasks[p][k]
              IN  t.of # NoObject => Leads(p, t.node, t.of) /\ t.obj = t.of
        /\ pc[p] \in Describing => Leads(p, h[p].id, tasks[p][h[p].task].obj)
        /\ pc[p] = "resolved" => tasks[p][h[p].task].of = NoObject

\* A command that released its object is its program's last.
Released(p) ==
    pc[p] = "used" /\ h[p].cmd = "release" =>
        LET t == tasks[p][h[p].task] IN t.at >= Len(Programs[t.prog])

PageKept(p) == Busy(p) /\ Calls(p) /\ Fresh(p) /\ Held(p) /\ Described(p) /\ Released(p)
Kept == NodesOwn /\ AllMade /\ Reserved /\ \A p \in Pages : KeepsToItsOwn(p) => PageKept(p)

------------------------------------------------------------------------------
(* A handler's step may store one object, its page's own, under an id that  *)
(* was its own.                                                             *)

Notes(p, o) ==
    /\ nodeObjects' = With(nodeObjects, h[p].id, [obj |-> o, owner |-> p])
    /\ objectOwners' = With(objectOwners, o, p)

LEMMA StoringStep ==
    ASSUME NEW p \in Pages, HandlerStep(p), pc[p] = "store"
    PROVE  StoreNode(p)
  <1>1. \A k \in Tasks : ~Refuse(p, k) /\ \A S : ~Takes(p, k, S)
    BY DEF Takes, Refuse
  <1>2. ASSUME NEW k \in Tasks
        PROVE  /\ ~StoreSelector(p, k) /\ ~CallFunction(p, k) /\ ~Evaluate(p, k)
               /\ ~ReleaseObject(p, k) /\ ~GetDocument(p, k) /\ ~DescribeNode(p, k)
               /\ ~ResolveNode(p, k) /\ ~HandleDialog(p, k) /\ ~PrintToPDF(p, k)
               /\ ~ReadStream(p, k) /\ ~CloseStream(p, k)
    BY <1>1 DEF StoreSelector, CallFunction, Evaluate, ReleaseObject, GetDocument, DescribeNode,
                ResolveNode, HandleDialog, PrintToPDF, ReadStream, CloseStream
  <1>3. ASSUME NEW k \in Tasks
        PROVE  /\ ~GetProperties(p, k) /\ ~GetBoxModel(p, k) /\ ~GetOuterHTML(p, k)
               /\ ~GetContentQuads(p, k) /\ ~Focus(p, k) /\ ~SetFileInputFiles(p, k)
    BY <1>1 DEF GetProperties, GetBoxModel, GetOuterHTML, GetContentQuads, Focus,
                SetFileInputFiles, UseObject
  <1>4. /\ ~StoreSkips(p) /\ ~QueryReturns(p) /\ ~NoteObject(p) /\ ~ClearPending(p) /\ ~Count(p)
        /\ ~Skip(p) /\ ~Combine(p) /\ ~CombineReturns(p) /\ ~FunctionReturns(p)
        /\ ~EvaluateReturns(p) /\ ~UseReturns(p) /\ ~QuerySelector(p) /\ ~QuerySelectorAll(p)
        /\ ~DescribeReturns(p) /\ ~ResolveReturns(p) /\ ~StoreStream(p)
    BY DEF StoreSkips, QueryReturns, NoteObject, ClearPending, Count, Skip, Combine,
           CombineReturns, FunctionReturns, EvaluateReturns, UseReturns, QuerySelector,
           QuerySelectorAll, DescribeReturns, ResolveReturns, StoreStream, Ended
  <1> QED BY <1>1, <1>2, <1>3, <1>4 DEF HandlerStep

LEMMA StoresMove ==
    ASSUME NEW p \in Pages, HandlerStep(p)
    PROVE  \/ pc[p] # "store" /\ UNCHANGED <<nodeObjects, objectOwners>>
           \/ pc[p] = "note" /\ Notes(p, call[p].obj)
           \/ pc[p] = "store" /\ Notes(p, Mine(p).obj)
  <1>1. UNCHANGED Kepts => UNCHANGED <<nodeObjects, objectOwners>>
    BY DEF Kepts
  <1>2. ASSUME \E k \in Tasks : StoreSelector(p, k) \/ DescribeNode(p, k) \/ HandleDialog(p, k)
                              \/ CloseStream(p, k)
        PROVE  UNCHANGED <<nodeObjects, objectOwners>>
    BY <1>2 DEF StoreSelector, DescribeNode, HandleDialog, CloseStream, nodes
  <1>3. ASSUME \/ StoreSkips(p) \/ QueryReturns(p) \/ ClearPending(p) \/ Skip(p) \/ Combine(p)
               \/ QuerySelector(p) \/ StoreStream(p)
        PROVE  UNCHANGED <<nodeObjects, objectOwners>>
    BY <1>3 DEF StoreSkips, QueryReturns, ClearPending, Skip, Combine, QuerySelector, StoreStream, nodes
  <1>4. CASE NoteObject(p)
    BY <1>4 DEF NoteObject, Notes
  <1>5. pc[p] = "store" => Notes(p, Mine(p).obj)
    BY StoringStep DEF StoreNode, Notes
  <1>6. StoreNode(p) => pc[p] = "store"
    BY DEF StoreNode
  <1> QED BY <1>1, <1>2, <1>3, <1>4, <1>5, <1>6, QuietHandler DEF Storing

\* What a handler stores is an object; that of a client that keeps to its own is one of
\* its page that nobody disposed of.
LEMMA StoredIsGood ==
    ASSUME Typed, Kept, NEW p \in Pages
    PROVE  /\ pc[p] = "note" => /\ call[p].obj \in Objects /\ Made(call[p].obj)
                                /\ KeepsToItsOwn(p) => call[p].obj[1] = p /\ call[p].obj \notin disposed
           /\ pc[p] = "store" => /\ Mine(p).obj \in Objects /\ Made(Mine(p).obj)
                                 /\ KeepsToItsOwn(p) => Mine(p).obj[1] = p /\ Mine(p).obj \notin disposed
  <1>1. AllMade /\ (KeepsToItsOwn(p) => Busy(p) /\ Calls(p) /\ Fresh(p))
    BY DEF Kept, PageKept
  <1>2. ASSUME pc[p] = "note"
        PROVE  /\ call[p].obj \in Objects
               /\ KeepsToItsOwn(p) => call[p].obj[1] = p /\ call[p].obj \notin disposed
    <2>1. call[p].obj # NoObject /\ call[p].obj \in AnyObject
      BY <1>2, MineTyped DEF Typed, InHand
    <2> QED BY <1>1, <1>2, <2>1 DEF Calls, Fresh, Own, Finding, AnyObject
  <1>3. ASSUME pc[p] = "store"
        PROVE  /\ Mine(p).obj \in Objects /\ Made(Mine(p).obj)
               /\ KeepsToItsOwn(p) => Mine(p).obj[1] = p /\ Mine(p).obj \notin disposed
    <2>1. Mine(p).obj # NoObject /\ Mine(p).obj \in AnyObject /\ h[p].task \in Tasks
      BY <1>3, MineTyped DEF Typed, InHand, Mine
    <2>2. KeepsToItsOwn(p) => ~Disposing(p)
      BY <1>1, <1>3 DEF Calls, Disposing
    <2> QED BY <1>1, <1>3, <2>1, <2>2 DEF Busy, Own, Mine, AnyObject, AllMade
  <1> QED BY <1>1, <1>2, <1>3 DEF AllMade

LEMMA Growth ==
    ASSUME Typed, Kept, NEW p \in Pages, HandlerStep(p)
    PROVE  /\ \A q \in Pages, i \in Nat, o \in AnyObject : Leads(q, i, o) => Leads(q, i, o)'
           /\ \A q \in Pages, o \in AnyObject : Stored(q, o) => Stored(q, o)'
           /\ \A q \in Pages, o \in AnyObject :
                 Stored(q, o)' => \/ Stored(q, o)
                                  \/ q = p /\ (KeepsToItsOwn(p) => o[1] = p /\ o \notin disposed)
           /\ NodesOwn'
           /\ \A q \in Pages : q # p /\ pc[q] \in {"store", "note"} => h[q].id \notin DOMAIN nodeObjects'
           /\ \A i \in DOMAIN nodeObjects' : Made(nodeObjects'[i].obj)
           /\ \A i \in Nat, o \in AnyObject :
                 pc[p] = "store" /\ i = h[p].id /\ o = Mine(p).obj => Leads(p, i, o)'
           /\ pc[p] \notin {"note", "store"} => nodeObjects' = nodeObjects
  <1>0. NodesOwn /\ Reserved /\ AllMade /\ made' = made /\ scenario' = scenario
    BY DEF Kept, HandlerStep, browser
  <1>1. ASSUME nodeObjects' = nodeObjects
        PROVE  /\ \A q \in Pages, i \in Nat, o \in AnyObject : Leads(q, i, o) => Leads(q, i, o)'
               /\ \A q \in Pages, o \in AnyObject : Stored(q, o)' <=> Stored(q, o)
               /\ NodesOwn'
               /\ \A q \in Pages : q # p /\ pc[q] \in {"store", "note"} => h[q].id \notin DOMAIN nodeObjects'
               /\ \A i \in DOMAIN nodeObjects' : Made(nodeObjects'[i].obj)
    BY <1>0, <1>1 DEF Leads, Stored, NodesOwn, Reserved, AllMade, KeepsToItsOwn
  <1>2. ASSUME NEW o \in Objects, Made(o), KeepsToItsOwn(p) => o[1] = p /\ o \notin disposed,
               Notes(p, o), pc[p] \in {"note", "store"}
        PROVE  /\ \A q \in Pages, i \in Nat, x \in AnyObject : Leads(q, i, x) => Leads(q, i, x)'
               /\ \A q \in Pages, x \in AnyObject : Stored(q, x) => Stored(q, x)'
               /\ \A q \in Pages, x \in AnyObject :
                     Stored(q, x)' => \/ Stored(q, x)
                                      \/ q = p /\ (KeepsToItsOwn(p) => x[1] = p /\ x \notin disposed)
               /\ NodesOwn'
               /\ \A q \in Pages : q # p /\ pc[q] \in {"store", "note"} => h[q].id \notin DOMAIN nodeObjects'
               /\ \A i \in DOMAIN nodeObjects' : Made(nodeObjects'[i].obj)
               /\ \A i \in Nat : i = h[p].id => Leads(p, i, o)'
    <2>1. /\ DOMAIN nodeObjects' = DOMAIN nodeObjects \cup {h[p].id}
          /\ nodeObjects'[h[p].id] = [obj |-> o, owner |-> p]
          /\ \A i \in DOMAIN nodeObjects : i # h[p].id => nodeObjects'[i] = nodeObjects[i]
      BY <1>2 DEF Notes, With
    <2>2. h[p].id \notin DOMAIN nodeObjects
      BY <1>0, <1>2 DEF Reserved
    <2>3. \A i \in DOMAIN nodeObjects : nodeObjects'[i] = nodeObjects[i]
      BY <2>1, <2>2
    <2>4. \A q \in Pages, i \in Nat, x \in AnyObject : Leads(q, i, x) => Leads(q, i, x)'
      BY <2>1, <2>3 DEF Leads
    <2>5. \A q \in Pages : \A x : Stored(q, x) => Stored(q, x)'
      BY <2>1, <2>3 DEF Stored
    <2>6. \A q \in Pages, x \in AnyObject :
             Stored(q, x)' => \/ Stored(q, x)
                              \/ q = p /\ (KeepsToItsOwn(p) => x[1] = p /\ x \notin disposed)
      <3> SUFFICES ASSUME NEW q \in Pages, NEW x \in AnyObject, Stored(q, x)'
                   PROVE  \/ Stored(q, x)
                          \/ q = p /\ (KeepsToItsOwn(p) => x[1] = p /\ x \notin disposed)
        OBVIOUS
      <3>1. PICK i \in DOMAIN nodeObjects' : nodeObjects'[i] = [obj |-> x, owner |-> q]
        BY DEF Stored
      <3>2. CASE i \in DOMAIN nodeObjects
        BY <2>3, <3>1, <3>2 DEF Stored
      <3>3. CASE i = h[p].id
        BY <1>2, <2>1, <3>1, <3>3
      <3> QED BY <2>1, <3>1, <3>2, <3>3
    <2>7. NodesOwn'
      <3> SUFFICES ASSUME NEW i \in DOMAIN nodeObjects', KeepsToItsOwn(nodeObjects'[i].owner)
                   PROVE  nodeObjects'[i].obj[1] = nodeObjects'[i].owner
        BY <1>0 DEF NodesOwn, KeepsToItsOwn
      <3>1. CASE i = h[p].id
        BY <1>2, <2>1, <3>1
      <3>2. CASE i \in DOMAIN nodeObjects
        BY <1>0, <2>3, <3>2 DEF NodesOwn
      <3> QED BY <2>1, <3>1, <3>2
    <2>8. \A q \in Pages : q # p /\ pc[q] \in {"store", "note"} => h[q].id \notin DOMAIN nodeObjects'
      BY <1>0, <1>2, <2>1 DEF Reserved
    <2>9. \A i \in DOMAIN nodeObjects' : Made(nodeObjects'[i].obj)
      BY <1>0, <1>2, <2>1, <2>3 DEF AllMade
    <2>10. \A i \in Nat : i = h[p].id => Leads(p, i, o)'
      BY <2>1 DEF Leads
    <2> QED BY <2>4, <2>5, <2>6, <2>7, <2>8, <2>9, <2>10
  <1>3. CASE pc[p] # "store" /\ UNCHANGED <<nodeObjects, objectOwners>>
    BY <1>1, <1>3
  <1>4. CASE pc[p] = "note" /\ Notes(p, call[p].obj)
    BY <1>2, <1>4, StoredIsGood
  <1>5. CASE pc[p] = "store" /\ Notes(p, Mine(p).obj)
    BY <1>2, <1>5, StoredIsGood
  <1> QED BY <1>3, <1>4, <1>5, StoresMove

------------------------------------------------------------------------------
(* A handler's step, for the other pages.                                   *)

LEMMA ObjectPage == \A o \in AnyObject : o # NoObject => o \in Objects /\ o[1] \in Pages
  BY DEF AnyObject, Objects

LEMMA HandlerIsNext == ASSUME NEW p \in Pages, HandlerStep(p) PROVE [Next]_vars
  BY DEF Next

LEMMA Elsewhere ==
    ASSUME Typed, Kept, NEW p \in Pages, HandlerStep(p), NEW q \in Pages, q # p, KeepsToItsOwn(q)
    PROVE  PageKept(q)'
  <1>0. PageKept(q)
    BY DEF Kept
  <1>1. /\ pc'[q] = pc[q] /\ h'[q] = h[q] /\ call'[q] = call[q] /\ tasks'[q] = tasks[q]
        /\ disposed' = disposed /\ cleaned' = cleaned
    BY OtherPages DEF HandlerStep, browser
  <1>2. /\ \A i \in Nat, o \in AnyObject : Leads(q, i, o) => Leads(q, i, o)'
        /\ \A o \in AnyObject : Stored(q, o)' => Stored(q, o)
        /\ \A o \in AnyObject : Stored(q, o) => Stored(q, o)'
    BY Growth
  <1>3. /\ call[q].obj \in AnyObject /\ disposed \subseteq AnyObject
        /\ \A k \in Tasks : /\ tasks[q][k] \in Task /\ tasks[q][k].obj \in AnyObject
                            /\ tasks[q][k].of \in AnyObject /\ tasks[q][k].node \in Nat
        /\ h[q].id \in Nat /\ (pc[q] # "idle" => h[q].task \in Tasks)
    BY MineTyped, TaskFields DEF Typed, World, Control, AnyObject, Command
  <1>4. Busy(q)'
    BY <1>0, <1>1 DEF PageKept, Busy, Own, Disposing
  <1>5. Calls(q)'
    BY <1>0, <1>1, <1>2, <1>3 DEF PageKept, Calls, Own, Stored
  <1>6. Fresh(q)'
    BY <1>0, <1>1, <1>2, <1>3 DEF PageKept, Fresh, Stored
  <1>7. Owned(q)'
    BY <1>0, <1>1 DEF PageKept, Held, Owned, Own
  <1>8. ASSUME q \notin cleaned PROVE Apart(q)'
    BY <1>0, <1>1, <1>2, <1>3, <1>8 DEF PageKept, Held, Apart, Stored
  <1>9. ASSUME q \notin cleaned PROVE Alive(q)'
    BY <1>0, <1>1, <1>2, <1>3, <1>9 DEF PageKept, Held, Alive, Disposing
  <1>10. ASSUME q \notin cleaned PROVE Described(q)'
    <2>1. ASSUME NEW i \in Nat, NEW o \in AnyObject, Leads(q, i, o)
          PROVE  i \in DOMAIN nodeObjects' /\ nodeObjects'[i] = [obj |-> o, owner |-> q]
      <3>1. Leads(q, i, o)'
        BY <1>2, <2>1
      <3> QED BY <3>1 DEF Leads
    <2>2. ASSUME NEW k \in Tasks
          PROVE  /\ tasks[q][k].of # NoObject
                       => /\ Leads(q, tasks[q][k].node, tasks[q][k].of)
                          /\ tasks[q][k].obj = tasks[q][k].of
      BY <1>0, <1>10 DEF PageKept, Described
    <2>3. ASSUME NEW k \in Tasks
          PROVE  tasks[q][k].of # NoObject
                       => /\ tasks[q][k].node \in DOMAIN nodeObjects'
                          /\ nodeObjects'[tasks[q][k].node] = [obj |-> tasks[q][k].of, owner |-> q]
      BY <1>3, <2>1, <2>2
    <2>4. pc[q] \in Describing
             => /\ h[q].id \in DOMAIN nodeObjects'
                /\ nodeObjects'[h[q].id] = [obj |-> tasks[q][h[q].task].obj, owner |-> q]
      <3> SUFFICES ASSUME pc[q] \in Describing
                   PROVE  /\ h[q].id \in DOMAIN nodeObjects'
                          /\ nodeObjects'[h[q].id] = [obj |-> tasks[q][h[q].task].obj, owner |-> q]
        OBVIOUS
      <3>1. Leads(q, h[q].id, tasks[q][h[q].task].obj) /\ pc[q] # "idle"
        BY <1>0, <1>10 DEF PageKept, Described, Describing
      <3> QED BY <1>3, <2>1, <3>1
    <2>5. pc[q] = "resolved" => tasks[q][h[q].task].of = NoObject
      BY <1>0, <1>10 DEF PageKept, Described
    <2> QED BY <1>1, <2>2, <2>3, <2>4, <2>5 DEF Described, Leads
  <1>11. Released(q)'
    BY <1>0, <1>1 DEF PageKept, Released
  <1> QED BY <1>1, <1>4, <1>5, <1>6, <1>7, <1>8, <1>9, <1>10, <1>11 DEF PageKept, Held, Described

------------------------------------------------------------------------------
(* Any handler's own page.                                                  *)

LEMMA HandlerMade ==
    ASSUME Typed, Kept, NEW p \in Pages, HandlerStep(p)
    PROVE  /\ Made(call'[p].obj) /\ \A k \in Tasks : Made(tasks'[p][k].obj)
           /\ pc'[p] \in {"store", "note"} => h'[p].id = ctxCounter + 1 /\ nodeObjects' = nodeObjects
  <1>0. AllMade /\ Made(NoObject) /\ NoCall.obj = NoObject /\ NoTask.obj = NoObject
    BY TypeFacts DEF Kept, Made
  <1>1. CASE Answers(p)
    <2>1. PICK k \in Tasks, t \in Task : \E g : Answer(p, k, g, t) /\ (g => Learned(p, k, t))
      BY <1>1 DEF Answers
    <2>2. PICK g : Answer(p, k, g, t) /\ (g => Learned(p, k, t))
      BY <2>1
    <2>3. /\ pc'[p] = "idle" /\ call'[p] = NoCall
          /\ \A l \in Tasks : l # k => tasks'[p][l] = tasks[p][l]
          /\ tasks'[p][k] = IF g /\ t.at < Len(Programs[t.prog]) THEN [t EXCEPT !.at = @ + 1] ELSE NoTask
      BY <2>2, AnswerEffect
    <2>4. g => Made(t.obj)
      <3>1. \A i \in Nat : Leads(p, i, t.obj) => Made(t.obj)
        BY <1>0 DEF Leads, AllMade
      <3>2. tasks[p][k].node \in Nat
        BY MineTyped, TaskFields DEF Typed, Control
      <3> QED BY <1>0, <2>2, <3>1, <3>2 DEF Learned, AllMade
    <2>5. Made(tasks'[p][k].obj)
      <3>1. CASE g /\ tasks'[p][k] = [t EXCEPT !.at = @ + 1]
        <4>1. tasks'[p][k].obj = t.obj
          BY <3>1 DEF Task
        <4> QED BY <2>4, <3>1, <4>1
      <3>2. CASE tasks'[p][k] = NoTask
        BY <1>0, <3>2
      <3> QED BY <2>3, <3>1, <3>2
    <2> QED BY <1>0, <2>3, <2>5 DEF AllMade
  <1>2. CASE GoesOn(p)
    <2>1. tasks' = tasks /\ Proceeds(p) /\ h'[p].task \in Tasks
      BY <1>2 DEF GoesOn
    <2>2. call'[p].obj \in {NoObject, call[p].obj, tasks[p][h'[p].task].obj}
      BY <2>1 DEF Proceeds, Prepares, Found, Asks
    <2>3. ASSUME pc'[p] = "note" PROVE h'[p].id = ctxCounter + 1 /\ nodeObjects' = nodeObjects
      BY <2>3, Enters, Growth DEF NextCtxID
    <2>4. ASSUME pc'[p] = "store" PROVE h'[p].id = ctxCounter + 1 /\ nodeObjects' = nodeObjects
      <3>1. PICK l \in Tasks : DescribeNode(p, l)
        BY <2>4, Enters
      <3> QED BY <3>1 DEF DescribeNode, NextCtxID, Typed, Control, NoCommand
    <2> QED BY <1>0, <2>1, <2>2, <2>3, <2>4 DEF AllMade
  <1> QED BY <1>1, <1>2, HandlerMoves

------------------------------------------------------------------------------
(* The handler's own page: it answers.                                      *)

LEMMA AnswersOwn ==
    ASSUME Typed, Kept, NEW p \in Pages, HandlerStep(p), Answers(p), KeepsToItsOwn(p)
    PROVE  PageKept(p)'
  <1>0. PageKept(p) /\ NodesOwn
    BY DEF Kept
  <1>1. PICK k \in Tasks, t \in Task : \E g :
            /\ Answer(p, k, g, t) /\ tasks[p][k].prog # "none" /\ Same(t, tasks[p][k])
            /\ pc[p] # "idle" => k = h[p].task
            /\ g => Learned(p, k, t)
    BY DEF Answers
  <1>2. PICK g : /\ Answer(p, k, g, t) /\ tasks[p][k].prog # "none" /\ Same(t, tasks[p][k])
                 /\ pc[p] # "idle" => k = h[p].task
                 /\ g => Learned(p, k, t)
    BY <1>1
  <1> DEFINE u == tasks[p][k]
  <1>3. /\ pc'[p] = "idle" /\ call'[p] = NoCall
        /\ \A l \in Tasks : l # k => tasks'[p][l] = tasks[p][l]
        /\ tasks'[p][k] = IF g /\ t.at < Len(Programs[t.prog]) THEN [t EXCEPT !.at = @ + 1] ELSE NoTask
    BY <1>2, AnswerEffect
  <1>4. disposed' = disposed /\ cleaned' = cleaned /\ made' = made
    BY DEF HandlerStep, browser
  <1>5. /\ \A i \in Nat, o \in AnyObject : Leads(p, i, o) => Leads(p, i, o)'
        /\ \A o \in AnyObject : Stored(p, o) => Stored(p, o)'
        /\ \A o \in AnyObject : Stored(p, o)' => Stored(p, o) \/ (o[1] = p /\ o \notin disposed)
    BY Growth
  <1>6. /\ call[p].obj \in AnyObject /\ disposed \subseteq AnyObject /\ NoObject \notin disposed
        /\ \A l \in Tasks : /\ tasks[p][l] \in Task /\ tasks[p][l].obj \in AnyObject
                            /\ tasks[p][l].of \in AnyObject /\ tasks[p][l].node \in Nat
        /\ h[p].id \in Nat
    BY MineTyped, TaskFields, ObjectFacts DEF Typed, World, Control, AnyObject, Command
  <1>7. /\ t.obj \in AnyObject /\ t.of \in AnyObject /\ t.node \in Nat /\ t.at \in Nat
        /\ t.prog \in DOMAIN Programs /\ t.prog = u.prog /\ t.at = u.at
    BY <1>2, TaskFields DEF Same
  <1>8. NoTask.obj = NoObject /\ NoTask.of = NoObject /\ NoTask.prog = "none" /\ NoCall.obj = NoObject
    BY TypeFacts
  <1>9. Busy(p)' /\ Fresh(p)' /\ Released(p)' /\ Calls(p)'
    BY <1>3, <1>8, TypeFacts, ObjectFacts
       DEF Busy, Fresh, Released, Calls, Own, Finding, Quiet, Describing
  \* The task that was answered and goes on.
  <1>10. ASSUME tasks'[p][k] # NoTask
         PROVE  /\ g /\ t.at < Len(Programs[t.prog]) /\ tasks'[p][k] = [t EXCEPT !.at = @ + 1]
                /\ tasks'[p][k].prog = t.prog /\ tasks'[p][k].at = t.at + 1
                /\ tasks'[p][k].obj = t.obj /\ tasks'[p][k].of = t.of /\ tasks'[p][k].node = t.node
                /\ Learned(p, k, t) /\ t.at \in 1 .. Len(Programs[t.prog])
    <2>1. g /\ t.at < Len(Programs[t.prog]) /\ tasks'[p][k] = [t EXCEPT !.at = @ + 1]
      BY <1>3, <1>10
    <2>2. /\ tasks'[p][k].prog = t.prog /\ tasks'[p][k].at = t.at + 1
          /\ tasks'[p][k].obj = t.obj /\ tasks'[p][k].of = t.of /\ tasks'[p][k].node = t.node
      BY <1>7, <2>1 DEF Task
    <2>3. Progresses(u)
      BY <1>2 DEF Typed, Going
    <2>4. t.at \in 1 .. Len(Programs[t.prog]) /\ Len(Programs[t.prog]) \in Nat
      BY <1>7, <2>3, ProgramFacts DEF Progresses
    <2> QED BY <1>2, <2>1, <2>2, <2>4
  <1>11. ASSUME Learned(p, k, t), t.obj # NoObject
         PROVE  /\ Own(p, t.obj)
                /\ \/ t.obj = u.obj
                   \/ t.obj \notin disposed /\ \A l \in Tasks : tasks[p][l].obj # t.obj
                   \/ p \notin cleaned => t.obj \notin disposed /\ Stored(p, t.obj)
    <2>1. CASE t.obj = u.obj
      BY <1>0, <2>1 DEF PageKept, Held, Owned
    <2>2. CASE pc[p] \in {"note", "evaluated", "resolved"} /\ t.obj = call[p].obj
      BY <1>0, <1>11, <2>2 DEF PageKept, Calls, Fresh, Finding
    <2>3. CASE Leads(p, u.node, t.obj)
      <3>1. /\ nodeObjects[u.node].obj = t.obj /\ nodeObjects[u.node].owner = p
            /\ u.node \in DOMAIN nodeObjects /\ Stored(p, t.obj)
        BY <2>3 DEF Leads, Stored
      <3>2. t.obj[1] = p
        BY <1>0, <3>1 DEF NodesOwn
      <3>3. p \notin cleaned => t.obj \notin disposed
        BY <1>0, <3>1 DEF PageKept, Held, Alive
      <3> QED BY <3>1, <3>2, <3>3 DEF Own
    <2> QED BY <1>11, <2>1, <2>2, <2>3 DEF Learned
  <1>12. Owned(p)'
    <2>1. Own(p, tasks'[p][k].obj)
      BY <1>8, <1>10, <1>11 DEF Own
    <2> QED BY <1>0, <1>3, <2>1 DEF PageKept, Held, Owned, Own
  <1>13. ASSUME p \notin cleaned
         PROVE  Alive(p)'
    <2>1. \A o \in disposed : ~Stored(p, o)'
      BY <1>0, <1>5, <1>6, <1>13 DEF PageKept, Held, Alive
    <2>2. \A l \in Tasks : l # k => tasks[p][l].obj \notin disposed
      BY <1>0, <1>2, <1>13 DEF PageKept, Held, Alive
    <2>3. tasks'[p][k].obj \notin disposed
      <3>1. CASE tasks'[p][k] = NoTask
        BY <1>6, <1>8, <3>1
      <3>2. CASE tasks'[p][k] # NoTask /\ t.obj = u.obj
        <4>1. ASSUME u.obj \in disposed PROVE FALSE
          <5>1. pc[p] # "idle" /\ Disposing(p)
            BY <1>0, <1>13, <4>1 DEF PageKept, Held, Alive
          <5>2. pc[p] = "used" /\ h[p].cmd = "release" /\ k = h[p].task
            BY <1>0, <1>2, <5>1 DEF PageKept, Calls, Disposing
          <5>3. u.at >= Len(Programs[u.prog])
            BY <1>0, <5>2 DEF PageKept, Released
          <5>4. t.at < Len(Programs[t.prog]) /\ Len(Programs[t.prog]) \in Nat
            BY <1>7, <1>10, <3>2, ProgramFacts
          <5> QED BY <1>7, <5>3, <5>4
        <4> QED BY <1>10, <3>2, <4>1
      <3>3. CASE tasks'[p][k] # NoTask /\ t.obj # u.obj
        BY <1>6, <1>10, <1>11, <1>13, <3>3
      <3> QED BY <3>1, <3>2, <3>3
    <2> QED BY <1>3, <1>4, <2>1, <2>2, <2>3 DEF Alive
  <1>14. ASSUME p \notin cleaned
         PROVE  Apart(p)'
    <2>1. ASSUME NEW l \in Tasks, l # k, tasks[p][l].obj = tasks'[p][k].obj, tasks[p][l].obj # NoObject
          PROVE  Stored(p, tasks[p][l].obj)
      <3>1. tasks'[p][k] # NoTask /\ tasks'[p][k].obj = t.obj /\ Learned(p, k, t)
        BY <1>8, <1>10, <2>1
      <3>2. CASE t.obj = u.obj
        BY <1>0, <1>14, <2>1, <3>1, <3>2 DEF PageKept, Held, Apart
      <3>3. CASE t.obj # u.obj
        BY <1>11, <1>14, <2>1, <3>1, <3>3
      <3> QED BY <3>2, <3>3
    <2>2. ASSUME NEW l \in Tasks, NEW m \in Tasks, l # m, tasks'[p][l].obj = tasks'[p][m].obj,
                 tasks'[p][l].obj # NoObject
          PROVE  tasks'[p][l].obj \in AnyObject /\ Stored(p, tasks'[p][l].obj)
      <3>1. CASE l = k
        BY <1>3, <1>6, <2>1, <2>2, <3>1
      <3>2. CASE m = k
        BY <1>3, <1>6, <2>1, <2>2, <3>2
      <3>3. CASE l # k /\ m # k
        BY <1>0, <1>3, <1>6, <1>14, <2>2, <3>3 DEF PageKept, Held, Apart
      <3> QED BY <3>1, <3>2, <3>3
    <2> QED BY <1>5, <2>2 DEF Apart, Stored
  <1>15. Described(p)'
    <2> SUFFICES ASSUME p \notin cleaned, NEW l \in Tasks
                 PROVE  tasks'[p][l].of # NoObject
                              => /\ Leads(p, tasks'[p][l].node, tasks'[p][l].of)
                                 /\ tasks'[p][l].obj = tasks'[p][l].of
      <3>1. ASSUME NEW i \in Nat, NEW o \in AnyObject, Leads(p, i, o)
            PROVE  i \in DOMAIN nodeObjects' /\ nodeObjects'[i] = [obj |-> o, owner |-> p]
        <4>1. Leads(p, i, o)'
          BY <1>5, <3>1
        <4> QED BY <4>1 DEF Leads
      <3>2. \A l \in Tasks : tasks'[p][l].node \in Nat /\ tasks'[p][l].of \in AnyObject
        <4>1. tasks'[p][k].node \in Nat /\ tasks'[p][k].of \in AnyObject
          BY <1>7, <1>10, TypeFacts, TaskFields, ObjectFacts DEF NoTask
        <4> QED BY <1>3, <1>6, <4>1
      <3> QED BY <1>3, <1>4, <3>1, <3>2 DEF Described, Describing, Leads
    <2>0. \A m \in Tasks : tasks[p][m].of # NoObject
              => Leads(p, tasks[p][m].node, tasks[p][m].of) /\ tasks[p][m].obj = tasks[p][m].of
      BY <1>0 DEF PageKept, Described
    <2>1. CASE l # k
      BY <1>3, <2>0, <2>1
    <2>2. CASE l = k /\ tasks'[p][k] = NoTask
      BY <1>8, <2>2
    <2>3. CASE l = k /\ tasks'[p][k] # NoTask
      <3>1. /\ tasks'[p][k].obj = t.obj /\ tasks'[p][k].of = t.of /\ tasks'[p][k].node = t.node
            /\ Learned(p, k, t) /\ Progresses(u)
        BY <1>2, <1>10, <2>3 DEF Typed, Going
      <3>2. CASE t.of = u.obj /\ t.obj = u.obj /\ t.node = h[p].id /\ pc[p] \in {"detailed", "fallback"}
        BY <1>0, <1>2, <2>3, <3>1, <3>2 DEF PageKept, Described, Describing
      <3>3. ASSUME t.of = u.of, u.of # NoObject, pc[p] # "idle"
            PROVE  /\ k = h[p].task /\ u.at >= 2 /\ u.prog \in Describers \cup {"adopted"}
                   /\ h[p].cmd = Programs[u.prog][u.at] /\ u.at \in 1 .. Len(Programs[u.prog])
                   /\ pc[p] \in PCsOf(h[p].cmd)
        BY <1>2, <3>1, <3>3, BusyFacts DEF Progresses, Cmd
      <3>4. ASSUME t.of = u.of, u.of # NoObject PROVE pc[p] \notin {"note", "evaluated", "selected"}
        <4> SUFFICES ASSUME pc[p] \in {"note", "evaluated", "selected"} PROVE FALSE
          OBVIOUS
        <4>1. h[p].cmd \in {"query", "queryAll", "handle", "alert", "document", "select", "selectAll"}
          BY <3>3, <3>4, LabelOf DEF QueryPCs
        <4> QED BY <1>7, <3>3, <3>4, <4>1, ProgramFacts DEF Describers
      <3>5. CASE t.of = u.of /\ t.node = u.node /\ u.of # NoObject
        <4>1. pc[p] # "resolved"
          BY <1>0, <1>2, <3>5 DEF PageKept, Described
        <4>2. t.obj = u.obj \/ Leads(p, u.node, t.obj)
          BY <3>1, <3>4, <3>5, <4>1 DEF Learned
        <4>3. Leads(p, u.node, u.of) /\ u.obj = u.of
          BY <2>0, <3>5
        <4>4. Leads(p, u.node, t.obj) => t.obj = u.of
          BY <4>3 DEF Leads
        <4> QED BY <2>3, <3>1, <3>5, <4>2, <4>3, <4>4
      <3>6. CASE t.of = u.of /\ u.of = NoObject
        BY <2>3, <3>1, <3>6
      <3> QED BY <3>1, <3>2, <3>4, <3>5, <3>6 DEF Learned
    <2> QED BY <2>1, <2>2, <2>3
  <1> QED BY <1>4, <1>9, <1>12, <1>13, <1>14, <1>15 DEF PageKept, Held

------------------------------------------------------------------------------
(* The handler's own page: it goes on.                                      *)

LEMMA GoesOwn ==
    ASSUME Typed, Kept, NEW p \in Pages, HandlerStep(p), GoesOn(p), KeepsToItsOwn(p)
    PROVE  PageKept(p)'
  <1>0. PageKept(p) /\ NodesOwn
    BY DEF Kept
  <1>1. PICK k \in Tasks : k = h'[p].task
    BY DEF GoesOn
  <1>2. /\ tasks' = tasks /\ tasks[p][k].prog # "none" /\ h'[p].cmd = Cmd(p, k)
        /\ pc'[p] \in PCsOf(h'[p].cmd) /\ pc'[p] # "idle"
        /\ pc[p] # "idle" => k = h[p].task
        /\ Proceeds(p)
    BY <1>1, LabelOf DEF GoesOn
  <1>3. disposed' = disposed /\ cleaned' = cleaned /\ made' = made
    BY DEF HandlerStep, browser
  <1>4. /\ call[p] \in CallRec /\ call[p].obj \in AnyObject
        /\ disposed \subseteq Objects /\ NoObject \notin disposed
        /\ \A l \in Tasks : /\ tasks[p][l] \in Task /\ tasks[p][l].obj \in AnyObject
                            /\ tasks[p][l].of \in AnyObject /\ tasks[p][l].node \in Nat
                            /\ tasks[p][l].prog \in DOMAIN Programs /\ tasks[p][l].at \in Nat
        /\ h[p].id \in Nat /\ Objects \subseteq AnyObject
    BY MineTyped, TaskFields, ObjectFacts DEF Typed, World, Control, Command
  <1>5. pc[p] = "idle" => p \notin cleaned
    <2> SUFFICES ASSUME pc[p] = "idle", p \in cleaned PROVE FALSE
      OBVIOUS
    <2>1. PICK l \in Tasks : Refuse(p, l)
      BY NoneBegins
    <2>2. pc'[p] = "idle"
      BY <2>1 DEF Refuse, Answer, Goto, Typed, Control
    <2> QED BY <1>2, <2>2
  <1>6. tasks[p][k].obj \notin disposed
    <2>1. CASE pc[p] = "idle"
      BY <1>0, <1>5, <2>1 DEF PageKept, Held, Alive
    <2>2. CASE pc[p] # "idle"
      <3>1. ~Disposing(p)
        BY <1>0, <1>2 DEF PageKept, Calls, Proceeds, Disposing
      <3> QED BY <1>0, <1>2, <2>2, <3>1 DEF PageKept, Busy
    <2> QED BY <2>1, <2>2
  <1>7. Own(p, tasks[p][k].obj)
    <2>1. CASE pc[p] # "idle"
      BY <1>0, <1>2, <2>1 DEF PageKept, Busy
    <2>2. CASE pc[p] = "idle"
      BY <1>0 DEF PageKept, Held, Owned
    <2> QED BY <2>1, <2>2
  <1>8. /\ \A i \in Nat, o \in AnyObject : Leads(p, i, o) => Leads(p, i, o)'
        /\ \A o \in AnyObject : Stored(p, o) => Stored(p, o)'
        /\ \A o \in AnyObject : Stored(p, o)' => Stored(p, o) \/ (o[1] = p /\ o \notin disposed)
        /\ \A i \in Nat, o \in AnyObject :
              pc[p] = "store" /\ i = h[p].id /\ o = Mine(p).obj => Leads(p, i, o)'
        /\ pc[p] \notin {"note", "store"} => nodeObjects' = nodeObjects
    BY Growth
  <1>9. /\ NoCall.obj = NoObject /\ NoCall.kind = "none" /\ NoCall.result = "none"
    BY TypeFacts
  <1>10. Prepares(p) => call[p] = NoCall
    BY <1>0 DEF Prepares, PageKept, Calls
  <1>11. Found(p) => /\ call[p].kind # "dispose" /\ call[p].result = "ok" /\ pc[p] = "queried"
                     /\ call'[p] = call[p] /\ pc'[p] = "note" /\ nodeObjects' = nodeObjects
    BY <1>0, <1>8, Enters DEF Found, PageKept, Calls
  <1>12. Busy(p)'
    BY <1>1, <1>2, <1>3, <1>6, <1>7 DEF Busy, Own
  <1>13. Calls(p)'
    <2>1. CASE Prepares(p)
      BY <1>2, <1>9, <1>10, <2>1 DEF Prepares, Calls, Own
    <2>2. CASE Found(p)
      BY <1>0, <1>2, <1>11, <2>2 DEF PageKept, Calls, Own, Quiet
    <2>3. CASE Asks(p)
      <3>1. call'[p].obj \in {NoObject, tasks[p][k].obj} /\ pc'[p] \notin Quiet
        BY <1>1, <2>3 DEF Asks
      <3>2. call'[p].kind = "dispose" =>
               /\ pc'[p] = "used" /\ h'[p].cmd = "release" /\ ~Stored(p, tasks[p][k].obj)
               /\ nodeObjects' = nodeObjects
        BY <1>1, <1>8, <2>3 DEF Asks, IsStored, Stored
      <3>3. call'[p].kind = "dispose" /\ call'[p].result = "sent" => call'[p].obj # NoObject
        BY InHandNext, HandlerIsNext DEF InHand
      <3>4. call'[p].kind = "dispose" /\ call'[p].result = "sent" => ~Stored(p, call[p].obj)'
        BY <3>1, <3>2, <3>3 DEF Stored
      <3> QED BY <1>1, <1>2, <1>7, <3>1, <3>2, <3>4 DEF Calls, Own
    <2> QED BY <1>2, <2>1, <2>2, <2>3 DEF Proceeds
  <1>14. Fresh(p)'
    <2>1. CASE Prepares(p)
      BY <1>9, <1>10, <2>1 DEF Prepares, Fresh
    <2>2. CASE Found(p)
      <3>1. Fresh(p) /\ pc[p] \in Finding
        BY <1>0, <1>11, <2>2 DEF PageKept, Finding
      <3> QED BY <1>2, <1>3, <1>11, <2>2, <3>1 DEF Fresh, Stored
    <2>3. CASE Asks(p)
      BY <2>3 DEF Asks, Fresh
    <2> QED BY <1>2, <2>1, <2>2, <2>3 DEF Proceeds
  <1>15. Owned(p)'
    BY <1>0, <1>2 DEF PageKept, Held, Owned, Own
  <1>16. ASSUME p \notin cleaned PROVE Apart(p)'
    <2>1. ASSUME NEW l \in Tasks, NEW m \in Tasks, l # m, tasks[p][l].obj = tasks[p][m].obj,
                 tasks[p][l].obj # NoObject
          PROVE  Stored(p, tasks[p][l].obj)
      BY <1>0, <1>16, <2>1 DEF PageKept, Held, Apart
    <2> QED BY <1>2, <1>4, <1>8, <2>1 DEF Apart, Stored
  <1>17. ASSUME p \notin cleaned PROVE Alive(p)'
    <2>1. \A o \in disposed : ~Stored(p, o)'
      BY <1>0, <1>4, <1>8, <1>17 DEF PageKept, Held, Alive
    <2>2. \A l \in Tasks : tasks[p][l].obj \notin disposed
      <3>1. ~(pc[p] # "idle" /\ Disposing(p))
        BY <1>0, <1>2 DEF PageKept, Calls, Proceeds, Disposing
      <3> QED BY <1>0, <1>17, <3>1 DEF PageKept, Held, Alive
    <2> QED BY <1>2, <1>3, <2>1, <2>2 DEF Alive
  <1>18. ASSUME p \notin cleaned PROVE Described(p)'
    <2>1. ASSUME NEW i \in Nat, NEW o \in AnyObject, Leads(p, i, o)
          PROVE  i \in DOMAIN nodeObjects' /\ nodeObjects'[i] = [obj |-> o, owner |-> p]
      <3>1. Leads(p, i, o)'
        BY <1>8, <2>1
      <3> QED BY <3>1 DEF Leads
    <2>2. ASSUME NEW l \in Tasks
          PROVE  tasks[p][l].of # NoObject
                       => /\ Leads(p, tasks[p][l].node, tasks[p][l].of)
                          /\ tasks[p][l].obj = tasks[p][l].of
      BY <1>0, <1>18 DEF PageKept, Described
    <2>3. ASSUME NEW l \in Tasks
          PROVE  tasks[p][l].of # NoObject
                       => /\ tasks[p][l].node \in DOMAIN nodeObjects'
                          /\ nodeObjects'[tasks[p][l].node] = [obj |-> tasks[p][l].of, owner |-> p]
      BY <1>4, <2>1, <2>2
    <2>4. pc'[p] \in Describing
             => /\ h'[p].id \in DOMAIN nodeObjects'
                /\ nodeObjects'[h'[p].id] = [obj |-> tasks[p][h'[p].task].obj, owner |-> p]
      <3> SUFFICES ASSUME pc'[p] \in Describing
                   PROVE  /\ h'[p].id \in DOMAIN nodeObjects'
                          /\ nodeObjects'[h'[p].id] = [obj |-> tasks[p][h'[p].task].obj, owner |-> p]
        OBVIOUS
      <3>1. h'[p].id = h[p].id /\ pc[p] \in Describing \cup {"store"} /\ h'[p].task = h[p].task
        BY <1>1, <1>2 DEF Proceeds, Describing
      <3>2. CASE pc[p] = "store"
        <4>1. Mine(p).obj = tasks[p][k].obj
          BY <1>1, <3>1 DEF Mine
        <4>2. PICK i \in Nat, o \in AnyObject : i = h[p].id /\ o = Mine(p).obj
          BY <1>4, <4>1
        <4>3. Leads(p, i, o)'
          BY <1>8, <3>2, <4>2
        <4> QED BY <1>1, <3>1, <4>1, <4>2, <4>3 DEF Leads
      <3>3. CASE pc[p] \in Describing
        <4>1. Leads(p, h[p].id, tasks[p][k].obj)
          BY <1>0, <1>1, <1>18, <3>1, <3>3 DEF PageKept, Described
        <4> QED BY <1>1, <1>4, <2>1, <3>1, <4>1
      <3> QED BY <3>1, <3>2, <3>3
    <2>5. pc'[p] = "resolved" => tasks[p][k].of = NoObject
      <3>1. pc'[p] = "resolved" => tasks[p][k].node \notin DOMAIN nodeObjects
        BY <1>1, <1>2 DEF Proceeds, Prepares, Found, Asks, Quiet
      <3>2. tasks[p][k].of # NoObject => tasks[p][k].node \in DOMAIN nodeObjects
        BY <2>2 DEF Leads
      <3> QED BY <3>1, <3>2
    <2> QED BY <1>1, <1>2, <2>2, <2>3, <2>4, <2>5 DEF Described, Leads
  <1>19. Released(p)'
    <2> SUFFICES ASSUME pc'[p] = "used", h'[p].cmd = "release"
                 PROVE  tasks[p][k].at >= Len(Programs[tasks[p][k].prog])
      BY <1>1, <1>2 DEF Released
    <2>1. Asks(p)
      BY <1>2 DEF Proceeds, Prepares, Found, Quiet
    <2>2. pc[p] = "idle" /\ ~IsStored(tasks[p][k].obj)
      BY <1>1, <2>1 DEF Asks
    <2>3. Progresses(tasks[p][k])
      BY <1>2 DEF Typed, Going
    <2>4. /\ tasks[p][k].at \in 1 .. Len(Programs[tasks[p][k].prog])
          /\ Programs[tasks[p][k].prog][tasks[p][k].at] = "release"
          /\ Len(Programs[tasks[p][k].prog]) \in Nat
      BY <1>2, <1>4, <2>3, ProgramFacts DEF Progresses, Cmd
    <2>5. p \notin cleaned
      BY <1>5, <2>2
    <2>6. ~(tasks[p][k].at >= 3 /\ Programs[tasks[p][k].prog][tasks[p][k].at - 2] = "describe")
      <3> SUFFICES ASSUME tasks[p][k].at >= 3, Programs[tasks[p][k].prog][tasks[p][k].at - 2] = "describe"
                   PROVE  FALSE
        OBVIOUS
      <3>1. tasks[p][k].at - 2 \in 1 .. tasks[p][k].at - 1
        BY <1>4
      <3>2. tasks[p][k].of # NoObject
        BY <2>3, <3>1 DEF Progresses
      <3>3. Leads(p, tasks[p][k].node, tasks[p][k].of) /\ tasks[p][k].obj = tasks[p][k].of
        BY <1>0, <2>5, <3>2 DEF PageKept, Described
      <3> QED BY <2>2, <3>3 DEF Leads, IsStored
    <2> QED BY <1>4, <2>4, <2>6, ProgramFacts
  <1> QED BY <1>2, <1>3, <1>12, <1>13, <1>14, <1>15, <1>16, <1>17, <1>18, <1>19
          DEF PageKept, Held, Described

------------------------------------------------------------------------------
(* A handler's step keeps everything.                                       *)

LEMMA HandlerKept == ASSUME Typed, Kept, NEW p \in Pages, HandlerStep(p) PROVE Kept'
  <1>0. NodesOwn /\ AllMade /\ Reserved
    BY DEF Kept
  <1>1. /\ disposed' = disposed /\ cleaned' = cleaned /\ made' = made /\ news' = news
        /\ ending' = ending /\ scenario' = scenario
    BY DEF HandlerStep, browser
  <1>2. ASSUME NEW q \in Pages, q # p
        PROVE  pc'[q] = pc[q] /\ h'[q] = h[q] /\ call'[q] = call[q] /\ tasks'[q] = tasks[q]
    BY <1>2, OtherPages
  <1>3. /\ Made(call'[p].obj) /\ \A k \in Tasks : Made(tasks'[p][k].obj)
        /\ pc'[p] \in {"store", "note"} => h'[p].id = ctxCounter + 1 /\ nodeObjects' = nodeObjects
    BY HandlerMade
  <1>4. /\ NodesOwn'
        /\ \A q \in Pages : q # p /\ pc[q] \in {"store", "note"} => h[q].id \notin DOMAIN nodeObjects'
        /\ \A i \in DOMAIN nodeObjects' : Made(nodeObjects'[i].obj)
    BY Growth
  <1>5. AllMade'
    <2>1. \A o \in disposed : Made(o)
      BY <1>0 DEF AllMade
    <2>2. \A q \in Pages : Made(call'[q].obj) /\ \A k \in Tasks : Made(tasks'[q][k].obj)
      BY <1>0, <1>2, <1>3 DEF AllMade
    <2> QED BY <1>1, <1>4, <2>1, <2>2 DEF AllMade, Made
  <1>6. Reserved'
    <2>1. /\ ctxCounter \in Nat /\ DOMAIN nodeObjects \subseteq 1 .. ctxCounter
          /\ \A q \in Pages : pc[q] \in {"store", "note"} => h[q].id \in 1 .. ctxCounter
      BY DEF Typed, Stores, InHand
    <2>2. ASSUME pc'[p] \in {"store", "note"}
          PROVE  /\ h'[p].id \notin DOMAIN nodeObjects'
                 /\ \A q \in Pages : q # p /\ pc[q] \in {"store", "note"} => h[q].id # h'[p].id
      BY <1>3, <2>1, <2>2
    <2>3. ASSUME NEW q \in Pages, pc'[q] \in {"store", "note"}
          PROVE  h'[q].id \notin DOMAIN nodeObjects'
      <3>1. CASE q = p
        BY <2>2, <2>3, <3>1
      <3>2. CASE q # p
        BY <1>2, <1>4, <2>3, <3>2
      <3> QED BY <3>1, <3>2
    <2>4. ASSUME NEW q \in Pages, NEW r \in Pages, q # r, pc'[q] \in {"store", "note"},
                 pc'[r] \in {"store", "note"}
          PROVE  h'[q].id # h'[r].id
      <3>1. CASE q = p
        BY <1>2, <2>2, <2>4, <3>1
      <3>2. CASE r = p
        BY <1>2, <2>2, <2>4, <3>2
      <3>3. CASE q # p /\ r # p
        BY <1>0, <1>2, <2>4, <3>3 DEF Reserved
      <3> QED BY <3>1, <3>2, <3>3
    <2> QED BY <2>3, <2>4 DEF Reserved
  <1>7. ASSUME NEW q \in Pages, KeepsToItsOwn(q)
        PROVE  PageKept(q)'
    <2>1. CASE q # p
      BY <1>7, <2>1, Elsewhere
    <2>2. CASE q = p
      BY <1>7, <2>2, AnswersOwn, GoesOwn, HandlerMoves
    <2> QED BY <2>1, <2>2
  <1>8. \A q \in Pages : KeepsToItsOwn(q)' => PageKept(q)'
    BY <1>1, <1>7 DEF KeepsToItsOwn
  <1> QED BY <1>4, <1>5, <1>6, <1>8 DEF Kept

------------------------------------------------------------------------------
(* The browser.                                                             *)

\* It makes an object for a call, or releases a call's object, or neither.
Makes(p) ==
    /\ call[p].result = "sent" /\ call'[p].result = "ok"
    /\ made[p] < MaxObjects /\ made' = [made EXCEPT ![p] = @ + 1] /\ disposed' = disposed
    /\ call'[p].obj = <<p, made[p] + 1>>
Disposes(p) ==
    /\ call[p].kind = "dispose" /\ call[p].result = "sent" /\ call[p].obj[1] = p
    /\ call'[p].result = "ok" /\ call'[p].obj = call[p].obj
    /\ disposed' = disposed \cup {call[p].obj} /\ made' = made
Settles(p) ==
    /\ made' = made /\ disposed' = disposed
    /\ \/ call'[p] = call[p]
       \/ /\ call[p].result \in {"sent", "blocked"} /\ call'[p].result # "sent"
          /\ call'[p].obj \in {NoObject, call[p].obj}

LEMMA BrowserMoves ==
    ASSUME Typed, NEW p \in Pages, BrowserStep(p)
    PROVE  /\ Makes(p) \/ Disposes(p) \/ Settles(p)
           /\ \A q \in Pages : call'[q].kind = call[q].kind
           /\ \A q \in Pages : q # p => call'[q] = call[q]
  <1>0. call \in [Pages -> CallRec] /\ call[p].obj \in AnyObject
    BY MineTyped DEF Typed, Control
  <1>1. /\ \A q \in Pages : call'[q].kind = call[q].kind
        /\ \A q \in Pages : q # p => call'[q] = call[q]
    BY BrowserCalls
  <1>2. UNCHANGED <<made, disposed>> => Settles(p) \/ Makes(p)
    <2> SUFFICES ASSUME made' = made, disposed' = disposed, call' # call
                 PROVE  Settles(p) \/ Makes(p)
      BY DEF Settles
    <2>1. made \in [Pages -> 0 .. MaxObjects]
      BY DEF Typed, World
    <2>2. made' # [made EXCEPT ![p] = @ + 1]
      BY <2>1
    <2> QED BY <2>2, BrowserCalls DEF Settles
  <1>3. Makes(p) \/ Disposes(p) \/ Settles(p)
    <2>1. CASE ServeObject(p) /\ Serve(p)
      <3>1. CASE made[p] < MaxObjects /\ made' = [made EXCEPT ![p] = @ + 1]
                 /\ Becomes(p, "ok", <<p, made[p] + 1>>)
        BY <1>0, <2>1, <3>1 DEF ServeObject, Serve, Becomes, CallRec, Makes
      <3> QED BY <1>2, <2>1, <3>1 DEF ServeObject
    <2>2. CASE ServeOther(p) /\ Serve(p)
      <3>1. CASE call[p].kind = "dispose" /\ Finds(p, call[p].obj)
        <4>1. call[p].obj # NoObject
          BY <2>2, <3>1 DEF Serve, Typed, InHand
        <4> QED BY <1>0, <2>2, <3>1, <4>1 DEF ServeOther, Serve, Becomes, CallRec, Disposes, Finds
      <3> QED BY <1>2, <2>2, <3>1 DEF ServeOther
    <2>3. CASE Serve(p)
      BY <1>2, <2>1, <2>2, <2>3 DEF Serve, ServeAlert, ServeDialog
    <2> QED BY <1>2, <2>3 DEF BrowserStep, PageOpensDialog, UserAnswers, PageEnds, browser
  <1> QED BY <1>1, <1>3

LEMMA BrowserKept == ASSUME Typed, Kept, NEW p \in Pages, BrowserStep(p) PROVE Kept'
  <1>0. NodesOwn /\ AllMade /\ Reserved /\ \A q \in Pages : KeepsToItsOwn(q) => PageKept(q)
    BY DEF Kept
  <1>1. UNCHANGED <<pc, h, tasks, nodeObjects, objectOwners, ctxCounter, cleaned, ending, scenario>>
    BY DEF BrowserStep, nodes
  <1>2. /\ Makes(p) \/ Disposes(p) \/ Settles(p)
        /\ \A q \in Pages : call'[q].kind = call[q].kind
        /\ \A q \in Pages : q # p => call'[q] = call[q]
    BY BrowserMoves
  <1>3. /\ made \in [Pages -> 0 .. MaxObjects] /\ disposed \subseteq Objects /\ NoObject \notin disposed
        /\ \A q \in Pages : call[q].obj \in AnyObject /\ \A k \in Tasks : tasks[q][k].obj \in AnyObject
        /\ \A q \in Pages : pc[q] # "idle" => h[q].task \in Tasks
        /\ \A i \in DOMAIN nodeObjects : nodeObjects[i].obj \in Objects
        /\ InHand /\ NoCall.obj = NoObject /\ NoCall.result = "none" /\ NoCall.kind = "none"
    BY MineTyped, TaskFields, ObjectFacts, TypeFacts DEF Typed, World, Stores
  <1>4. NodesOwn' /\ Reserved' /\ \A q \in Pages : KeepsToItsOwn(q)' = KeepsToItsOwn(q)
    BY <1>0, <1>1 DEF NodesOwn, Reserved, KeepsToItsOwn
  <1>5. AllMade'
    <2>1. \A o \in AnyObject : Made(o) => Made(o)'
      <3>1. CASE made' = made
        BY <3>1 DEF Made
      <3>2. CASE made' = [made EXCEPT ![p] = @ + 1]
        <4>1. \A o \in AnyObject : o # NoObject => o[1] \in Pages /\ o[2] \in Nat
          BY HandlesAssumption DEF AnyObject, Objects
        <4>2. \A q \in Pages : made[q] \in Nat /\ made'[q] \in Nat /\ made'[q] >= made[q]
          BY <1>3, <3>2, HandlesAssumption
        <4> QED BY <4>1, <4>2 DEF Made
      <3> QED BY <1>2, <3>1, <3>2 DEF Makes, Disposes, Settles
    <2>2. ASSUME NEW o \in AnyObject, Made(o) PROVE o = NoObject \/ o[2] <= made'[o[1]]
      <3>1. Made(o)'
        BY <2>1, <2>2
      <3> QED BY <3>1 DEF Made
    <2>3. \A o \in disposed' : o = NoObject \/ o[2] <= made'[o[1]]
      <3>1. ASSUME NEW o \in disposed' PROVE o \in AnyObject /\ Made(o)
        BY <1>0, <1>2, <1>3, ObjectFacts DEF AllMade, Makes, Disposes, Settles
      <3> QED BY <2>2, <3>1
    <2>4. \A i \in DOMAIN nodeObjects : nodeObjects[i].obj \in AnyObject /\ Made(nodeObjects[i].obj)
      BY <1>0, <1>3, ObjectFacts DEF AllMade
    <2>5. call'[p].obj = NoObject \/ call'[p].obj[2] <= made'[call'[p].obj[1]]
      <3>1. CASE Makes(p)
        <4>1. made'[p] = made[p] + 1 /\ made[p] \in Nat
          BY <1>3, <3>1, HandlesAssumption DEF Makes
        <4> QED BY <3>1, <4>1 DEF Makes
      <3>2. CASE Disposes(p) \/ Settles(p)
        BY <1>0, <1>3, <2>2, <3>2 DEF Disposes, Settles, AllMade
      <3> QED BY <1>2, <3>1, <3>2
    <2>6. \A q \in Pages : /\ call'[q].obj = NoObject \/ call'[q].obj[2] <= made'[call'[q].obj[1]]
                           /\ \A k \in Tasks : tasks[q][k].obj = NoObject
                                               \/ tasks[q][k].obj[2] <= made'[tasks[q][k].obj[1]]
      BY <1>0, <1>2, <1>3, <2>2, <2>5 DEF AllMade
    <2> QED BY <1>1, <2>2, <2>3, <2>4, <2>6 DEF AllMade, Made
  \* What does not speak of calls and of the objects released.
  <1>6. ASSUME NEW q \in Pages, KeepsToItsOwn(q)
        PROVE  Owned(q)' /\ Apart(q)' = Apart(q) /\ Described(q)' /\ Released(q)'
               /\ \A o : Stored(q, o)' = Stored(q, o)
    BY <1>0, <1>1, <1>6 DEF PageKept, Held, Owned, Own, Apart, Described, Released, Stored, Leads
  <1>7. ASSUME NEW q \in Pages, KeepsToItsOwn(q), disposed' = disposed, call'[q] = call[q]
        PROVE  PageKept(q)'
    <2>1. Busy(q)' /\ Calls(q)' /\ Fresh(q)'
      BY <1>0, <1>1, <1>6, <1>7 DEF PageKept, Busy, Calls, Fresh, Own, Disposing, Stored
    <2>2. q \notin cleaned => Apart(q)' /\ Alive(q)'
      BY <1>0, <1>1, <1>6, <1>7 DEF PageKept, Held, Alive, Disposing, Stored
    <2> QED BY <1>1, <1>6, <1>7, <2>1, <2>2 DEF PageKept, Held
  \* A call that is out: the handler waits, and has found nothing yet.
  <1>8. ASSUME KeepsToItsOwn(p), call[p].result \in {"sent", "blocked"}
        PROVE  pc[p] # "idle" /\ pc[p] \notin Quiet /\ (pc[p] \in Finding => call[p].obj = NoObject)
    BY <1>0, <1>3, <1>8 DEF PageKept, Calls, Fresh, InHand
  <1>9. ASSUME KeepsToItsOwn(p), call[p].result \in {"sent", "blocked"}, call'[p].result # "sent",
               Own(p, call'[p].obj), disposed' = disposed,
               pc[p] \in Finding /\ call'[p].obj # NoObject =>
                   /\ call'[p].obj \notin disposed /\ ~Stored(p, call'[p].obj)
                   /\ \A k \in Tasks : tasks[p][k].obj # call'[p].obj
                   /\ call'[p].result = "ok"
        PROVE  PageKept(p)'
    <2>1. Busy(p)'
      BY <1>0, <1>1, <1>2, <1>9 DEF PageKept, Busy, Own, Disposing
    <2>2. Calls(p)'
      BY <1>0, <1>1, <1>2, <1>8, <1>9 DEF PageKept, Calls, Own
    <2>3. Fresh(p)'
      BY <1>1, <1>9 DEF Fresh, Stored
    <2>4. p \notin cleaned => Apart(p)' /\ Alive(p)'
      BY <1>0, <1>1, <1>2, <1>6, <1>9 DEF PageKept, Held, Alive, Disposing, Stored
    <2> QED BY <1>1, <1>6, <1>9, <2>1, <2>2, <2>3, <2>4 DEF PageKept, Held
  <1>10. CASE Settles(p)
    <2>1. disposed' = disposed
      BY <1>10 DEF Settles
    <2>2. ASSUME KeepsToItsOwn(p), call'[p] # call[p]
          PROVE  PageKept(p)'
      <3>1. /\ call[p].result \in {"sent", "blocked"} /\ call'[p].result # "sent"
            /\ call'[p].obj \in {NoObject, call[p].obj}
        BY <1>10, <2>2 DEF Settles
      <3>2. Own(p, call'[p].obj)
        BY <1>0, <2>2, <3>1 DEF PageKept, Calls, Own
      <3>3. pc[p] \in Finding => call'[p].obj = NoObject
        BY <1>8, <2>2, <3>1
      <3> QED BY <1>9, <2>1, <2>2, <3>1, <3>2, <3>3
    <2>3. \A q \in Pages : KeepsToItsOwn(q) => PageKept(q)'
      <3>1. \A q \in Pages : KeepsToItsOwn(q) /\ call'[q] = call[q] => PageKept(q)'
        BY <1>7, <2>1
      <3> QED BY <1>2, <2>2, <3>1
    <2> QED BY <1>4, <1>5, <2>3 DEF Kept
  <1>11. CASE Makes(p)
    <2> DEFINE o == <<p, made[p] + 1>>
    <2>1. o # NoObject /\ o[1] = p /\ ~Made(o)
      <3>1. made[p] \in Nat /\ NoPage # p
        BY <1>3, HandlesAssumption
      <3>2. o[1] = p /\ o[2] = made[p] + 1 /\ NoObject[1] = NoPage
        BY DEF NoObject
      <3> QED BY <3>1, <3>2 DEF Made
    <2>2. o \notin disposed /\ ~Stored(p, o) /\ \A k \in Tasks : tasks[p][k].obj # o
      BY <1>0, <2>1 DEF AllMade, Stored
    <2>3. KeepsToItsOwn(p) => PageKept(p)'
      BY <1>9, <1>11, <2>1, <2>2 DEF Makes, Own
    <2>4. \A q \in Pages : KeepsToItsOwn(q) => PageKept(q)'
      BY <1>2, <1>7, <1>11, <2>3 DEF Makes
    <2> QED BY <1>4, <1>5, <2>4 DEF Kept
  <1>12. CASE Disposes(p)
    <2> DEFINE o == call[p].obj
               m == h[p].task
    <2>1. o # NoObject /\ o[1] = p
      BY <1>3, <1>12 DEF Disposes, InHand
    <2>2. disposed' = disposed \cup {o} /\ call'[p].obj = o
      BY <1>12 DEF Disposes
    <2>3. ASSUME NEW q \in Pages, q # p, KeepsToItsOwn(q)
          PROVE  PageKept(q)'
      <3>1. ~Stored(q, o)
        BY <1>0, <2>1, <2>3 DEF NodesOwn, Stored
      <3>2. \A k \in Tasks : tasks[q][k].obj # o
        BY <1>0, <2>1, <2>3 DEF PageKept, Held, Owned, Own
      <3>3. call[q].obj # o
        BY <1>0, <2>1, <2>3 DEF PageKept, Calls, Own
      <3>4. call'[q] = call[q]
        BY <1>2, <2>3
      <3>5. Busy(q)' /\ Calls(q)' /\ Fresh(q)'
        <4>1. Busy(q)'
          BY <1>0, <1>1, <1>3, <2>2, <2>3, <3>2, <3>4 DEF PageKept, Busy, Own, Disposing
        <4>2. Calls(q)'
          BY <1>0, <1>1, <2>3, <3>4 DEF PageKept, Calls, Own, Stored
        <4>3. Fresh(q)'
          BY <1>0, <1>1, <2>2, <2>3, <3>3, <3>4 DEF PageKept, Fresh, Stored
        <4> QED BY <4>1, <4>2, <4>3
      <3>6. q \notin cleaned => Apart(q)' /\ Alive(q)'
        BY <1>0, <1>1, <1>6, <2>2, <2>3, <3>1, <3>2, <3>4 DEF PageKept, Held, Alive, Disposing, Stored
      <3> QED BY <1>1, <1>6, <2>3, <3>5, <3>6 DEF PageKept, Held
    <2>4. ASSUME KeepsToItsOwn(p)
          PROVE  PageKept(p)'
      <3>0. PageKept(p)
        BY <1>0, <2>4
      <3>1. /\ pc[p] = "used" /\ m \in Tasks /\ tasks[p][m].obj = o
            /\ ~Stored(p, o) /\ ~Disposing(p) /\ Disposing(p)'
        BY <1>2, <1>3, <1>12, <2>1, <3>0 DEF PageKept, Calls, Disposes, Disposing
      <3>2. Busy(p)'
        BY <1>1, <3>0, <3>1, <2>1 DEF PageKept, Busy, Own
      <3>3. Calls(p)'
        BY <1>1, <1>2, <1>12, <2>1, <3>0, <3>1 DEF PageKept, Calls, Own, Disposes, Quiet
      <3>4. Fresh(p)'
        BY <1>1, <3>1 DEF Fresh, Finding
      <3>5. ASSUME p \notin cleaned PROVE Apart(p)' /\ Alive(p)'
        <4>1. \A x \in disposed' : ~Stored(p, x)
          BY <2>2, <3>0, <3>5, <3>1 DEF PageKept, Held, Alive
        <4>2. ASSUME NEW k \in Tasks, tasks[p][k].obj \in disposed' PROVE k = m
          <5>1. CASE tasks[p][k].obj \in disposed
            BY <3>0, <3>5, <3>1, <5>1 DEF PageKept, Held, Alive
          <5>2. CASE tasks[p][k].obj = o
            <6>1. k # m => Stored(p, o)
              BY <2>1, <3>0, <3>5, <3>1, <5>2 DEF PageKept, Held, Apart
            <6> QED BY <3>1, <6>1
          <5> QED BY <2>2, <4>2, <5>1, <5>2
        <4>3. Alive(p)'
          BY <1>1, <3>1, <4>1, <4>2 DEF Alive, Stored
        <4> QED BY <1>6, <2>4, <3>0, <3>5, <4>3 DEF PageKept, Held
      <3> QED BY <1>1, <1>6, <2>4, <3>2, <3>3, <3>4, <3>5 DEF PageKept, Held
    <2>5. \A q \in Pages : KeepsToItsOwn(q) => PageKept(q)'
      BY <2>3, <2>4
    <2> QED BY <1>4, <1>5, <2>5 DEF Kept
  <1> QED BY <1>2, <1>10, <1>11, <1>12

------------------------------------------------------------------------------
(* Programs begin.                                                          *)

LEMMA StartKept ==
    ASSUME Typed, Kept, NEW p \in Pages, NEW k \in Tasks, StartProgram(p, k)
    PROVE  Kept'
  <1>0. NodesOwn /\ AllMade /\ Reserved /\ \A q \in Pages : KeepsToItsOwn(q) => PageKept(q)
    BY DEF Kept
  <1>1. UNCHANGED <<pc, h, call, nodeObjects, ctxCounter, cleaned, ending, scenario, made, disposed>>
    BY DEF StartProgram, nodes, browser
  <1>2. PICK u \in Task :
            /\ tasks' = [tasks EXCEPT ![p][k] = u] /\ k \in DOMAIN scenario.programs[p]
            /\ u.prog \in scenario.programs[p][k]
            /\ u.obj \in IF u.prog \in OfAnyObject THEN MadeObjects ELSE {NoObject}
            /\ u.of = NoObject
    BY StartedTask
  <1>3. /\ tasks'[p][k] = u /\ \A l \in Tasks : l # k => tasks'[p][l] = tasks[p][l]
        /\ \A q \in Pages : q # p => tasks'[q] = tasks[q]
    BY <1>2 DEF Typed, Control
  <1>4. pc[p] # "idle" => h[p].task \in Tasks /\ h[p].task # k
    BY DEF StartProgram, Typed, Running, Control
  <1>5. NoObject \notin disposed /\ NoCall.result = "none" /\ NoCall.obj = NoObject
    BY ObjectFacts, TypeFacts DEF Typed, World
  \* A client that keeps to its own begins with nothing.
  <1>6. KeepsToItsOwn(p) => u.obj = NoObject
    BY <1>2 DEF KeepsToItsOwn
  <1>7. Made(u.obj)
    BY <1>2 DEF MadeObjects, Made
  <1>8. NodesOwn' /\ Reserved' /\ AllMade'
    <2>1. NodesOwn' /\ Reserved'
      BY <1>0, <1>1 DEF NodesOwn, Reserved, KeepsToItsOwn
    <2>2. \A q \in Pages, l \in Tasks : Made(tasks'[q][l].obj)
      BY <1>0, <1>3, <1>7 DEF AllMade
    <2> QED BY <1>0, <1>1, <2>1, <2>2 DEF AllMade, Made
  <1>9. ASSUME NEW q \in Pages, q # p, PageKept(q)
        PROVE  PageKept(q)'
    <2>1. tasks'[q] = tasks[q]
      BY <1>3, <1>9
    <2>2. Busy(q)' /\ Calls(q)' /\ Fresh(q)'
      BY <1>1, <1>9, <2>1 DEF PageKept, Busy, Calls, Fresh, Own, Disposing, Stored
    <2>3. Held(q)'
      BY <1>1, <1>9, <2>1 DEF PageKept, Held, Owned, Apart, Alive, Own, Disposing, Stored
    <2>4. Described(q)' /\ Released(q)'
      BY <1>1, <1>9, <2>1 DEF PageKept, Described, Released, Leads
    <2> QED BY <2>2, <2>3, <2>4 DEF PageKept
  <1>10. ASSUME KeepsToItsOwn(p), PageKept(p)
         PROVE  PageKept(p)'
    <2>0. u.obj = NoObject
      BY <1>6, <1>10
    <2>1. Busy(p)' /\ Released(p)'
      BY <1>1, <1>3, <1>4, <1>10 DEF PageKept, Busy, Released, Own, Disposing
    <2>2. Calls(p)'
      <3>1. call[p].result = "sent" => pc[p] # "idle"
        BY <1>5, <1>10 DEF PageKept, Calls
      <3> QED BY <1>1, <1>3, <1>4, <1>10, <3>1 DEF PageKept, Calls, Own, Stored
    <2>3. Fresh(p)'
      BY <1>1, <1>3, <1>10, <2>0 DEF PageKept, Fresh, Stored
    <2>4. Owned(p)'
      BY <1>3, <1>10, <2>0 DEF PageKept, Held, Owned, Own
    <2>5. p \notin cleaned => Apart(p)'
      BY <1>1, <1>3, <1>10, <2>0 DEF PageKept, Held, Apart, Stored
    <2>6. p \notin cleaned => Alive(p)'
      BY <1>1, <1>3, <1>5, <1>10, <2>0 DEF PageKept, Held, Alive, Disposing, Stored
    <2>7. ASSUME p \notin cleaned PROVE Described(p)'
      <3>1. \A l \in Tasks :
               tasks'[p][l].of # NoObject => /\ Leads(p, tasks'[p][l].node, tasks'[p][l].of)
                                             /\ tasks'[p][l].obj = tasks'[p][l].of
        BY <1>2, <1>3, <1>10, <2>7 DEF PageKept, Described
      <3>2. pc[p] \in Describing => Leads(p, h[p].id, tasks'[p][h[p].task].obj)
        BY <1>3, <1>4, <1>10, <2>7 DEF PageKept, Described, Describing
      <3>3. pc[p] = "resolved" => tasks'[p][h[p].task].of = NoObject
        BY <1>3, <1>4, <1>10, <2>7 DEF PageKept, Described
      <3> QED BY <1>1, <3>1, <3>2, <3>3 DEF Described, Leads
    <2> QED BY <1>1, <2>1, <2>2, <2>3, <2>4, <2>5, <2>6, <2>7 DEF PageKept, Held, Described
  <1>11. \A q \in Pages : KeepsToItsOwn(q)' => PageKept(q)'
    BY <1>0, <1>1, <1>9, <1>10 DEF KeepsToItsOwn
  <1> QED BY <1>8, <1>11 DEF Kept

------------------------------------------------------------------------------
(* The read loop.                                                           *)

LEMMA ReaderKept == ASSUME Typed, Kept, ReaderStep PROVE Kept'
  <1>0. NodesOwn /\ AllMade /\ Reserved /\ \A q \in Pages : KeepsToItsOwn(q) => PageKept(q)
    BY DEF Kept
  <1>1. UNCHANGED <<pc, h, call, tasks, made, disposed, scenario>>
    BY DEF ReaderStep
  <1>2. ASSUME UNCHANGED nodeObjects, cleaned \subseteq cleaned'
        PROVE  Kept'
    <2>1. NodesOwn' /\ AllMade' /\ Reserved'
      BY <1>0, <1>1, <1>2 DEF NodesOwn, AllMade, Reserved, Made, KeepsToItsOwn
    <2>2. ASSUME NEW q \in Pages, PageKept(q) PROVE PageKept(q)'
      <3>1. Busy(q)' /\ Calls(q)' /\ Fresh(q)'
        BY <1>1, <1>2, <2>2 DEF PageKept, Busy, Calls, Fresh, Own, Disposing, Stored
      <3>2. Held(q)'
        BY <1>1, <1>2, <2>2 DEF PageKept, Held, Owned, Apart, Alive, Own, Disposing, Stored
      <3>3. Described(q)' /\ Released(q)'
        BY <1>1, <1>2, <2>2 DEF PageKept, Described, Released, Leads
      <3> QED BY <3>1, <3>2, <3>3 DEF PageKept
    <2> QED BY <1>0, <1>1, <2>1, <2>2 DEF Kept, KeepsToItsOwn
  <1>3. CASE TakeDialogOpened \/ TakeDialogClosed \/ TakeDetached \/ RemoveSession
    BY <1>2, <1>3 DEF TakeDialogOpened, TakeDialogClosed, TakeDetached, RemoveSession, nodes
  <1>4. CASE ClearState
    <2> DEFINE p == ending.page
    <2>1. /\ p \in cleaned /\ cleaned' = cleaned
          /\ nodeObjects' = Without(nodeObjects, {i \in DOMAIN nodeObjects : nodeObjects[i].owner = p})
      BY <1>4 DEF ClearState, ClearObjects, Typed, World
    <2>2. /\ DOMAIN nodeObjects' = {i \in DOMAIN nodeObjects : nodeObjects[i].owner # p}
          /\ \A i \in DOMAIN nodeObjects' : nodeObjects'[i] = nodeObjects[i]
      BY <2>1 DEF Without, Restrict
    <2> HIDE DEF p
    <2>4. \A q, o : Stored(q, o)' => Stored(q, o)
      BY <2>2 DEF Stored
    <2>5. ASSUME NEW q, q # p, NEW o, Stored(q, o)
          PROVE  \E i \in DOMAIN nodeObjects' : nodeObjects'[i] = [obj |-> o, owner |-> q]
      BY <2>2, <2>5 DEF Stored
    <2>6. ASSUME NEW q, q # p, NEW i, NEW o, Leads(q, i, o)
          PROVE  i \in DOMAIN nodeObjects' /\ nodeObjects'[i] = [obj |-> o, owner |-> q]
      BY <2>2, <2>6 DEF Leads
    <2>7. NodesOwn' /\ AllMade' /\ Reserved'
      BY <1>0, <1>1, <2>2 DEF NodesOwn, AllMade, Reserved, Made, KeepsToItsOwn
    <2>8. ASSUME NEW q \in Pages, PageKept(q) PROVE PageKept(q)'
      <3>0. \A o : ~Stored(q, o) => ~\E i \in DOMAIN nodeObjects' : nodeObjects'[i] = [obj |-> o, owner |-> q]
        BY <2>4 DEF Stored
      <3>1. Busy(q)' /\ Owned(q)' /\ Released(q)'
        BY <1>1, <2>8 DEF PageKept, Held, Busy, Owned, Own, Disposing, Released
      <3>2. Calls(q)'
        BY <1>1, <2>8, <3>0 DEF PageKept, Calls, Own, Stored
      <3>3. Fresh(q)'
        BY <1>1, <2>8, <3>0 DEF PageKept, Fresh, Stored
      <3>4. ASSUME q \notin cleaned PROVE Apart(q)' /\ Alive(q)' /\ Described(q)'
        <4>1. q # p
          BY <2>1, <3>4
        <4>2. Apart(q)'
          <5>1. ASSUME NEW k \in Tasks, NEW l \in Tasks, k # l, tasks[q][k].obj = tasks[q][l].obj,
                       tasks[q][k].obj # NoObject
                PROVE  \E i \in DOMAIN nodeObjects' :
                           nodeObjects'[i] = [obj |-> tasks[q][k].obj, owner |-> q]
            BY <2>5, <2>8, <3>4, <4>1, <5>1 DEF PageKept, Held, Apart
          <5> QED BY <1>1, <5>1 DEF Apart, Stored
        <4>3. Alive(q)'
          BY <1>1, <2>8, <3>0, <3>4 DEF PageKept, Held, Alive, Disposing, Stored
        <4>4. Described(q)'
          BY <1>1, <2>6, <2>8, <3>4, <4>1 DEF PageKept, Described, Leads
        <4> QED BY <4>2, <4>3, <4>4
      <3> QED BY <2>1, <3>1, <3>2, <3>3, <3>4 DEF PageKept, Held, Described
    <2> QED BY <1>0, <1>1, <2>7, <2>8 DEF Kept, KeepsToItsOwn
  <1> QED BY <1>3, <1>4 DEF ReaderStep

------------------------------------------------------------------------------
(* The theorem.                                                             *)

LEMMA KeptInit == Init => Kept
  <1> SUFFICES ASSUME Init PROVE Kept
    OBVIOUS
  <1>1. /\ \A p \in Pages : /\ pc[p] = "idle" /\ h[p] = NoCommand /\ call[p] = NoCall
                            /\ \A k \in Tasks : tasks[p][k] = NoTask
        /\ disposed = {} /\ nodeObjects = <<>>
    BY DEF Init
  <1>2. DOMAIN nodeObjects = {}
    BY <1>1, Tuples
  <1>3. /\ NoTask.prog = "none" /\ NoTask.obj = NoObject /\ NoTask.of = NoObject
        /\ NoCall.obj = NoObject /\ NoCall.kind = "none" /\ NoCall.result = "none"
    BY TypeFacts
  <1>4. NodesOwn /\ AllMade /\ Reserved
    BY <1>1, <1>2, <1>3 DEF NodesOwn, AllMade, Reserved, Made
  <1>5. ASSUME NEW p \in Pages
        PROVE  Busy(p) /\ Calls(p) /\ Fresh(p) /\ Held(p) /\ Described(p) /\ Released(p)
    <2>1. Busy(p) /\ Calls(p) /\ Fresh(p)
      BY <1>1, <1>3 DEF Busy, Calls, Fresh, Own, Finding, Quiet
    <2>2. Held(p)
      BY <1>1, <1>2, <1>3 DEF Held, Owned, Apart, Alive, Own, Stored
    <2>3. Described(p) /\ Released(p)
      BY <1>1, <1>3 DEF Described, Released, Describing
    <2> QED BY <2>1, <2>2, <2>3
  <1> QED BY <1>4, <1>5 DEF Kept, PageKept

LEMMA KeptNext == Typed /\ Kept /\ [Next]_vars => Kept'
  <1> SUFFICES ASSUME Typed, Kept, [Next]_vars PROVE Kept'
    OBVIOUS
  <1>1. CASE UNCHANGED vars
    <2>1. UNCHANGED <<scenario, cleaned, nodeObjects, pc, h, call, made, disposed, tasks>>
      BY <1>1 DEF vars, nodes, browser
    <2>2. NodesOwn' /\ AllMade' /\ Reserved'
      BY <2>1 DEF Kept, NodesOwn, AllMade, Reserved, Made, KeepsToItsOwn
    <2>3. ASSUME NEW p \in Pages, PageKept(p)
          PROVE  PageKept(p)'
      <3>1. Busy(p)' /\ Calls(p)' /\ Fresh(p)'
        BY <2>1, <2>3 DEF PageKept, Busy, Calls, Fresh, Own, Disposing, Stored
      <3>2. Held(p)'
        BY <2>1, <2>3 DEF PageKept, Held, Owned, Apart, Alive, Own, Disposing, Stored
      <3>3. Described(p)' /\ Released(p)'
        BY <2>1, <2>3 DEF PageKept, Described, Released, Leads
      <3> QED BY <3>1, <3>2, <3>3 DEF PageKept
    <2> QED BY <2>1, <2>2, <2>3 DEF Kept, KeepsToItsOwn
  <1> QED BY <1>1, HandlerKept, BrowserKept, StartKept, ReaderKept DEF Next

\* What a client that keeps to its own holds stays good, whatever objects other clients
\* describe, release or use: no call of it names an object that was released or is of another
\* page, and the node id of an object leads back to it while its page is open (releaseObject
\* spares stored objects, nextCtxID, the owner check of resolveNode).
THEOREM HandlesStay == Spec => []HandlesWork
  <1>1. Typed /\ Kept => HandlesWork
    <2> SUFFICES ASSUME Typed, Kept, NEW p \in Pages, KeepsToItsOwn(p)
                 PROVE  /\ call[p].result = "sent" /\ call[p].obj # NoObject
                              => call[p].obj[1] = p /\ call[p].obj \notin disposed
                        /\ \A k \in Tasks :
                              LET t == tasks[p][k]
                              IN  t.of # NoObject /\ p \notin cleaned
                                    => /\ t.node \in DOMAIN nodeObjects
                                       /\ nodeObjects[t.node] = [obj |-> t.of, owner |-> p]
      BY DEF HandlesWork
    <2>1. PageKept(p)
      BY DEF Kept
    <2>2. ASSUME call[p].result = "sent", call[p].obj # NoObject
          PROVE  call[p].obj[1] = p /\ call[p].obj \notin disposed
      <3>1. pc[p] # "idle" /\ call[p].obj = tasks[p][h[p].task].obj
        BY <2>1, <2>2, TypeFacts DEF PageKept, Calls
      <3> QED BY <2>1, <2>2, <3>1 DEF PageKept, Calls, Busy, Own, Disposing
    <2>3. ASSUME NEW k \in Tasks, tasks[p][k].of # NoObject, p \notin cleaned
          PROVE  Leads(p, tasks[p][k].node, tasks[p][k].of)
      BY <2>1, <2>3 DEF PageKept, Described
    <2> QED BY <2>2, <2>3 DEF Leads
  <1>2. Typed /\ Kept /\ [Next]_vars => Kept'
    BY KeptNext
  <1> QED BY <1>1, <1>2, KeptInit, AlwaysTyped, PTL DEF Spec

------------------------------------------------------------------------------
(* Selectors: a client that runs its programs in turn, in one task.         *)

\* Where a task is that ran a query and called no function since, and how many calls are to
\* be skipped: after queryAll the first function is Puppeteer's own, so that none is.
Awaits(t, skips) ==
    \/ t.prog = "element" /\ t.at \in 2 .. 4 /\ skips = 0
    \/ t.prog \in {"eval", "click"} /\ t.at \in 2 .. 5 /\ skips = 0
    \/ t.prog \in {"elements", "evalAll"} /\ t.at = 2 /\ skips = 3

\* A selector is remembered whose run has not ended.
Remembers(p) == lastQuery[p] # 0 /\ lastQuery[p] \notin left[p]

Applying == {"count", "skip", "combine"}
CallFns  == {"internal", "onObject", "user"}

Selected(p, k) ==
    /\ Remembers(p) =>
          LET t == tasks[p][k]
          IN  /\ t.prog # "none" /\ t.run = lastQuery[p]
              /\ pc[p] \notin QueryPCs => Awaits(t, lastQuerySkips[p])
              /\ pc[p] \in QueryPCs \ {"skips"} => lastQuerySkips[p] = Skips(h[p].cmd)
    /\ pc[p] \in Applying => lastQuery[p] # 0
    /\ pc[p] = "skip" => lastQuerySkips[p] > 0
    /\ pc[p] = "combine" => lastQuerySkips[p] = 0
    /\ pc[p] \in {"called", "combined"} /\ h[p].cmd \in CallFns => lastQuery[p] = 0

Selects ==
    /\ \A p \in Pages, k \in Tasks : tasks[p][k].prog # "none" => k \in DOMAIN scenario.programs[p]
    /\ \A p \in Pages \ cleaned, k \in Tasks : DOMAIN scenario.programs[p] = {k} => Selected(p, k)

\* What the handler of an open page does from where it is.
LEMMA Turns ==
    ASSUME Typed, NEW p \in Pages, p \notin cleaned, HandlerStep(p)
    PROVE  /\ pc[p] = "idle" =>
                 \E k \in Tasks :
                     /\ tasks[p][k].prog # "none"
                     /\ Cmd(p, k) \in CallFns => CallFunction(p, k)
                     /\ Cmd(p, k) \in {"query", "queryAll"} => StoreSelector(p, k)
                     /\ Cmd(p, k) \notin {"query", "queryAll"} => UNCHANGED queries
           /\ pc[p] = "skips" => StoreSkips(p)
           /\ pc[p] = "queried" => QueryReturns(p)
           /\ pc[p] = "note" => NoteObject(p)
           /\ pc[p] = "clear" => ClearPending(p)
           /\ pc[p] = "count" => Count(p)
           /\ pc[p] = "skip" => Skip(p)
           /\ pc[p] = "combine" => Combine(p)
           /\ pc[p] = "combined" => CombineReturns(p)
           /\ pc[p] = "called" => FunctionReturns(p)
           /\ pc[p] \in {"evaluated", "used", "selected", "store", "described", "detailed",
                         "fallback", "resolved", "printed"} => UNCHANGED queries
  <1>0. \A k \in Tasks : ~Refuse(p, k)
    BY DEF Refuse, Authorized, Typed, World
  <1>1. ASSUME NEW k \in Tasks,
               \/ CallFunction(p, k) \/ Evaluate(p, k) \/ ReleaseObject(p, k)
               \/ GetDocument(p, k) \/ ResolveNode(p, k) \/ PrintToPDF(p, k) \/ ReadStream(p, k)
               \/ DescribeNode(p, k) \/ HandleDialog(p, k) \/ CloseStream(p, k)
        PROVE  /\ pc[p] = "idle" /\ tasks[p][k].prog # "none" /\ UNCHANGED queries
               /\ CallFunction(p, k) \/ Cmd(p, k) \notin CallFns
               /\ Cmd(p, k) \notin {"query", "queryAll"}
    BY <1>1 DEF CallFunction, Evaluate, ReleaseObject, GetDocument, ResolveNode, PrintToPDF,
                ReadStream, DescribeNode, HandleDialog, CloseStream, Takes, CallFns
  <1>2. ASSUME NEW k \in Tasks,
               \/ GetProperties(p, k) \/ GetBoxModel(p, k) \/ GetOuterHTML(p, k)
               \/ GetContentQuads(p, k) \/ Focus(p, k) \/ SetFileInputFiles(p, k)
        PROVE  /\ pc[p] = "idle" /\ tasks[p][k].prog # "none" /\ UNCHANGED queries
               /\ Cmd(p, k) \notin CallFns \cup {"query", "queryAll"}
    BY <1>2 DEF GetProperties, GetBoxModel, GetOuterHTML, GetContentQuads, Focus, SetFileInputFiles,
                UseObject, Takes, CallFns
  <1>3. ASSUME NEW k \in Tasks, StoreSelector(p, k)
        PROVE  /\ pc[p] = "idle" /\ tasks[p][k].prog # "none"
               /\ Cmd(p, k) \in {"query", "queryAll"} /\ Cmd(p, k) \notin CallFns
    BY <1>3 DEF StoreSelector, Takes, CallFns
  <1>4. ASSUME \/ EvaluateReturns(p) \/ UseReturns(p) \/ QuerySelector(p) \/ QuerySelectorAll(p)
               \/ StoreNode(p) \/ DescribeReturns(p) \/ ResolveReturns(p) \/ StoreStream(p)
        PROVE  /\ UNCHANGED queries
               /\ pc[p] \in {"evaluated", "used", "selected", "store", "described", "detailed",
                             "fallback", "resolved", "printed"}
    BY <1>4 DEF EvaluateReturns, UseReturns, QuerySelector, QuerySelectorAll, StoreNode,
                DescribeReturns, ResolveReturns, StoreStream, Ended
  <1>5. /\ (StoreSkips(p) => pc[p] = "skips") /\ (QueryReturns(p) => pc[p] = "queried")
        /\ (NoteObject(p) => pc[p] = "note") /\ (ClearPending(p) => pc[p] = "clear")
        /\ (Count(p) => pc[p] = "count") /\ (Skip(p) => pc[p] = "skip")
        /\ (Combine(p) => pc[p] = "combine") /\ (CombineReturns(p) => pc[p] = "combined")
        /\ (FunctionReturns(p) => pc[p] = "called")
    BY DEF StoreSkips, QueryReturns, NoteObject, ClearPending, Count, Skip, Combine, CombineReturns,
           FunctionReturns, Ended
  <1>6. CASE pc[p] = "idle"
    BY <1>0, <1>1, <1>2, <1>3, <1>4, <1>5, <1>6 DEF HandlerStep
  <1>7. CASE pc[p] # "idle"
    <2>1. \/ StoreSkips(p) \/ QueryReturns(p) \/ NoteObject(p) \/ ClearPending(p) \/ Count(p)
          \/ Skip(p) \/ Combine(p) \/ CombineReturns(p) \/ FunctionReturns(p) \/ EvaluateReturns(p)
          \/ UseReturns(p) \/ QuerySelector(p) \/ QuerySelectorAll(p) \/ StoreNode(p)
          \/ DescribeReturns(p) \/ ResolveReturns(p) \/ StoreStream(p)
      BY <1>0, <1>1, <1>2, <1>3, <1>7 DEF HandlerStep
    <2> QED BY <1>4, <1>5, <1>7, <2>1
  <1> QED BY <1>6, <1>7

\* The commands after a query: its object goes to Puppeteer's world, or functions are called.
Moving == {"describe", "resolve", "release"}
LEMMA QuerySteps ==
    ASSUME NEW prog \in DOMAIN Programs
    PROVE  /\ prog = "element" => Len(Programs[prog]) = 4 /\ \A n \in 2 .. 4 : Programs[prog][n] \in Moving
           /\ prog = "eval" => /\ Len(Programs[prog]) = 6 /\ Programs[prog][5] = "user"
                               /\ \A n \in 2 .. 4 : Programs[prog][n] \in Moving
           /\ prog = "click" => /\ Len(Programs[prog]) = 6 /\ Programs[prog][5] = "internal"
                                /\ \A n \in 2 .. 4 : Programs[prog][n] \in Moving
           /\ prog \in {"elements", "evalAll"} => Programs[prog][2] = "internal"
           /\ \A n \in 1 .. Len(Programs[prog]) :
                 /\ Programs[prog][n] = "query" => n = 1 /\ prog \in {"element", "eval", "click"}
                 /\ Programs[prog][n] = "queryAll" => n = 1 /\ prog \in {"elements", "evalAll"}
  <1>1. CASE prog = "element"
    <2>1. /\ Len(Programs[prog]) = 4
          /\ Programs[prog][1] = "query" /\ Programs[prog][2] = "describe" /\ Programs[prog][3] = "resolve"
          /\ Programs[prog][4] = "release"
      BY <1>1, ProgramSteps
    <2> QED BY <1>1, <2>1 DEF Moving
  <1>2. CASE prog = "eval"
    <2>1. /\ Len(Programs[prog]) = 6
          /\ Programs[prog][1] = "query" /\ Programs[prog][2] = "describe" /\ Programs[prog][3] = "resolve"
          /\ Programs[prog][4] = "release" /\ Programs[prog][5] = "user" /\ Programs[prog][6] = "release"
      BY <1>2, ProgramSteps
    <2> QED BY <1>2, <2>1 DEF Moving
  <1>3. CASE prog = "click"
    <2>1. /\ Len(Programs[prog]) = 6
          /\ Programs[prog][1] = "query" /\ Programs[prog][2] = "describe" /\ Programs[prog][3] = "resolve"
          /\ Programs[prog][4] = "release" /\ Programs[prog][5] = "internal" /\ Programs[prog][6] = "release"
      BY <1>3, ProgramSteps
    <2> QED BY <1>3, <2>1 DEF Moving
  <1>4. CASE prog = "elements"
    <2>1. /\ Len(Programs[prog]) = 7
          /\ Programs[prog][1] = "queryAll" /\ Programs[prog][2] = "internal" /\ Programs[prog][3] = "internal"
          /\ Programs[prog][4] = "properties" /\ Programs[prog][5] = "describe" /\ Programs[prog][6] = "resolve"
          /\ Programs[prog][7] = "release"
      BY <1>4, ProgramSteps
    <2> QED BY <1>4, <2>1 DEF Moving
  <1>5. CASE prog = "evalAll"
    <2>1. /\ Len(Programs[prog]) = 10
          /\ Programs[prog][1] = "queryAll" /\ Programs[prog][2] = "internal" /\ Programs[prog][3] = "internal"
          /\ Programs[prog][4] = "properties" /\ Programs[prog][5] = "describe" /\ Programs[prog][6] = "resolve"
          /\ Programs[prog][7] = "release" /\ Programs[prog][8] = "user" /\ Programs[prog][9] = "user"
          /\ Programs[prog][10] = "release"
      BY <1>5, ProgramSteps
    <2> QED BY <1>5, <2>1 DEF Moving
  <1>6. CASE prog \notin {"element", "eval", "click", "elements", "evalAll"}
    <2> SUFFICES ASSUME NEW n \in 1 .. Len(Programs[prog]), Programs[prog][n] \in {"query", "queryAll"}
                 PROVE  FALSE
      BY <1>6
    <2>1. n = 1 /\ prog = "keep"
      BY <1>6, ProgramFacts DEF Describers
    <2> QED BY <2>1, ProgramSteps
  <1> QED BY <1>1, <1>2, <1>3, <1>4, <1>5, <1>6

\* A page's one task, and the selector its handler remembers.
LEMMA SelectedOwn ==
    ASSUME Typed, Selects, NEW p \in Pages, p \notin cleaned, HandlerStep(p), NEW k \in Tasks,
           DOMAIN scenario.programs[p] = {k}
    PROVE  Selected(p, k)' /\ \A l \in Tasks : tasks'[p][l].prog # "none" => l = k
  <1> DEFINE u == tasks[p][k]
  <1>0. /\ Selected(p, k) /\ \A l \in Tasks : tasks[p][l].prog # "none" => l = k
        /\ pc[p] # "idle" => h[p].task = k /\ u.prog # "none" /\ h[p].cmd = Cmd(p, k)
                             /\ pc[p] \in PCsOf(Cmd(p, k))
        /\ u \in Task /\ u.prog \in DOMAIN Programs /\ u.at \in Nat /\ u.run \in Runs
        /\ u.prog # "none" => Progresses(u)
        /\ Mine(p) = tasks[p][h[p].task]
    BY MineTyped, TaskFields DEF Selects, Typed, Running, Labelled, Control, Cmd, Going, Mine
  <1>1. /\ pc \in [Pages -> PCs] /\ h \in [Pages -> Command] /\ lastQuery \in [Pages -> Runs]
        /\ lastQuerySkips \in [Pages -> -1 .. 3] /\ left \in [Pages -> SUBSET Runs]
        /\ tasks \in [Pages -> [Tasks -> Task]] /\ call \in [Pages -> CallRec]
        /\ lastQuerySkips[p] # -1 /\ (pc[p] = "skip" => lastQuerySkips[p] # 0)
    BY DEF Typed, Control, Stores, World, Skipping
  <1>2. ASSUME UNCHANGED queries PROVE lastQuery' = lastQuery /\ lastQuerySkips' = lastQuerySkips
    BY <1>2 DEF queries
  \* The command answered is the task's; if it fails the run was given up.
  <1>3. ASSUME NEW g, NEW t \in Task, Answer(p, k, g, t), Same(t, u)
        PROVE  /\ pc'[p] = "idle" /\ \A l \in Tasks : l # k => tasks'[p][l] = tasks[p][l]
               /\ tasks'[p][k] = IF g /\ t.at < Len(Programs[t.prog]) THEN [t EXCEPT !.at = @ + 1]
                                 ELSE NoTask
               /\ left[p] \subseteq left'[p] /\ (~g => u.run \in left'[p])
               /\ u.prog = "element" /\ ~(u.at < Len(Programs[u.prog])) => u.run \in left'[p]
    <2>1. t.prog = u.prog /\ t.at = u.at /\ t.run = u.run
      BY <1>3 DEF Same
    <2>2. left' \in {left, [left EXCEPT ![p] = @ \cup {t.run}]}
      BY <1>3 DEF Answer
    <2>3. ~g \/ (t.prog = "element" /\ ~(t.at < Len(Programs[t.prog])))
              => left' = [left EXCEPT ![p] = @ \cup {t.run}]
      BY <1>3 DEF Answer
    <2>4. left[p] \subseteq left'[p]
      BY <1>1, <2>2
    <2>5. left' = [left EXCEPT ![p] = @ \cup {t.run}] => u.run \in left'[p]
      BY <1>1, <2>1
    <2>6. /\ pc'[p] = "idle" /\ \A l \in Tasks : l # k => tasks'[p][l] = tasks[p][l]
          /\ tasks'[p][k] = IF g /\ t.at < Len(Programs[t.prog]) THEN [t EXCEPT !.at = @ + 1]
                            ELSE NoTask
      BY <1>3, AnswerEffect
    <2> QED BY <2>1, <2>3, <2>4, <2>5, <2>6
  <1>4. ASSUME Answers(p)
        PROVE  /\ pc'[p] = "idle" /\ left[p] \subseteq left'[p]
               /\ \A l \in Tasks : tasks'[p][l].prog # "none" => l = k
    <2>1. PICK l \in Tasks, t \in Task : \E g : Answer(p, l, g, t) /\ tasks[p][l].prog # "none"
                                                /\ Same(t, tasks[p][l])
      BY <1>4 DEF Answers
    <2>2. PICK g : Answer(p, l, g, t) /\ tasks[p][l].prog # "none" /\ Same(t, tasks[p][l])
      BY <2>1
    <2> QED BY <1>0, <1>3, <2>2
  <1>5. ASSUME GoesOn(p)
        PROVE  /\ tasks' = tasks /\ left' = left /\ h'[p].task = k /\ h'[p].cmd = Cmd(p, k)
               /\ pc'[p] \in PCsOf(Cmd(p, k)) /\ u.prog # "none"
    BY <1>0, <1>5 DEF GoesOn
  <1>6. \A l \in Tasks : tasks'[p][l].prog # "none" => l = k
    BY <1>0, <1>4, <1>5, HandlerMoves
  \* Steps of commands that call no function: the selector stays, and its run goes on.
  <1>7. Remembers(p) /\ pc[p] \notin QueryPCs =>
            u.prog # "none" /\ u.run = lastQuery[p] /\ Awaits(u, lastQuerySkips[p])
    BY <1>0 DEF Selected
  <1>8. ASSUME UNCHANGED queries, u.prog # "none", pc[p] \notin QueryPCs,
               Cmd(p, k) \notin CallFns \cup {"query", "queryAll"}
        PROVE  Selected(p, k)'
    <2>1. lastQuery' = lastQuery /\ lastQuerySkips' = lastQuerySkips
      BY <1>2, <1>8
    <2>2. CASE GoesOn(p)
      <3>1. pc'[p] \notin QueryPCs \cup Applying /\ h'[p].cmd \notin CallFns
        BY <1>5, <1>8, <2>2, LabelOf DEF Applying, CallFns
      <3>2. Remembers(p)' => Remembers(p)
        BY <1>5, <2>1, <2>2 DEF Remembers
      <3> QED BY <1>5, <1>7, <1>8, <2>1, <2>2, <3>1, <3>2 DEF Selected, Applying, QueryPCs
    <2>3. CASE Answers(p)
      <3>1. pc'[p] = "idle" /\ left[p] \subseteq left'[p]
        BY <1>4, <2>3
      <3>2. ASSUME Remembers(p)'
            PROVE  /\ tasks'[p][k].prog # "none" /\ tasks'[p][k].run = lastQuery[p]
                   /\ Awaits(tasks'[p][k], lastQuerySkips[p])
        <4>1. u.run = lastQuery[p] /\ Awaits(u, lastQuerySkips[p]) /\ u.run \notin left'[p]
          BY <1>7, <1>8, <2>1, <3>1, <3>2 DEF Remembers
        <4>2. PICK t \in Task : \E g : Answer(p, k, g, t) /\ Same(t, u)
          BY <1>0, <2>3 DEF Answers
        <4>3. PICK g : Answer(p, k, g, t) /\ Same(t, u)
          BY <4>2
        <4>4. /\ tasks'[p][k] = IF g /\ t.at < Len(Programs[t.prog]) THEN [t EXCEPT !.at = @ + 1]
                                ELSE NoTask
              /\ ~g => u.run \in left'[p]
              /\ u.prog = "element" /\ ~(u.at < Len(Programs[u.prog])) => u.run \in left'[p]
          BY <1>3, <4>3
        <4>5. t.prog = u.prog /\ t.at = u.at /\ t.run = u.run
          BY <4>3 DEF Same
        <4>6. /\ u.prog \in {"element", "eval", "click"} /\ lastQuerySkips[p] = 0
              /\ u.at \in 2 .. 4 /\ u.at < Len(Programs[u.prog])
          <5>1. CASE u.prog = "element"
            BY <1>0, <4>1, <4>4, <5>1, QuerySteps DEF Awaits
          <5>2. CASE u.prog \in {"eval", "click"}
            BY <1>0, <1>8, <4>1, <5>2, QuerySteps DEF Awaits, Cmd, CallFns
          <5>3. CASE u.prog \in {"elements", "evalAll"}
            BY <1>0, <1>8, <4>1, <5>3, QuerySteps DEF Awaits, Cmd, CallFns
          <5> QED BY <4>1, <5>1, <5>2, <5>3 DEF Awaits
        <4>7. tasks'[p][k] = [t EXCEPT !.at = @ + 1]
          BY <4>1, <4>4, <4>5, <4>6
        <4>8. /\ tasks'[p][k].prog = u.prog /\ tasks'[p][k].at = u.at + 1
              /\ tasks'[p][k].run = u.run
          BY <1>0, <4>5, <4>7 DEF Task
        <4>9. u.prog = "element" => u.at < 4
          BY <1>0, <4>6, QuerySteps
        <4> QED BY <4>1, <4>6, <4>8, <4>9 DEF Awaits
      <3> QED BY <2>1, <3>1, <3>2 DEF Selected, Applying, QueryPCs
    <2> QED BY <2>2, <2>3, HandlerMoves
  <1>9. CASE pc[p] = "idle"
    <2>1. /\ Cmd(p, k) \in CallFns => CallFunction(p, k)
          /\ Cmd(p, k) \in {"query", "queryAll"} => StoreSelector(p, k)
          /\ Cmd(p, k) \notin {"query", "queryAll"} => UNCHANGED queries
          /\ u.prog # "none"
      BY <1>0, <1>9, Turns
    <2>2. ASSUME Cmd(p, k) \in CallFns PROVE Selected(p, k)'
      <3>1. lastQuery' = lastQuery /\ lastQuerySkips' = lastQuerySkips
        BY <1>2, <2>1, <2>2 DEF CallFns
      <3>2. CASE Answer(p, k, FALSE, u)
        <4>1. Same(u, u)
          BY DEF Same
        <4>2. pc'[p] = "idle" /\ left[p] \subseteq left'[p] /\ u.run \in left'[p]
          BY <1>0, <1>3, <3>2, <4>1
        <4>3. ~Remembers(p)'
          BY <1>0, <3>1, <4>2 DEF Selected, Remembers
        <4> QED BY <4>2, <4>3 DEF Selected, Applying
      <3>3. CASE lastQuery[p] = 0 /\ Sends(p, "called", "function", u.obj)
        <4>1. pc'[p] = "called" /\ lastQuery'[p] = 0
          BY <1>1, <3>1, <3>3 DEF Sends, Goto
        <4> QED BY <4>1 DEF Selected, Remembers, Applying
      <3>4. CASE /\ lastQuery[p] # 0 /\ Begins(p, k) /\ UNCHANGED <<call, tasks, left>>
                 /\ Goto(p, IF IsInternal(Cmd(p, k)) THEN "clear" ELSE "count")
        <4>1. pc'[p] \in {"clear", "count"}
          BY <1>1, <3>4 DEF Goto
        <4>2. Remembers(p)' => Remembers(p)
          BY <3>1, <3>4 DEF Remembers
        <4>3. Remembers(p) => Awaits(u, lastQuerySkips[p]) /\ u.run = lastQuery[p]
          BY <1>0, <1>9 DEF Selected, QueryPCs
        <4> QED BY <2>1, <3>1, <3>4, <4>1, <4>2, <4>3 DEF Selected, Applying, QueryPCs
      <3> QED BY <2>1, <2>2, <3>2, <3>3, <3>4 DEF CallFunction
    <2>3. ASSUME Cmd(p, k) \in {"query", "queryAll"} PROVE Selected(p, k)'
      <3>1. /\ pc'[p] = "skips" /\ lastQuery'[p] = u.run /\ tasks' = tasks /\ left' = left
        BY <1>1, <2>1, <2>3 DEF StoreSelector, Goto
      <3> QED BY <2>1, <3>1 DEF Selected, Remembers, Applying, QueryPCs
    <2>4. ASSUME Cmd(p, k) \notin CallFns \cup {"query", "queryAll"} PROVE Selected(p, k)'
      BY <1>8, <1>9, <2>1, <2>4 DEF QueryPCs
    <2> QED BY <1>6, <2>2, <2>3, <2>4
  <1>10. CASE pc[p] \in {"evaluated", "used", "selected", "store", "described", "detailed",
                         "fallback", "resolved", "printed"}
    <2>1. Cmd(p, k) \notin CallFns \cup {"query", "queryAll"} /\ u.prog # "none"
      BY <1>0, <1>10, LabelFacts DEF CallFns, QueryPCs
    <2>2. Selected(p, k)'
      BY <1>8, <1>10, <2>1, Turns DEF QueryPCs
    <2> QED BY <1>6, <2>2
  <1>11. CASE pc[p] = "skips"
    <2>1. StoreSkips(p)
      BY <1>11, Turns
    <2>2. /\ pc'[p] = "queried" /\ h' = h /\ tasks' = tasks /\ left' = left
          /\ lastQuery' = lastQuery /\ lastQuerySkips'[p] = Skips(h[p].cmd)
      BY <1>1, <2>1 DEF StoreSkips, Sends, Goto
    <2>3. Selected(p, k)'
      BY <1>0, <1>11, <2>2 DEF Selected, Remembers, Applying, QueryPCs
    <2> QED BY <1>6, <2>3
  <1>12. CASE pc[p] = "queried"
    <2>1. QueryReturns(p)
      BY <1>12, Turns
    <2>2. lastQuery' = lastQuery /\ lastQuerySkips' = lastQuerySkips
      BY <1>2, <2>1 DEF QueryReturns
    <2>3. CASE h' = [h EXCEPT ![p].id = NextCtxID] /\ Goto(p, "note") /\ UNCHANGED <<call, tasks, left>>
      <3>1. pc'[p] = "note" /\ h'[p].cmd = h[p].cmd /\ tasks' = tasks /\ left' = left
        BY <1>1, <2>3 DEF Goto, Command
      <3>2. Selected(p, k)'
        BY <1>0, <1>12, <2>2, <3>1 DEF Selected, Remembers, Applying, QueryPCs
      <3> QED BY <1>6, <3>2
    <2>4. CASE Answer(p, h[p].task, FALSE, Mine(p))
      <3>1. Same(u, u) /\ Answer(p, k, FALSE, u)
        BY <1>0, <1>12, <2>4 DEF Same
      <3>2. pc'[p] = "idle" /\ left[p] \subseteq left'[p] /\ u.run \in left'[p]
        BY <1>0, <1>3, <3>1
      <3>3. ~Remembers(p)'
        BY <1>0, <2>2, <3>2 DEF Selected, Remembers
      <3>4. Selected(p, k)'
        BY <3>2, <3>3 DEF Selected, Applying
      <3> QED BY <1>6, <3>4
    <2> QED BY <2>1, <2>3, <2>4 DEF QueryReturns
  <1>13. CASE pc[p] = "note"
    <2> DEFINE t == [u EXCEPT !.obj = call[p].obj]
    <2>1. NoteObject(p)
      BY <1>13, Turns
    <2>2. /\ lastQuery' = lastQuery /\ lastQuerySkips' = lastQuerySkips /\ Answer(p, k, TRUE, t)
      BY <1>0, <1>2, <1>13, <2>1 DEF NoteObject
    <2>3. t \in Task /\ Same(t, u) /\ t.prog = u.prog /\ t.at = u.at /\ t.run = u.run
      BY <1>0, MineTyped, TaskFields DEF Same, Task, Typed
    <2>4. /\ pc'[p] = "idle" /\ left[p] \subseteq left'[p]
          /\ tasks'[p][k] = IF t.at < Len(Programs[t.prog]) THEN [t EXCEPT !.at = @ + 1] ELSE NoTask
      BY <1>3, <2>2, <2>3
    <2>5. h[p].cmd \in {"query", "queryAll"} /\ h[p].cmd = Programs[u.prog][u.at] /\ u.at \in 1 .. Len(Programs[u.prog])
      BY <1>0, <1>13, LabelOf DEF Cmd, QueryPCs, Progresses
    <2>6. /\ u.at = 1 /\ Len(Programs[u.prog]) >= 2 /\ Len(Programs[u.prog]) \in Nat
          /\ \/ u.prog \in {"element", "eval", "click"} /\ h[p].cmd = "query"
             \/ u.prog \in {"elements", "evalAll"} /\ h[p].cmd = "queryAll"
      <3>1. u.at = 1
        BY <1>0, <2>5, ProgramFacts
      <3>2. \/ u.prog \in {"element", "eval", "click"} /\ h[p].cmd = "query"
            \/ u.prog \in {"elements", "evalAll"} /\ h[p].cmd = "queryAll"
        BY <1>0, <2>5, QuerySteps
      <3>3. u.prog \in Describers
        BY <3>2 DEF Describers
      <3> QED BY <1>0, <3>1, <3>2, <3>3, ProgramFacts
    <2>7. tasks'[p][k] = [t EXCEPT !.at = @ + 1]
      BY <2>3, <2>4, <2>6
    <2>8. tasks'[p][k].prog = u.prog /\ tasks'[p][k].at = 2 /\ tasks'[p][k].run = u.run
      BY <2>3, <2>6, <2>7 DEF Task
    <2>9. Remembers(p)' => /\ Remembers(p) /\ u.run = lastQuery[p] /\ lastQuerySkips[p] = Skips(h[p].cmd)
                           /\ u.prog # "none"
      BY <1>0, <1>13, <2>2, <2>4 DEF Selected, Remembers, QueryPCs
    <2>10. Remembers(p)' => Awaits(tasks'[p][k], lastQuerySkips[p])
      BY <2>6, <2>8, <2>9 DEF Awaits, Skips
    <2>11. Selected(p, k)'
      BY <2>2, <2>4, <2>8, <2>9, <2>10 DEF Selected, Applying, QueryPCs
    <2> QED BY <1>6, <2>11
  <1>14. CASE pc[p] = "clear" \/ pc[p] = "combine"
    <2>1. ClearPending(p) \/ Combine(p)
      BY <1>14, Turns
    <2>2. pc'[p] \in {"called", "combined"} /\ lastQuery'[p] = 0
      BY <1>1, <2>1 DEF ClearPending, Combine, Sends, Goto
    <2>3. Selected(p, k)'
      BY <2>2 DEF Selected, Remembers, Applying
    <2> QED BY <1>6, <2>3
  <1>15. CASE pc[p] = "count"
    <2>1. Count(p)
      BY <1>15, Turns
    <2>2. /\ lastQuery' = lastQuery /\ lastQuerySkips' = lastQuerySkips /\ tasks' = tasks /\ left' = left
          /\ pc'[p] = IF lastQuerySkips[p] > 0 THEN "skip" ELSE "combine"
      BY <1>1, <1>2, <2>1 DEF Count, Goto
    <2>3. lastQuerySkips[p] \in 0 .. 3
      BY <1>1
    <2>4. lastQuery[p] # 0 /\ (Remembers(p) => /\ u.prog # "none" /\ u.run = lastQuery[p]
                                                /\ Awaits(u, lastQuerySkips[p]))
      BY <1>0, <1>15 DEF Selected, Applying, QueryPCs
    <2>5. Remembers(p)' => Remembers(p)
      BY <2>2 DEF Remembers
    <2>6. Selected(p, k)'
      BY <2>2, <2>3, <2>4, <2>5 DEF Selected, Applying, QueryPCs
    <2> QED BY <1>6, <2>6
  <1>16. CASE pc[p] = "skip"
    <2>1. Skip(p)
      BY <1>16, Turns
    <2>2. /\ lastQuery' = lastQuery /\ lastQuerySkips'[p] = lastQuerySkips[p] - 1
          /\ Answer(p, k, TRUE, u) /\ Same(u, u)
      BY <1>0, <1>1, <1>16, <2>1 DEF Skip, Same
    <2>3. /\ pc'[p] = "idle" /\ left[p] \subseteq left'[p]
          /\ tasks'[p][k] = IF u.at < Len(Programs[u.prog]) THEN [u EXCEPT !.at = @ + 1] ELSE NoTask
      BY <1>0, <1>3, <2>2
    <2>4. Remembers(p)' => Remembers(p) /\ u.run = lastQuery[p] /\ Awaits(u, lastQuerySkips[p])
      BY <1>0, <1>16, <2>2, <2>3 DEF Selected, Remembers, QueryPCs
    <2>5. Cmd(p, k) \in {"onObject", "user"} /\ lastQuerySkips[p] > 0
      BY <1>0, <1>16, LabelOf DEF Selected
    <2>6. ~Remembers(p)'
      <3> SUFFICES ASSUME Remembers(p)' PROVE FALSE
        OBVIOUS
      <3>1. u.prog \in {"elements", "evalAll"} /\ u.at = 2
        BY <2>4, <2>5 DEF Awaits
      <3> QED BY <2>5, <3>1, ProgramSteps DEF Cmd
    <2>7. Selected(p, k)'
      BY <2>3, <2>6 DEF Selected, Applying
    <2> QED BY <1>6, <2>7
  <1>17. CASE pc[p] = "combined"
    <2>1. CombineReturns(p) /\ Cmd(p, k) \in CallFns
      BY <1>0, <1>17, Turns, LabelOf DEF CallFns
    <2>2. lastQuery[p] = 0 /\ lastQuery' = lastQuery
      BY <1>0, <1>2, <1>17, <2>1 DEF Selected, CombineReturns
    <2>3. pc'[p] \in {"idle", "combined"}
      BY <1>1, <2>1 DEF CombineReturns, Sends, Goto, Answer
    <2>4. Selected(p, k)'
      BY <2>2, <2>3 DEF Selected, Remembers, Applying
    <2> QED BY <1>6, <2>4
  <1>18. CASE pc[p] = "called"
    <2>1. FunctionReturns(p)
      BY <1>18, Turns
    <2>2. UNCHANGED queries /\ pc'[p] = "idle"
      BY <1>1, <2>1 DEF FunctionReturns, Answer, Goto
    <2>3. CASE Cmd(p, k) \in CallFns
      <3>1. lastQuery'[p] = 0
        BY <1>0, <1>2, <1>18, <2>2, <2>3 DEF Selected
      <3>2. Selected(p, k)'
        BY <2>2, <3>1 DEF Selected, Remembers, Applying
      <3> QED BY <1>6, <3>2
    <2>4. CASE Cmd(p, k) \notin CallFns
      <3>1. Cmd(p, k) \notin {"query", "queryAll"} /\ u.prog # "none"
        BY <1>0, <1>18, LabelFacts DEF QueryPCs
      <3>2. Selected(p, k)'
        BY <1>8, <1>18, <2>2, <2>4, <3>1 DEF QueryPCs
      <3> QED BY <1>6, <3>2
    <2> QED BY <2>3, <2>4
  <1> QED BY <1>1, <1>9, <1>10, <1>11, <1>12, <1>13, <1>14, <1>15, <1>16, <1>17, <1>18 DEF PCs

LEMMA SelectsNext == Typed /\ Selects /\ [Next]_vars => Selects'
  <1> SUFFICES ASSUME Typed, Selects, [Next]_vars PROVE Selects'
    OBVIOUS
  <1>1. ASSUME UNCHANGED <<scenario, pc, h, tasks, left>>, cleaned \subseteq cleaned',
               \A p \in Pages \ cleaned : lastQuery'[p] = lastQuery[p] /\ lastQuerySkips'[p] = lastQuerySkips[p]
        PROVE  Selects'
    BY <1>1 DEF Selects, Selected, Remembers
  <1>2. ASSUME NEW p \in Pages, HandlerStep(p) PROVE Selects'
    <2>0. scenario' = scenario /\ cleaned' = cleaned
      BY <1>2 DEF HandlerStep
    <2>1. ASSUME NEW q \in Pages, q # p
          PROVE  /\ pc'[q] = pc[q] /\ h'[q] = h[q] /\ tasks'[q] = tasks[q] /\ left'[q] = left[q]
                 /\ lastQuery'[q] = lastQuery[q] /\ lastQuerySkips'[q] = lastQuerySkips[q]
      BY <1>2, <2>1, OtherPages
    <2>2. \A q \in Pages, k \in Tasks : tasks'[q][k].prog # "none" => k \in DOMAIN scenario.programs[q]
      <3>1. \A k \in Tasks : tasks'[p][k].prog # "none" => tasks[p][k].prog # "none"
        <4>1. CASE GoesOn(p)
          BY <4>1 DEF GoesOn
        <4>2. CASE Answers(p)
          <5>1. PICK l \in Tasks, t \in Task : \E g : Answer(p, l, g, t) /\ tasks[p][l].prog # "none"
            BY <4>2 DEF Answers
          <5>2. PICK g : Answer(p, l, g, t) /\ tasks[p][l].prog # "none"
            BY <5>1
          <5>3. \A k \in Tasks : k # l => tasks'[p][k] = tasks[p][k]
            BY <1>2, <5>2, AnswerEffect
          <5> QED BY <5>2, <5>3
        <4> QED BY <1>2, <4>1, <4>2, HandlerMoves
      <3> QED BY <2>1, <3>1 DEF Selects
    <2>3. ASSUME NEW q \in Pages, q \notin cleaned, NEW k \in Tasks, DOMAIN scenario.programs[q] = {k}
          PROVE  Selected(q, k)'
      <3>1. CASE q = p
        BY <1>2, <2>3, <3>1, SelectedOwn
      <3>2. CASE q # p
        BY <2>1, <2>3, <3>2 DEF Selects, Selected, Remembers
      <3> QED BY <3>1, <3>2
    <2> QED BY <2>0, <2>2, <2>3 DEF Selects
  <1>3. ASSUME NEW p \in Pages, BrowserStep(p) PROVE Selects'
    BY <1>1, <1>3 DEF BrowserStep, queries
  <1>4. ASSUME NEW p \in Pages, NEW l \in Tasks, StartProgram(p, l) PROVE Selects'
    <2>1. PICK u \in Task : tasks' = [tasks EXCEPT ![p][l] = u] /\ l \in DOMAIN scenario.programs[p]
      BY <1>4, StartedTask
    <2>2. /\ \A k \in Tasks : k # l => tasks'[p][k] = tasks[p][k]
          /\ \A q \in Pages : q # p => tasks'[q] = tasks[q]
      BY <2>1 DEF Typed, Control
    <2>3. UNCHANGED <<scenario, cleaned, pc, h, left, lastQuery, lastQuerySkips>> /\ tasks[p][l].prog = "none"
      BY <1>4 DEF StartProgram, queries
    <2>4. ASSUME NEW q \in Pages, q \notin cleaned, NEW k \in Tasks, DOMAIN scenario.programs[q] = {k}
          PROVE  Selected(q, k)'
      <3>1. Selected(q, k)
        BY <2>4 DEF Selects
      <3>2. CASE q = p
        BY <2>1, <2>3, <2>4, <3>1, <3>2 DEF Selected, Remembers
      <3>3. CASE q # p
        BY <2>2, <2>3, <3>1, <3>3 DEF Selected, Remembers
      <3> QED BY <3>2, <3>3
    <2> QED BY <2>1, <2>2, <2>3, <2>4 DEF Selects
  <1>5. CASE ReaderStep
    <2>1. UNCHANGED <<scenario, pc, h, tasks, left>>
      BY <1>5 DEF ReaderStep
    <2>2. CASE ClearState
      <3>1. /\ ending.page \in cleaned /\ cleaned' = cleaned
            /\ lastQuery' = [lastQuery EXCEPT ![ending.page] = 0]
            /\ lastQuerySkips' = [lastQuerySkips EXCEPT ![ending.page] = 0]
        BY <2>2 DEF ClearState, Typed, World
      <3> QED BY <1>1, <2>1, <3>1 DEF Typed, Stores
    <2>3. CASE TakeDialogOpened \/ TakeDialogClosed \/ TakeDetached \/ RemoveSession
      BY <1>1, <2>1, <2>3 DEF TakeDialogOpened, TakeDialogClosed, TakeDetached, RemoveSession, queries
    <2> QED BY <1>5, <2>2, <2>3 DEF ReaderStep
  <1>6. CASE UNCHANGED vars
    BY <1>1, <1>6 DEF vars, queries
  <1> QED BY <1>2, <1>3, <1>4, <1>5, <1>6 DEF Next

\* The selector remembered for $eval is combined with the function of the $eval that
\* queried it, and no other function of a client that runs its programs in turn is combined
\* or skipped, unless the run that left the selector was given up before its function came,
\* or was page.$ (isPuppeteerInternal and the "count" of Runtime.callFunctionOn).
THEOREM SelectorsMatch == Spec => SelectorForItsFunction
  <1> DEFINE Matches(p) ==
          \/ lastQuery[p] \in left[p]
          \/ /\ lastQuery[p] = Mine(p).run /\ Mine(p).prog = "eval"
             /\ pc[p] = "combine" /\ h[p].cmd = "user"
  <1>1. Init => Selects
    <2> SUFFICES ASSUME Init PROVE Selects
      OBVIOUS
    <2>1. \A p \in Pages : /\ pc[p] = "idle" /\ lastQuery[p] = 0
                           /\ \A k \in Tasks : tasks[p][k].prog = "none"
      BY TypeFacts DEF Init
    <2> QED BY <2>1 DEF Selects, Selected, Remembers, Applying
  <1>2. ASSUME Typed, Selects, NEW p \in Pages \ cleaned, OneTask(p),
               Skip(p) \/ Combine(p)
        PROVE  Matches(p)
    <2>1. DOMAIN scenario.programs[p] \subseteq Tasks /\ IsFiniteSet(Tasks)
      BY <1>2, HandlesAssumption DEF Typed, World
    <2>2. IsFiniteSet(DOMAIN scenario.programs[p])
      BY <2>1, FS_Subset
    <2>3. PICK k : DOMAIN scenario.programs[p] = {k}
      BY <1>2, <2>2, FS_Singleton DEF OneTask
    <2>4. k \in Tasks /\ Selected(p, k)
      BY <1>2, <2>1, <2>3 DEF Selects
    <2>5. pc[p] \in {"skip", "combine"}
      BY <1>2 DEF Skip, Combine
    <2>6. /\ h[p].task = k /\ tasks[p][k].prog # "none" /\ h[p].cmd = Cmd(p, k)
          /\ Mine(p) = tasks[p][k] /\ pc[p] \in PCsOf(Cmd(p, k)) /\ tasks[p][k].prog \in DOMAIN Programs
      BY <1>2, <2>3, <2>4, <2>5, MineTyped, TaskFields DEF Selects, Typed, Running, Labelled, Control, Cmd, Mine
    <2>7. lastQuery[p] # 0
      BY <2>4, <2>5 DEF Selected, Applying
    <2>8. ASSUME lastQuery[p] \notin left[p]
          PROVE  /\ lastQuery[p] = tasks[p][k].run /\ tasks[p][k].prog = "eval"
                 /\ pc[p] = "combine" /\ h[p].cmd = "user"
      <3>1. tasks[p][k].run = lastQuery[p] /\ Awaits(tasks[p][k], lastQuerySkips[p])
        BY <2>4, <2>5, <2>7, <2>8 DEF Selected, Remembers, QueryPCs
      <3>2. Cmd(p, k) \in {"onObject", "user"}
        BY <2>5, <2>6, LabelOf
      <3>3. tasks[p][k].prog = "eval" /\ tasks[p][k].at = 5 /\ lastQuerySkips[p] = 0
        BY <2>6, <3>1, <3>2, QuerySteps DEF Awaits, Cmd, Moving
      <3>4. h[p].cmd = "user"
        BY <2>6, <3>3, ProgramSteps DEF Cmd
      <3>5. pc[p] = "combine"
        BY <2>4, <2>5, <3>3 DEF Selected
      <3> QED BY <3>1, <3>3, <3>4, <3>5
    <2> QED BY <2>6, <2>7, <2>8
  <1>3. Typed /\ Selects =>
            [\A p \in Pages \ cleaned :
                OneTask(p) /\ (Skip(p) \/ Combine(p)) => Matches(p)]_vars
    BY <1>2
  <1> QED BY <1>1, <1>3, SelectsNext, AlwaysTyped, PTL DEF Spec, SelectorForItsFunction
=============================================================================
