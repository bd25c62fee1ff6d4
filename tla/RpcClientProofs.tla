--------------------------- MODULE RpcClientProofs ---------------------------
(***************************************************************************)
(* Theorems about the backend client's RPC layer, for any number of        *)
(* callers, calls and events:                                              *)
(*   TypeCorrect    every variable keeps its type                          *)
(*   PendingAgrees  the pending map and the calls in progress agree        *)
(*   DeliveryRoom   the read loop never blocks when it hands an answer over *)
(***************************************************************************)
EXTENDS RpcClient, FiniteSetTheorems, SequenceTheorems, TLAPS

------------------------------------------------------------------------------
(* Type correctness: a request is sent with the id of a call, so the type   *)
(* of asked rests on callers at work having one, and what the loop delivers *)
(* is an answer.                                                            *)

Typed ==
    /\ TypeOK
    /\ \A p \in Callers : (pc[p] = "idle") <=> (id[p] = 0)
    /\ (loopAt = "deliver") <=> (hand # 0)

LEMMA IdFacts ==
    /\ 0 \in 0 .. MaxCalls /\ 0 \in 0 .. MaxEvents /\ 0 \notin Ids
    /\ \A i \in Ids : i \in 0 .. MaxCalls
    /\ \A i \in 0 .. MaxCalls : i # 0 => i \in Ids
    /\ \A n \in 0 .. MaxCalls : n < MaxCalls => n + 1 \in Ids /\ n + 1 \in 0 .. MaxCalls
    /\ \A n \in 0 .. MaxEvents : n < MaxEvents => n + 1 \in 0 .. MaxEvents
  BY RpcAssumption DEF Ids

LEMMA TypedInit == Init => Typed
  BY IdFacts, EmptySeq DEF Init, Typed, TypeOK

\* A step of a caller.
LEMMA TypedCaller ==
    ASSUME Typed, NEW p \in Callers, Call(p) \/ CallStep(p) PROVE Typed'
  <1> USE IdFacts DEF Typed, TypeOK, client, loop, backend
  <1>1. CASE Call(p)
    BY <1>1 DEF Call
  <1>2. CASE Send(p)
    <2>1. asked' \subseteq Ids
      BY <1>2 DEF Send
    <2> QED BY <1>2, <2>1 DEF Send
  <1>3. CASE TakeAnswer(p)
    BY <1>3 DEF TakeAnswer, Return
  <1>4. CASE Timeout(p)
    BY <1>4 DEF Timeout
  <1>5. CASE SeeDone(p)
    BY <1>5 DEF SeeDone, Return
  <1>6. CASE Forget(p)
    BY <1>6 DEF Forget, Return, StillPending
  <1> QED BY <1>1, <1>2, <1>3, <1>4, <1>5, <1>6 DEF CallStep

\* A step of the read loop, of Close, or of the browser.
LEMMA TypedReceive == ASSUME Typed, Receive PROVE Typed'
  <1>1. wire \in Seq(0 .. MaxCalls) /\ wire # <<>>
    BY DEF Typed, TypeOK, Receive
  <1>2. Tail(wire) \in Seq(0 .. MaxCalls) /\ Head(wire) \in 0 .. MaxCalls
    BY <1>1, HeadTailProperties
  <1> QED BY <1>2, IdFacts DEF Receive, WaitedFor, Typed, TypeOK, callers, loop

LEMMA TypedLoop ==
    ASSUME Typed, Deliver \/ Handled \/ ReceiveFails \/ Close \/ CloseTransport PROVE Typed'
  <1> USE IdFacts DEF Typed, TypeOK, client, callers, loop, backend
  <1>1. CASE Deliver
    <2>1. hand \in Ids
      BY <1>1 DEF Deliver
    <2> QED BY <1>1, <2>1 DEF Deliver
  <1>2. CASE Handled
    BY <1>2 DEF Handled
  <1>3. CASE ReceiveFails
    BY <1>3 DEF ReceiveFails
  <1>4. CASE Close
    BY <1>4 DEF Close
  <1>5. CASE CloseTransport
    BY <1>5 DEF CloseTransport
  <1> QED BY <1>1, <1>2, <1>3, <1>4, <1>5

LEMMA TypedBrowser ==
    ASSUME Typed, (\E i \in Ids : Answer(i)) \/ Emit PROVE Typed'
  <1>1. wire \in Seq(0 .. MaxCalls)
    BY DEF Typed, TypeOK
  <1>2. \A i \in 0 .. MaxCalls : Append(wire, i) \in Seq(0 .. MaxCalls)
    BY <1>1, AppendProperties
  <1> USE DEF Typed, TypeOK, client, callers, loop
  <1>3. ASSUME NEW i \in Ids, Answer(i) PROVE Typed'
    BY <1>2, <1>3, IdFacts DEF Answer
  <1>4. CASE Emit
    BY <1>2, <1>4, IdFacts DEF Emit
  <1> QED BY <1>3, <1>4

LEMMA TypedNext == Typed /\ [Next]_vars => Typed'
  <1> SUFFICES ASSUME Typed, [Next]_vars PROVE Typed'
    OBVIOUS
  <1>1. CASE UNCHANGED vars
    BY <1>1 DEF Typed, TypeOK, vars, client, callers, loop, backend
  <1> QED BY <1>1, TypedCaller, TypedReceive, TypedLoop, TypedBrowser DEF Next, LoopStep

\* Every variable keeps its type: ids stay in their range and only calls in
\* progress have one (CallWithContext, readLoop of client.go).
THEOREM TypeCorrect == Spec => []TypeOK
  <1>1. Typed => TypeOK
    BY DEF Typed
  <1> QED BY <1>1, TypedInit, TypedNext, PTL DEF Spec

------------------------------------------------------------------------------
(* The pending map and the calls.  An id is in one place: pending, in the   *)
(* loop's hand, or in its channel; no two calls have the same.              *)

Issued ==
    /\ pending \cup chan \cup {hand} \subseteq 0 .. nextID
    /\ \A p \in Callers : id[p] \in 0 .. nextID

Distinct == \A p, q \in Callers : id[p] = id[q] /\ id[p] # 0 => p = q

OnePlace ==
    /\ pending \cap chan = {}
    /\ hand \notin pending
    /\ hand \notin chan

Reachable ==
    \A p \in Callers : pc[p] \in {"send", "wait"} => id[p] \in pending \cup chan \cup {hand}

NoOrphan == ~done => \A i \in pending : \E p \in Callers : id[p] = i

Agree == Typed /\ Issued /\ Distinct /\ OnePlace /\ Reachable /\ NoOrphan

LEMMA AgreeInit == Init => Agree
  <1> SUFFICES ASSUME Init PROVE Agree
    OBVIOUS
  <1>1. Typed
    BY TypedInit
  <1> QED BY <1>1 DEF Init, Agree, Issued, Distinct, OnePlace, Reachable, NoOrphan

\* What is issued stays issued, and is smaller than the next id.
LEMMA NextIdIsNew ==
    ASSUME Agree PROVE /\ nextID + 1 \notin pending \cup chan \cup {hand}
                       /\ \A p \in Callers : id[p] # nextID + 1
                       /\ nextID \in Nat /\ 0 .. nextID \subseteq 0 .. nextID + 1
                       /\ nextID + 1 \in 0 .. nextID + 1
  <1>1. nextID \in Nat
    BY RpcAssumption DEF Agree, Typed, TypeOK
  <1>2. nextID + 1 \notin 0 .. nextID /\ 0 .. nextID \subseteq 0 .. nextID + 1
    BY <1>1
  <1> QED BY <1>1, <1>2 DEF Agree, Issued

LEMMA AgreeCall == ASSUME Agree, NEW p \in Callers, Call(p) PROVE Agree'
  <1>1. Typed'
    BY TypedCaller DEF Agree
  <1>2. /\ id \in [Callers -> 0 .. MaxCalls]
        /\ pc \in [Callers -> {"idle", "send", "wait", "forget"}]
        /\ id[p] = 0
    BY DEF Agree, Typed, TypeOK, Call
  <1>3. /\ nextID' = nextID + 1 /\ id' = [id EXCEPT ![p] = nextID + 1]
        /\ pending' = pending \cup {nextID + 1} /\ pc' = [pc EXCEPT ![p] = "send"]
        /\ UNCHANGED <<chan, done, hand>>
    BY DEF Call, loop
  <1> USE <1>2, <1>3, NextIdIsNew
  <1>4. Issued'
    BY DEF Agree, Issued
  <1>5. Distinct'
    BY DEF Agree, Distinct
  <1>6. OnePlace'
    BY DEF Agree, OnePlace
  <1>7. Reachable'
    BY DEF Agree, Reachable
  <1>8. NoOrphan'
    <2> SUFFICES ASSUME ~done, NEW i \in pending' PROVE \E q \in Callers : id'[q] = i
      BY DEF NoOrphan
    <2>1. CASE i = nextID + 1
      BY <2>1
    <2>2. CASE i \in pending
      <3>1. PICK q \in Callers : id[q] = i
        BY <2>2 DEF Agree, NoOrphan
      <3>2. i # 0
        BY <2>2, IdFacts DEF Agree, Typed, TypeOK
      <3> QED BY <3>1, <3>2
    <2> QED BY <2>1, <2>2
  <1> QED BY <1>1, <1>4, <1>5, <1>6, <1>7, <1>8 DEF Agree

\* A call whose id is in no map any more returns.
LEMMA AgreeReturn ==
    ASSUME Agree, Typed', NEW p \in Callers, Return(p), UNCHANGED <<nextID, hand>>,
           \/ pending' = pending \ {id[p]} /\ chan' = chan
           \/ pending' = pending /\ chan' = chan \ {id[p]} /\ id[p] \in chan,
           done => done'
    PROVE  Agree'
  <1>1. /\ id \in [Callers -> 0 .. MaxCalls]
        /\ pc \in [Callers -> {"idle", "send", "wait", "forget"}]
        /\ id' = [id EXCEPT ![p] = 0] /\ pc' = [pc EXCEPT ![p] = "idle"]
    BY DEF Agree, Typed, TypeOK, Return
  <1>2. nextID \in Nat /\ 0 \in 0 .. nextID
    BY RpcAssumption DEF Agree, Typed, TypeOK
  <1>3. Issued'
    BY <1>1, <1>2 DEF Agree, Issued
  <1>4. Distinct'
    BY <1>1 DEF Agree, Distinct
  <1>5. OnePlace'
    BY DEF Agree, OnePlace
  <1>6. Reachable'
    <2> SUFFICES ASSUME NEW q \in Callers, pc'[q] \in {"send", "wait"}
                 PROVE  id'[q] \in pending' \cup chan' \cup {hand}
      BY DEF Reachable
    <2>1. q # p /\ pc[q] \in {"send", "wait"} /\ id'[q] = id[q]
      BY <1>1
    <2>2. id[q] # id[p]
      BY <2>1 DEF Agree, Distinct, Typed
    <2> QED BY <2>1, <2>2 DEF Agree, Reachable
  <1>7. NoOrphan'
    <2> SUFFICES ASSUME ~done, NEW i \in pending' PROVE \E q \in Callers : id'[q] = i
      BY DEF NoOrphan
    <2>1. i \in pending /\ i # id[p]
      BY DEF Agree, OnePlace
    <2>2. PICK q \in Callers : id[q] = i
      BY <2>1 DEF Agree, NoOrphan
    <2> QED BY <1>1, <2>1, <2>2
  <1> QED BY <1>3, <1>4, <1>5, <1>6, <1>7 DEF Agree

LEMMA AgreeCallStep == ASSUME Agree, NEW p \in Callers, CallStep(p) PROVE Agree'
  <1>1. Typed'
    BY TypedCaller DEF Agree
  <1>2. ASSUME Send(p) \/ Timeout(p) PROVE Agree'
    <2>1. /\ pc \in [Callers -> {"idle", "send", "wait", "forget"}]
          /\ pc[p] \in {"send", "wait"} /\ UNCHANGED <<nextID, pending, chan, done, hand, id>>
          /\ pc' = [pc EXCEPT ![p] = "wait"] \/ pc' = [pc EXCEPT ![p] = "forget"]
      BY <1>2 DEF Send, Timeout, client, loop, Agree, Typed, TypeOK
    <2>2. Reachable'
      BY <2>1 DEF Agree, Reachable
    <2> QED BY <1>1, <2>1, <2>2 DEF Agree, Issued, Distinct, OnePlace, NoOrphan
  <1>3. CASE TakeAnswer(p)
    BY <1>1, <1>3, AgreeReturn DEF TakeAnswer, loop
  <1>4. CASE SeeDone(p)
    <2>1. UNCHANGED <<nextID, pending, chan, done, hand>> /\ Return(p) /\ done /\ pc[p] = "wait"
      BY <1>4 DEF SeeDone, client, loop
    <2>2. /\ id \in [Callers -> 0 .. MaxCalls]
          /\ pc \in [Callers -> {"idle", "send", "wait", "forget"}]
          /\ id' = [id EXCEPT ![p] = 0] /\ pc' = [pc EXCEPT ![p] = "idle"]
          /\ 0 \in 0 .. nextID
      BY <2>1, RpcAssumption DEF Agree, Typed, TypeOK, Return
    <2>3. Issued'
      BY <2>1, <2>2 DEF Agree, Issued
    <2>4. Distinct'
      BY <2>1, <2>2 DEF Agree, Distinct
    <2>5. Reachable'
      BY <2>1, <2>2 DEF Agree, Reachable
    <2> QED BY <1>1, <2>1, <2>3, <2>4, <2>5 DEF Agree, OnePlace, NoOrphan
  <1>5. CASE Forget(p)
    BY <1>1, <1>5, AgreeReturn DEF Forget, StillPending, loop
  <1> QED BY <1>2, <1>3, <1>4, <1>5 DEF CallStep

\* The loop moves an id from the pending map into its hand and on into a channel.
LEMMA AgreeLoop == ASSUME Agree, LoopStep PROVE Agree'
  <1>1. Typed'
    BY TypedReceive, TypedLoop DEF Agree, LoopStep
  <1>2. CASE Receive
    <2>1. UNCHANGED <<nextID, chan, done, pc, id>>
      BY <1>2 DEF Receive, callers
    <2>2. CASE UNCHANGED <<pending, hand>>
      BY <1>1, <2>1, <2>2 DEF Agree, Issued, Distinct, OnePlace, Reachable, NoOrphan
    <2>3. CASE /\ Head(wire) \in pending
               /\ pending' = pending \ {Head(wire)} /\ hand' = Head(wire)
      <3>1. hand = 0 /\ \A p \in Callers : pc[p] \in {"send", "wait"} => id[p] # 0
        BY <1>2 DEF Receive, Agree, Typed
      <3>2. Issued' /\ Distinct' /\ OnePlace'
        BY <2>1, <2>3 DEF Agree, Issued, Distinct, OnePlace
      <3>3. Reachable'
        BY <2>1, <2>3, <3>1 DEF Agree, Reachable
      <3>4. NoOrphan'
        BY <2>1, <2>3 DEF Agree, NoOrphan
      <3> QED BY <1>1, <3>2, <3>3, <3>4 DEF Agree
    <2> QED BY <1>2, <2>2, <2>3 DEF Receive, WaitedFor, loop
  <1>3. CASE Deliver
    <2>1. /\ chan' = chan \cup {hand} /\ hand' = 0
          /\ UNCHANGED <<nextID, pending, done, pc, id>>
      BY <1>3 DEF Deliver, callers
    <2>2. nextID \in Nat /\ 0 \in 0 .. nextID
      BY RpcAssumption DEF Agree, Typed, TypeOK
    <2>3. 0 \notin pending \cup chan /\ hand # 0
      BY <1>3, IdFacts DEF Deliver, Agree, Typed, TypeOK
    <2>4. Issued' /\ Distinct' /\ OnePlace'
      BY <2>1, <2>2, <2>3 DEF Agree, Issued, Distinct, OnePlace
    <2>5. Reachable' /\ NoOrphan'
      BY <2>1 DEF Agree, Reachable, NoOrphan
    <2> QED BY <1>1, <2>4, <2>5 DEF Agree
  <1>4. CASE Handled
    BY <1>1, <1>4 DEF Handled, client, callers, Agree, Issued, Distinct, OnePlace, Reachable, NoOrphan
  <1> QED BY <1>2, <1>3, <1>4 DEF LoopStep

\* Whatever else happens leaves ids and calls alone, and done stays done.
LEMMA AgreeElse ==
    ASSUME Agree, Typed', UNCHANGED <<nextID, pending, chan, hand, pc, id>>, done => done'
    PROVE  Agree'
  BY DEF Agree, Issued, Distinct, OnePlace, Reachable, NoOrphan

LEMMA AgreeNext == Agree /\ [Next]_vars => Agree'
  <1> SUFFICES ASSUME Agree, [Next]_vars PROVE Agree'
    OBVIOUS
  <1>1. Typed'
    BY TypedNext DEF Agree
  <1>2. CASE ReceiveFails \/ Close \/ CloseTransport \/ (\E i \in Ids : Answer(i)) \/ Emit
             \/ UNCHANGED vars
    BY <1>1, <1>2, AgreeElse
       DEF ReceiveFails, Close, CloseTransport, Answer, Emit, vars, client, callers, loop
  <1> QED BY <1>2, AgreeCall, AgreeCallStep, AgreeLoop DEF Next

\* The count of PendingMatchesCalls says that an id is in exactly one of three places.
LEMMA OneOfThree ==
    ASSUME NEW a \in BOOLEAN, NEW b \in BOOLEAN, NEW c \in BOOLEAN,
           a \/ b \/ c, ~(a /\ b), ~(a /\ c), ~(b /\ c)
    PROVE  Cardinality({x \in {"pending", "hand", "chan"} :
                \/ x = "pending" /\ a
                \/ x = "hand" /\ b
                \/ x = "chan" /\ c}) = 1
  <1> DEFINE S == {x \in {"pending", "hand", "chan"} :
                \/ x = "pending" /\ a
                \/ x = "hand" /\ b
                \/ x = "chan" /\ c}
  <1>1. S = IF a THEN {"pending"} ELSE IF b THEN {"hand"} ELSE {"chan"}
    OBVIOUS
  <1>2. \E x : S = {x}
    BY <1>1
  <1> HIDE DEF S
  <1>3. Cardinality(S) = 1
    BY <1>2, FS_Singleton
  <1> QED BY <1>3 DEF S

LEMMA AgreeMatches == Agree => PendingMatchesCalls
  <1> SUFFICES ASSUME Agree PROVE PendingMatchesCalls
    OBVIOUS
  <1>1. ~done => \A i \in pending : \E p \in Callers : id[p] = i /\ pc[p] # "idle"
    <2> SUFFICES ASSUME ~done, NEW i \in pending
                 PROVE  \E p \in Callers : id[p] = i /\ pc[p] # "idle"
      OBVIOUS
    <2>1. PICK p \in Callers : id[p] = i
      BY DEF Agree, NoOrphan
    <2>2. i # 0
      BY IdFacts DEF Agree, Typed, TypeOK
    <2> QED BY <2>1, <2>2 DEF Agree, Typed
  <1>2. ASSUME NEW p \in Callers, pc[p] \in {"send", "wait"}
        PROVE  Cardinality({x \in {"pending", "hand", "chan"} :
                   \/ x = "pending" /\ id[p] \in pending
                   \/ x = "hand" /\ hand = id[p]
                   \/ x = "chan" /\ id[p] \in chan}) = 1
    <2>1. id[p] \in pending \/ hand = id[p] \/ id[p] \in chan
      BY <1>2 DEF Agree, Reachable
    <2> QED BY <2>1, OneOfThree DEF Agree, OnePlace
  <1> QED BY <1>1, <1>2 DEF PendingMatchesCalls

\* Until the client closes no entry of the pending map outlives its call, whether
\* it is answered, times out or was never sent; and the answer to a call that waits
\* is on its way in exactly one place (CallWithContext against readLoop).
THEOREM PendingAgrees == Spec => []PendingMatchesCalls
  BY AgreeInit, AgreeNext, AgreeMatches, PTL DEF Spec

\* An answer that the loop has taken finds room in its call's channel, also when the
\* call gave up meanwhile: "ch <- resp" of readLoop cannot block it.
THEOREM DeliveryRoom == Spec => [](loopAt = "deliver" => Room(hand))
  <1>1. Agree => (loopAt = "deliver" => Room(hand))
    BY DEF Agree, OnePlace, Room
  <1> QED BY <1>1, AgreeInit, AgreeNext, PTL DEF Spec
==============================================================================
