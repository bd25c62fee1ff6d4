----------------------------- MODULE RpcClient -----------------------------
(***************************************************************************)
(* The backend client's RPC layer (pkg/backend/juggler/client.go; sendBiDi *)
(* and readLoop of pkg/backend/bidi/client.go are the same code): calls    *)
(* from many goroutines share one transport, one read loop hands each      *)
(* answer to the call it belongs to and runs the event handlers itself.    *)
(***************************************************************************)
EXTENDS Naturals, Sequences, FiniteSets

CONSTANTS
    Goroutines,     \* callers other than the read loop
    Loop,           \* the read loop, which calls from an event handler
    LoopCalls,      \* do event handlers call the backend?
    MaxCalls,       \* bound on nextID
    MaxEvents       \* bound on the events the backend sends

ASSUME RpcAssumption ==
    /\ Loop \notin Goroutines
    /\ LoopCalls \in BOOLEAN
    /\ MaxCalls \in Nat /\ MaxEvents \in Nat

VARIABLES
    nextID,
    pending,        \* ids in the pending map
    chan,           \* ids whose channel holds the answer
    done,           \* is the done channel closed?
    open,           \* is the transport open?
    pc, id,         \* of each caller: where it is, the id of its call
    loopAt, hand,   \* the read loop, and the answer it is about to hand over
    wire,           \* what the backend sent and nobody read: ids, 0 for an event
    asked,          \* requests the backend has yet to answer
    events          \* events sent so far

client  == <<nextID, pending, chan, done, open>>
callers == <<pc, id>>
loop    == <<loopAt, hand>>
backend == <<wire, asked, events>>
vars    == <<client, callers, loop, backend>>

Callers == Goroutines \cup {Loop}
Ids     == 1 .. MaxCalls

TypeOK ==
    /\ nextID \in 0 .. MaxCalls
    /\ pending \subseteq Ids /\ chan \subseteq Ids
    /\ done \in BOOLEAN /\ open \in BOOLEAN
    /\ pc \in [Callers -> {"idle", "send", "wait", "forget"}]
    /\ id \in [Callers -> 0 .. MaxCalls]
    /\ loopAt \in {"receive", "deliver", "handler", "stopped"}
    /\ hand \in 0 .. MaxCalls
    /\ wire \in Seq(0 .. MaxCalls)
    /\ asked \subseteq Ids
    /\ events \in 0 .. MaxEvents

Init ==
    /\ nextID = 0 /\ pending = {} /\ chan = {} /\ done = FALSE /\ open = TRUE
    /\ pc = [p \in Callers |-> "idle"] /\ id = [p \in Callers |-> 0]
    /\ loopAt = "receive" /\ hand = 0
    /\ wire = <<>> /\ asked = {} /\ events = 0

------------------------------------------------------------------------------
(* CallWithContext.                                                         *)

Call(p) ==
    /\ pc[p] = "idle"
    /\ p = Loop => LoopCalls /\ loopAt = "handler"
    /\ nextID < MaxCalls
    /\ nextID'  = nextID + 1
    /\ id'      = [id EXCEPT ![p] = nextID + 1]
    /\ pending' = pending \cup {nextID + 1}
    /\ pc'      = [pc EXCEPT ![p] = "send"]
    /\ UNCHANGED <<chan, done, open, loop, backend>>

\* transport.Send, which may fail at any time and fails on a closed transport.
Send(p) ==
    /\ pc[p] = "send"
    /\ \/ /\ open
          /\ asked' = asked \cup {id[p]}
          /\ pc' = [pc EXCEPT ![p] = "wait"]
       \/ /\ pc' = [pc EXCEPT ![p] = "forget"]
          /\ UNCHANGED asked
    /\ UNCHANGED <<client, id, loop, wire, events>>

Return(p) ==
    /\ pc' = [pc EXCEPT ![p] = "idle"]
    /\ id' = [id EXCEPT ![p] = 0]

\* The three cases of the select: any that is ready may be taken.
TakeAnswer(p) ==
    /\ pc[p] = "wait" /\ id[p] \in chan
    /\ chan' = chan \ {id[p]}
    /\ Return(p)
    /\ UNCHANGED <<nextID, pending, done, open, loop, backend>>

Timeout(p) ==
    /\ pc[p] = "wait"
    /\ pc' = [pc EXCEPT ![p] = "forget"]
    /\ UNCHANGED <<client, id, loop, backend>>

SeeDone(p) ==
    /\ pc[p] = "wait" /\ done
    /\ Return(p)
    /\ UNCHANGED <<client, loop, backend>>

\* What stays pending when call i gave up.  Mutant: the entry is left behind.
StillPendingAll(i) == pending
StillPending(i) == pending \ {i}

Forget(p) ==
    /\ pc[p] = "forget"
    /\ pending' = StillPending(id[p])
    /\ Return(p)
    /\ UNCHANGED <<nextID, chan, done, open, loop, backend>>

------------------------------------------------------------------------------
(* readLoop and Close.                                                      *)

\* A call waits for message m.  Mutant: an event passes for an answer.
WaitedForAny(m) == m \in pending \cup {0}
WaitedFor(m) == m \in pending

\* The next message: an answer somebody waits for, one nobody does, an event.
Receive ==
    /\ loopAt = "receive" /\ open /\ wire # <<>>
    /\ wire' = Tail(wire)
    /\ \/ /\ WaitedFor(Head(wire))
          /\ pending' = pending \ {Head(wire)}
          /\ hand' = Head(wire)
          /\ loopAt' = "deliver"
       \/ /\ Head(wire) # 0 /\ ~WaitedFor(Head(wire))
          /\ UNCHANGED <<pending, loop>>
       \/ /\ Head(wire) = 0
          /\ loopAt' = "handler"
          /\ UNCHANGED <<pending, hand>>
    /\ UNCHANGED <<nextID, chan, done, open, callers, asked, events>>

\* Can the loop put answer i into the call's channel?  It has room for one.
\* Mutant: without the buffer it takes a caller that still waits.
RoomUnbuffered(i) == \E p \in Callers : pc[p] = "wait" /\ id[p] = i
Room(i) == i \notin chan

Deliver ==
    /\ loopAt = "deliver" /\ Room(hand)
    /\ chan' = chan \cup {hand}
    /\ loopAt' = "receive" /\ hand' = 0
    /\ UNCHANGED <<nextID, pending, done, open, callers, backend>>

\* The event handlers have returned.
Handled ==
    /\ loopAt = "handler" /\ pc[Loop] = "idle"
    /\ loopAt' = "receive"
    /\ UNCHANGED <<client, callers, hand, backend>>

\* The transport closed, the browser died, or a message did not parse.
ReceiveFails ==
    /\ loopAt = "receive"
    /\ done' = TRUE /\ open' = FALSE
    /\ loopAt' = "stopped"
    /\ UNCHANGED <<nextID, pending, chan, callers, hand, backend>>

\* Close by another goroutine: the done channel, then the transport.
Close ==
    /\ ~done
    /\ done' = TRUE
    /\ UNCHANGED <<nextID, pending, chan, open, callers, loop, backend>>

CloseTransport ==
    /\ done /\ open
    /\ open' = FALSE
    /\ UNCHANGED <<nextID, pending, chan, done, callers, loop, backend>>

------------------------------------------------------------------------------
(* The browser: it answers each request at most once, in any order.         *)

Answer(i) ==
    /\ open /\ i \in asked
    /\ asked' = asked \ {i}
    /\ wire' = Append(wire, i)
    /\ UNCHANGED <<client, callers, loop, events>>

Emit ==
    /\ open /\ events < MaxEvents
    /\ events' = events + 1
    /\ wire' = Append(wire, 0)
    /\ UNCHANGED <<client, callers, loop, asked>>

------------------------------------------------------------------------------
\* Mutant: the select of a call has no deadline.
CallStepNoDeadline(p) == Send(p) \/ TakeAnswer(p) \/ SeeDone(p) \/ Forget(p)
CallStep(p) == Send(p) \/ TakeAnswer(p) \/ Timeout(p) \/ SeeDone(p) \/ Forget(p)

LoopStep == Receive \/ Deliver \/ Handled

Next ==
    \/ \E p \in Callers : Call(p) \/ CallStep(p)
    \/ LoopStep \/ ReceiveFails
    \/ Close \/ CloseTransport
    \/ \E i \in Ids : Answer(i)
    \/ Emit

Spec == Init /\ [][Next]_vars

(* Goroutines run, the timer of a call fires, and the loop reads what is    *)
(* there; the browser need not answer and nobody need call or close.        *)
FairSpec ==
    /\ Spec
    /\ \A p \in Callers : WF_vars(CallStep(p))
    /\ WF_vars(LoopStep)
    /\ WF_vars(open = FALSE /\ ReceiveFails)

------------------------------------------------------------------------------
\* The pending map and the calls in progress agree.  Until the client closes no
\* entry outlives its call, whether answered, timed out or unsent; and an answer
\* can still reach every call that waits: its id is pending, or in the loop's
\* hand, or the answer is in the channel.
PendingMatchesCalls ==
    /\ ~done => \A i \in pending : \E p \in Callers : id[p] = i /\ pc[p] # "idle"
    /\ \A p \in Callers :
         pc[p] \in {"send", "wait"} =>
            Cardinality({x \in {"pending", "hand", "chan"} :
                \/ x = "pending" /\ id[p] \in pending
                \/ x = "hand" /\ hand = id[p]
                \/ x = "chan" /\ id[p] \in chan}) = 1

\* "Continue in a goroutine so the read loop can receive the command response"
\* (events.go:746): the loop never waits for an answer that only it can read.
LoopNotBehindItself ==
    ~ (pc[Loop] = "wait" /\ \E k \in DOMAIN wire : wire[k] = id[Loop])

\* Every call returns, answered or not: also the calls in flight when the client
\* closes, and the read loop's own.
CallsReturn == \A p \in Callers : (pc[p] # "idle") ~> (pc[p] = "idle")

\* The read loop never blocks on a caller that is gone: an answer that raced with
\* its call's timeout is put away and the next message is read.
LoopGoesOn == (loopAt \in {"deliver", "handler"}) ~> (loopAt = "receive")
==============================================================================
