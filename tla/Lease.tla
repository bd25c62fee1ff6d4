-------------------------------- MODULE Lease --------------------------------
(***************************************************************************)
(* What page ownership promises: a page is leased to at most one           *)
(* connection over its whole life, to none that is gone, and a lease that  *)
(* is being released is never given back or given on.                      *)
(***************************************************************************)
CONSTANTS Conns, Targets, NoConn

VARIABLES
    phase,      \* of each page: none, open, closing, closed
    holder,     \* the connection that holds it, or NoConn
    gone        \* connections that left

lease == <<phase, holder, gone>>

Init ==
    /\ phase = [t \in Targets |-> "none"]
    /\ holder = [t \in Targets |-> NoConn]
    /\ gone = {}

\* The page shows up: free, held by a live connection, or to be closed at once.
Appear(t, c) ==
    /\ phase[t] = "none"
    /\ c \notin gone
    /\ \/ phase' = [phase EXCEPT ![t] = "open"]
       \/ c = NoConn /\ phase' = [phase EXCEPT ![t] = "closing"]
    /\ holder' = [holder EXCEPT ![t] = c]
    /\ UNCHANGED gone

\* A free page is given to a live connection.
Grant(t, c) ==
    /\ phase[t] = "open" /\ holder[t] = NoConn
    /\ c \in Conns \ gone
    /\ holder' = [holder EXCEPT ![t] = c]
    /\ UNCHANGED <<phase, gone>>

Release(t) ==
    /\ phase[t] = "open"
    /\ phase' = [phase EXCEPT ![t] = "closing"]
    /\ UNCHANGED <<holder, gone>>

Finish(t) ==
    /\ phase[t] = "closing"
    /\ phase' = [phase EXCEPT ![t] = "closed"]
    /\ UNCHANGED <<holder, gone>>

\* A connection leaves and everything it holds is released with it.
Disconnect(c) ==
    LET held == {t \in Targets : holder[t] = c /\ phase[t] = "open"} IN
    /\ c \notin gone
    /\ gone' = gone \cup {c}
    /\ phase' = [t \in Targets |-> IF t \in held THEN "closing" ELSE phase[t]]
    /\ holder' = [t \in Targets |-> IF t \in held THEN NoConn ELSE holder[t]]

Next ==
    \/ \E t \in Targets, c \in Conns \cup {NoConn} : Appear(t, c)
    \/ \E t \in Targets, c \in Conns : Grant(t, c)
    \/ \E t \in Targets : Release(t) \/ Finish(t)
    \/ \E c \in Conns : Disconnect(c)

Spec == Init /\ [][Next]_lease
==============================================================================
