--------------------------- MODULE DisplaySessions ---------------------------
(***************************************************************************)
(* What a display manager promises for a display that it serves, whatever  *)
(* the network does to its datagrams: it has at most one session on offer  *)
(* and at most one that it manages; it manages only a session that was on  *)
(* offer, and tells the process of the one before to stop; and a session   *)
(* id is never used again.                                                 *)
(***************************************************************************)
CONSTANTS Manager, Id

VARIABLES
    offered,        \* of each manager: the session on offer, if any
    managed,        \* the session it manages, if any
    ended,          \* the ids used up
    working         \* the session with a process that was not told to stop

vars == <<offered, managed, ended, working>>

Init ==
    /\ offered = [m \in Manager |-> {}]
    /\ managed = [m \in Manager |-> {}]
    /\ ended = [m \in Manager |-> {}]
    /\ working = [m \in Manager |-> {}]

Offer(m, s) ==
    /\ offered[m] = {}
    /\ s \notin managed[m] \cup ended[m]
    /\ offered' = [offered EXCEPT ![m] = {s}]
    /\ UNCHANGED <<managed, ended, working>>

Withdraw(m) ==
    /\ offered' = [offered EXCEPT ![m] = {}]
    /\ ended' = [ended EXCEPT ![m] = @ \cup offered[m]]
    /\ UNCHANGED <<managed, working>>

\* The process may fail to start.
Begin(m) ==
    /\ offered[m] # {}
    /\ offered' = [offered EXCEPT ![m] = {}]
    /\ managed' = [managed EXCEPT ![m] = offered[m]]
    /\ ended' = [ended EXCEPT ![m] = @ \cup managed[m]]
    /\ \E process \in {{}, offered[m]} : working' = [working EXCEPT ![m] = process]

End(m) ==
    /\ managed' = [managed EXCEPT ![m] = {}]
    /\ ended' = [ended EXCEPT ![m] = @ \cup managed[m]]
    /\ working' = [working EXCEPT ![m] = {}]
    /\ UNCHANGED offered

Next == \E m \in Manager : \/ \E s \in Id : Offer(m, s)
                           \/ Withdraw(m)
                           \/ Begin(m)
                           \/ End(m)

Spec == Init /\ [][Next]_vars
=============================================================================
