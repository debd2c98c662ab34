---------------------------- MODULE MessageFifo ----------------------------
(***************************************************************************)
(* What the window-manager queue promises the threads that use it: a       *)
(* first-in first-out channel with one receiver.  A message that was sent  *)
(* is received once, in the order of the sends, and the receiver has at    *)
(* most one message in hand at a time.                                     *)
(***************************************************************************)
EXTENDS Sequences

CONSTANT Message    \* what a winWMMessageRec can say

VARIABLES
    queue,          \* messages sent and not yet received, oldest first
    inHand          \* << >>, or the one message the receiver is handling

vars == <<queue, inHand>>

Init ==
    /\ queue = << >>
    /\ inHand = << >>

Send(m) ==
    /\ queue' = Append(queue, m)
    /\ UNCHANGED inHand

Receive ==
    /\ inHand = << >>
    /\ queue # << >>
    /\ inHand' = <<Head(queue)>>
    /\ queue' = Tail(queue)

Finish ==
    /\ inHand # << >>
    /\ inHand' = << >>
    /\ UNCHANGED queue

Next ==
    \/ \E m \in Message : Send(m)
    \/ Receive
    \/ Finish

\* The promise a step keeps.
Safety == Init /\ [][Next]_vars

\* And the receiver always gets to the next message.
Spec == Safety /\ WF_vars(Receive) /\ WF_vars(Finish)
=============================================================================
