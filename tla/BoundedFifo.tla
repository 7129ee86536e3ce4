---------------------------- MODULE BoundedFifo ----------------------------
(***************************************************************************)
(* What a pipe promises: between its creation and its close, a bounded     *)
(* first-in first-out queue of bytes.                                      *)
(***************************************************************************)
EXTENDS Sequences, Naturals

CONSTANTS Value, Capacity

VARIABLES open, queue

Init == open = FALSE /\ queue = <<>>

Create == ~open /\ open' = TRUE /\ queue' = <<>>

Put(v) == open /\ Len(queue) < Capacity /\ queue' = Append(queue, v) /\ open' = open

Take == open /\ queue # <<>> /\ queue' = Tail(queue) /\ open' = open

Close == open /\ open' = FALSE /\ queue' = <<>>

Next == Create \/ (\E v \in Value : Put(v)) \/ Take \/ Close

Spec == Init /\ [][Next]_<<open, queue>>
=============================================================================
