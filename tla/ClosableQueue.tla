---------------------------- MODULE ClosableQueue ----------------------------
(* What Queue promises: a bounded FIFO that refuses what comes after close. *)
EXTENDS Naturals, Sequences

CONSTANTS Items, Room
VARIABLES queue, closed, taken

Init == queue = <<>> /\ closed = FALSE /\ taken = <<>>

Push(i) ==
  /\ ~closed /\ Len(queue) < Room
  /\ queue' = Append(queue, i)
  /\ UNCHANGED <<closed, taken>>

Pop ==
  /\ queue # <<>>
  /\ queue' = Tail(queue)
  /\ taken' = Append(taken, Head(queue))
  /\ UNCHANGED closed

Close == closed' = TRUE /\ UNCHANGED <<queue, taken>>

Next == (\E i \in Items : Push(i)) \/ Pop \/ Close

Spec == Init /\ [][Next]_<<queue, closed, taken>>
=============================================================================
