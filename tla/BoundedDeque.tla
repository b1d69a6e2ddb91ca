---------------------------- MODULE BoundedDeque ----------------------------
(***************************************************************************)
(* What a request buffer promises: a queue of at most Size values that     *)
(* takes values at either end, gives them out at the front, and drops the  *)
(* oldest value rather than refuse a new one.                              *)
(***************************************************************************)
EXTENDS Naturals, Sequences

CONSTANTS Values, Size

VARIABLE queue

Init == queue = <<>>

\* What is left of the queue once there is room for one more.
Room == IF Len(queue) = Size THEN Tail(queue) ELSE queue

PushBack(v) == queue' = Append(Room, v)

PushFront(v) == queue' = <<v>> \o Room

PopFront ==
  /\ queue # <<>>
  /\ queue' = Tail(queue)

Next ==
  \/ \E v \in Values : PushBack(v) \/ PushFront(v)
  \/ PopFront

Spec == Init /\ [][Next]_queue
=============================================================================
