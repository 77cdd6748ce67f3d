------------------------------- MODULE Deque -------------------------------
(***************************************************************************)
(* What utils/ring promises: "Buffer is a deque maintained over a ring     *)
(* buffer" (ring_buffer.go:13).  The deque is a sequence, its front at     *)
(* index 1; capacity, head and tail are not part of the promise.           *)
(***************************************************************************)
EXTENDS Naturals, Sequences

CONSTANT Element

VARIABLE deque

Init == deque = << >>

PushFront(e) == deque' = <<e>> \o deque

PushBack(e) == deque' = Append(deque, e)

PopFront == deque # << >> /\ deque' = Tail(deque)

PopBack == deque # << >> /\ deque' = SubSeq(deque, 1, Len(deque) - 1)

Clear == deque' = << >>

Next ==
  \/ \E e \in Element : PushFront(e) \/ PushBack(e)
  \/ PopFront
  \/ PopBack
  \/ Clear

Spec == Init /\ [][Next]_deque
=============================================================================
