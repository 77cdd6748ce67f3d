----------------------------- MODULE RingBuffer -----------------------------
(***************************************************************************)
(* utils/ring/ring_buffer.go: a deque over a slice used as a ring.  The    *)
(* slice is a sequence, so Go's r.buffer[i] is buffer[i + 1].              *)
(*                                                                         *)
(* The calls the code rejects with a panic before touching the buffer (an  *)
(* access to an empty buffer, Reserve below the current length) leave the  *)
(* state as it was, so they are not steps.  The slice-bounds panic inside  *)
(* grow is not one of those: it is recorded in panicked.                   *)
(***************************************************************************)
EXTENDS Naturals, Sequences

CONSTANTS
  Element,    \* what clients store
  Nil,        \* the zero interface value of an unused slot
  MaxLen,     \* bound: the clients never hold more elements than this
  MaxReserve  \* bound: the largest capacity a client asks Reserve for

ASSUME RingAssumption ==
  /\ Nil \notin Element
  /\ MaxLen \in Nat
  /\ MaxReserve \in Nat

VARIABLES
  buffer,    \* the slice; its length is the capacity
  head,      \* index of the front
  tail,      \* index of the first position after the end
  nonEmpty,  \* distinguishes empty from full when head = tail
  panicked   \* a slice expression in grow was out of bounds

vars == <<buffer, head, tail, nonEmpty, panicked>>

Cap == Len(buffer)

Length ==
  CASE ~nonEmpty                -> 0
    [] nonEmpty /\ head < tail  -> tail - head
    [] nonEmpty /\ head = tail  -> Cap
    [] nonEmpty /\ head > tail  -> Cap + tail - head

Get(pos) == buffer[((pos + head) % Cap) + 1]

Init ==
  /\ buffer = << >>
  /\ head = 0
  /\ tail = 0
  /\ nonEmpty = FALSE
  /\ panicked = FALSE

-----------------------------------------------------------------------------
\* The slots a grow to n slots starts with: the live part of the old slice,
\* unwrapped, and Nil above it.
Grown(n) ==
  LET live == IF head < tail
              THEN SubSeq(buffer, head + 1, tail)
              ELSE SubSeq(buffer, head + 1, Cap) \o SubSeq(buffer, 1, tail)
  IN  [i \in 1 .. n |-> IF i <= Length /\ i <= Len(live) THEN live[i] ELSE Nil]

\* newBuffer[cap-head : Len()] is out of bounds exactly when the buffer holds
\* nothing but has slots at or above head.
GrowPanics == ~(head < tail) /\ Cap - head > Length

\* The fields after maybeGrow: unchanged unless the ring is full, else grow to
\* twice the capacity.  grow sets tail to the OLD capacity.
AfterMaybeGrow ==
  IF Length # Cap
  THEN [buffer |-> buffer, head |-> head, tail |-> tail]
  ELSE [buffer |-> Grown(IF Cap = 0 THEN 1 ELSE 2 * Cap), head |-> 0, tail |-> Cap]

AddFirst(e) ==
  /\ Length < MaxLen
  /\ LET r == AfterMaybeGrow
         c == Len(r.buffer)
         h == (c + r.head - 1) % c
     IN  /\ buffer' = [r.buffer EXCEPT ![h + 1] = e]
         /\ head' = h
         /\ tail' = r.tail
  /\ nonEmpty' = TRUE
  /\ UNCHANGED panicked

AddLast(e) ==
  /\ Length < MaxLen
  /\ LET r == AfterMaybeGrow
         c == Len(r.buffer)
     IN  /\ buffer' = [r.buffer EXCEPT ![r.tail + 1] = e]
         /\ head' = r.head
         /\ tail' = (r.tail + 1) % c
  /\ nonEmpty' = TRUE
  /\ UNCHANGED panicked

RemoveFirst ==
  /\ Length # 0
  /\ buffer' = [buffer EXCEPT ![head + 1] = Nil]
  /\ head' = (head + 1) % Cap
  /\ nonEmpty' = (head' # tail)
  /\ UNCHANGED <<tail, panicked>>

RemoveLast ==
  /\ Length # 0
  /\ LET last == (Cap + tail - 1) % Cap
     IN  /\ buffer' = [buffer EXCEPT ![last + 1] = Nil]
         /\ tail' = last
         /\ nonEmpty' = (last # head)
  /\ UNCHANGED <<head, panicked>>

\* Reserve(n) for n >= Length; it does nothing when the capacity suffices.  A
\* panic inside grow happens before grow assigns any field.
Reserve(n) ==
  /\ n >= Length
  /\ n > Cap
  /\ IF GrowPanics
     THEN panicked' = TRUE /\ UNCHANGED <<buffer, head, tail>>
     ELSE /\ buffer' = Grown(n)
          /\ head' = 0
          /\ tail' = Cap
          /\ UNCHANGED panicked
  /\ UNCHANGED nonEmpty

\* Mutant: Reset forgets nonEmpty, so that head = tail reads as full.
ResetKeepsNonEmpty ==
  /\ head' = 0
  /\ tail' = 0
  /\ UNCHANGED <<buffer, nonEmpty, panicked>>

Reset ==
  /\ head' = 0
  /\ tail' = 0
  /\ nonEmpty' = FALSE
  /\ UNCHANGED <<buffer, panicked>>

\* Everything but Reserve.
DequeNext ==
  \/ \E e \in Element : AddFirst(e) \/ AddLast(e)
  \/ RemoveFirst
  \/ RemoveLast
  \/ Reset

Next == DequeNext \/ \E n \in 0 .. MaxReserve : Reserve(n)

Spec == Init /\ [][Next]_vars

\* The clients in the repository: ring_buffer_test.go lets Reserve grow a ring only while
\* every slot is in use (or there are none), and ast/window_funcs_util.go never.
ReserveWhenFull == Length = Cap /\ \E n \in 0 .. MaxReserve : Reserve(n)

ClientNext == DequeNext \/ ReserveWhenFull

ClientSpec == Init /\ [][ClientNext]_vars

-----------------------------------------------------------------------------
\* The elements from front to back, read with Get.
Contents == [i \in 1 .. Length |-> Get(i - 1)]

DequeView == INSTANCE Deque WITH deque <- Contents

\* The fields are in range: the indices point into the slice (both are 0 while
\* there is no slice) and the slots hold elements or Nil.
TypeOK ==
  /\ buffer \in Seq(Element \cup {Nil})
  /\ head \in 0 .. (IF Cap = 0 THEN 0 ELSE Cap - 1)
  /\ tail \in 0 .. (IF Cap = 0 THEN 0 ELSE Cap - 1)
  /\ nonEmpty \in BOOLEAN
  /\ panicked \in BOOLEAN

\* Every operation on the ring (wrapping, doubling, RemoveLast's index
\* arithmetic) is the same operation on the deque, and growing is invisible.
ImplementsDeque == DequeView!Spec
=============================================================================
