---------------------------- MODULE EvictionQueue ----------------------------
(***************************************************************************)
(* What the caches of utils/cache promise: a queue of entries with one     *)
(* entry for each key, from which entries are evicted at the end, oldest   *)
(* or least recently used first, and each that leaves is reported.         *)
(***************************************************************************)
EXTENDS Integers, Sequences

CONSTANTS Entry, KeyOf, Value, Expired, MaxSize

VARIABLES queue,   \* the entries, the one to be evicted next is the last
          value,   \* the value of each entry in the queue
          policy,  \* the eviction policy
          purged   \* the entries that left in the last step, in order

Init == queue = <<>> /\ purged = <<>> /\ policy \in {"LRU", "FIFO", "None"}
        /\ value = [e \in {} |-> 0]

\* Named as in SequencesExt, which every step of a proof about the queue would carry.
ToSet(q) == {q[i] : i \in DOMAIN q}
RemoveAt(q, i) == SubSeq(q, 1, i - 1) \o SubSeq(q, i + 1, Len(q))
InsertAt(q, i, e) == SubSeq(q, 1, i - 1) \o <<e>> \o SubSeq(q, i, Len(q))
Reverse(q) == [j \in 1..Len(q) |-> q[(Len(q) - j) + 1]]

Move(q, i) == <<q[i]>> \o RemoveAt(q, i)
Access(i) == IF policy = "LRU" THEN Move(queue, i) ELSE queue

\* The longest prefix whose last entry may stay, and the entries behind it.
MayLeave(n, v) == n > MaxSize \/ v \in Expired
Kept(q, val) ==
  IF policy = "None" THEN q
  ELSE SubSeq(q, 1, CHOOSE n \in 0..Len(q) :
                      /\ n = 0 \/ ~MayLeave(n, val[q[n]])
                      /\ \A m \in n+1..Len(q) : MayLeave(m, val[q[m]]))
Becomes(q, val, out) ==
  /\ queue' = q /\ purged' = out /\ UNCHANGED policy
  /\ value' = [e \in ToSet(q) |-> val[e]]

Put(q, e, v) ==
  LET val == [x \in ToSet(q) |-> IF x = e THEN v ELSE value[x]]
      out == SubSeq(q, Len(Kept(q, val)) + 1, Len(q))
  IN Becomes(Kept(q, val), val, Reverse(out))

Add(e, v) ==
  \/ \E i \in DOMAIN queue : KeyOf[queue[i]] = KeyOf[e]
                             /\ Becomes(Access(i), [value EXCEPT ![queue[i]] = v], <<>>)
  \/ /\ \A x \in ToSet(queue) : KeyOf[x] # KeyOf[e]
     /\ \/ Put(<<e>> \o queue, e, v)
        \/ \E i \in DOMAIN queue : Put(InsertAt(queue, i, e), e, v)
Use(i) == \E q \in {Access(i), Move(queue, i)} : Becomes(q, value, <<>>)
Del(i) == Becomes(RemoveAt(queue, i), value, <<queue[i]>>)
Clear == Becomes(<<>>, value, Reverse(queue))

\* Using all entries with a key from..to: they come first, the one with the highest
\* key before the others, and the rest stays in the order it was.
Ahead(q, x, y) == \E i, j \in DOMAIN q : i < j /\ q[i] = x /\ q[j] = y
UsedFirst(q, used) ==
  /\ Len(q) = Len(queue) /\ ToSet(q) = ToSet(queue)
  /\ \A x, y \in ToSet(queue) :
       Ahead(q, x, y) <=> \/ x \in used /\ y \in used /\ KeyOf[x] > KeyOf[y]
                          \/ x \in used /\ y \notin used
                          \/ x \notin used /\ y \notin used /\ Ahead(queue, x, y)
UseAll(from, to) ==
  /\ IF policy = "LRU" THEN UsedFirst(queue', {x \in ToSet(queue) : KeyOf[x] \in from..to})
     ELSE queue' = queue
  /\ UNCHANGED <<value, policy>> /\ purged' = <<>>

Next == \/ \E e \in Entry, v \in Value : Add(e, v)
        \/ \E i \in DOMAIN queue : Use(i) \/ Del(i)
        \/ Clear
        \/ \E from, to \in {KeyOf[e] : e \in Entry} : UseAll(from, to)
Spec == Init /\ [][Next]_<<queue, value, policy, purged>>
=============================================================================
