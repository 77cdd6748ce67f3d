----------------------------- MODULE CacheProofs -----------------------------
(***************************************************************************)
(* A cache evicts in the order EvictionQueue promises, for any entries,    *)
(* keys and values and any size: the pointers lead through the entries of  *)
(* a sequence in both directions, the store holds the same entries, and    *)
(* every operation does to the sequence what the promise says.             *)
(***************************************************************************)
EXTENDS Cache, FiniteSetTheorems, TLAPS

-----------------------------------------------------------------------------
(* Induction *)

\* A set of numbers that is not empty has a least one.
LEMMA LeastNumber ==
  ASSUME NEW T \in SUBSET Nat, T # {}
  PROVE  \E n \in T : \A m \in 0 .. n - 1 : m \notin T
<1> DEFINE R == OpToRel(<, Nat)
<1>1. IsWellFoundedOn(R, Nat)
  BY NatLessThanWellFounded, Zenon
<1>2. \A x, y \in Nat : x < y => <<x, y>> \in R
  BY Zenon DEF OpToRel
<1> HIDE DEF R
<1>3. PICK n \in T : \A m \in T : ~ (<<m, n>> \in R)
  BY <1>1, WFMin, ZenonT(60)
<1>4. ASSUME NEW m \in 0 .. n - 1, m \in T PROVE FALSE
  <2>1. m \in Nat /\ n \in Nat /\ m < n
    OBVIOUS
  <2> QED
    BY <2>1, <1>2, <1>3, <1>4, Zenon
<1> QED
  BY <1>4, Zenon

\* What holds of zero and of the next number after each holds of all.
LEMMA NumbersInduction ==
  ASSUME NEW G, 0 \in G, \A n \in Nat : n \in G => n + 1 \in G
  PROVE  Nat \subseteq G
<1> DEFINE T == Nat \ G
<1> SUFFICES ASSUME T # {} PROVE FALSE
  BY Zenon
<1>1. T \in SUBSET Nat /\ \A n \in Nat : n \in T <=> n \notin G
  BY Zenon
<1> HIDE DEF T
<1>2. PICK n \in T : \A m \in 0 .. n - 1 : m \notin T
  BY <1>1, LeastNumber, Zenon
<1>3. n \in Nat /\ n # 0 /\ n - 1 \in 0 .. n - 1 /\ n - 1 \in Nat /\ (n - 1) + 1 = n
  BY <1>1, <1>2
<1>4. n - 1 \in G
  BY <1>1, <1>2, <1>3, Zenon
<1> QED
  BY <1>1, <1>3, <1>4, Zenon

-----------------------------------------------------------------------------
(* The list *)

\* Entry i of q, with the root before the first and after the last.
At(q, i) == IF i \in 1 .. Len(q) THEN q[i] ELSE ListRoot

IsOrder(q) == q \in Seq(CacheEntry) /\ \A i, j \in 1 .. Len(q) : q[i] = q[j] => i = j

IsList(l) == l \in [Nodes -> [next : Nodes \cup {NilEntry}, prev : Nodes \cup {NilEntry}]]

\* The pointers lead through q from the root and back to it, in both directions.
Listed(l, q) ==
  /\ IsList(l) /\ IsOrder(q)
  /\ \A i \in 0 .. Len(q) : l[At(q, i)].next = At(q, i + 1) /\ l[At(q, i + 1)].prev = At(q, i)

\* q with e in place i, and without the entry there.
Inserted(q, i, e) == [j \in 1 .. Len(q) + 1 |-> IF j < i THEN q[j] ELSE IF j = i THEN e ELSE q[j - 1]]
Removed(q, i) == [j \in 1 .. Len(q) - 1 |-> IF j < i THEN q[j] ELSE q[j + 1]]
Moved(q, i) == [j \in 1 .. Len(q) |-> IF j = 1 THEN q[i] ELSE IF j <= i THEN q[j - 1] ELSE q[j]]
Prefix(q, m) == [j \in 1 .. m |-> q[j]]

LEMMA NodeFacts ==
  /\ ListRoot \in Nodes /\ CacheEntry \subseteq Nodes /\ ListRoot \notin CacheEntry
  /\ NilEntry \notin Nodes
BY CacheAssumption DEF Nodes, ListRoot, NilEntry

LEMMA OrderFacts ==
  ASSUME NEW q, IsOrder(q)
  PROVE  /\ Len(q) \in Nat /\ q \in [1 .. Len(q) -> CacheEntry] /\ DOMAIN q = 1 .. Len(q)
         /\ At(q, 0) = ListRoot /\ At(q, Len(q) + 1) = ListRoot
         /\ \A i \in 1 .. Len(q) : At(q, i) = q[i] /\ q[i] \in CacheEntry /\ q[i] # ListRoot
         /\ \A i \in 0 .. Len(q) + 1 : At(q, i) \in Nodes
<1>1. q \in Seq(CacheEntry)
  BY Zenon DEF IsOrder
<1>2. Len(q) \in Nat /\ q \in [1 .. Len(q) -> CacheEntry] /\ DOMAIN q = 1 .. Len(q)
  BY <1>1
<1> QED
  BY <1>2, NodeFacts DEF At

\* No node comes twice on the way round.
LEMMA Distinct ==
  ASSUME NEW q, IsOrder(q)
  PROVE  /\ \A i, j \in 0 .. Len(q) : At(q, i) = At(q, j) => i = j
         /\ \A i, j \in 1 .. Len(q) + 1 : At(q, i) = At(q, j) => i = j
<1>1. \A i, j \in 1 .. Len(q) : q[i] = q[j] => i = j
  BY Zenon DEF IsOrder
<1> QED
  BY <1>1, OrderFacts

\* Functions on 1..n with different values are orders.
LEMMA OrderFrom ==
  ASSUME NEW n \in Nat, NEW q \in [1 .. n -> CacheEntry], \A i, j \in 1 .. n : q[i] = q[j] => i = j
  PROVE  IsOrder(q) /\ Len(q) = n
<1>1. q \in Seq(CacheEntry) /\ Len(q) = n
  OBVIOUS
<1> QED
  BY <1>1, Zenon DEF IsOrder

HasInserted(r, q, i, e) ==
  /\ IsOrder(r) /\ Len(r) = Len(q) + 1
  /\ \A j \in 0 .. Len(q) + 2 : At(r, j) = IF j < i THEN At(q, j) ELSE IF j = i THEN e ELSE At(q, j - 1)
HasRemoved(r, q, i) ==
  /\ IsOrder(r) /\ Len(r) = Len(q) - 1
  /\ \A j \in 0 .. Len(q) : At(r, j) = IF j < i THEN At(q, j) ELSE At(q, j + 1)

LEMMA InsertedOrder ==
  ASSUME NEW q, IsOrder(q), NEW i \in 1 .. Len(q) + 1, NEW e \in CacheEntry, \A j \in 1 .. Len(q) : q[j] # e
  PROVE  HasInserted(Inserted(q, i, e), q, i, e)
<1> DEFINE r == Inserted(q, i, e)
           n == Len(q)
<1>1. n \in Nat /\ \A j \in 1 .. n : q[j] \in CacheEntry
  BY OrderFacts, Zenon
<1>2. \A j, k \in 1 .. n : q[j] = q[k] => j = k
  BY Zenon DEF IsOrder
<1>3. \A j \in 1 .. n + 1 : r[j] = IF j < i THEN q[j] ELSE IF j = i THEN e ELSE q[j - 1]
  BY Zenon DEF Inserted
<1>4. r \in [1 .. n + 1 -> CacheEntry]
  BY <1>1 DEF Inserted
<1> HIDE DEF r, n
<1>5. \A j, k \in 1 .. n + 1 : r[j] = r[k] => j = k
  BY <1>1, <1>2, <1>3 DEF n
<1>6. IsOrder(r) /\ Len(r) = n + 1
  BY <1>1, <1>4, <1>5, OrderFrom
<1>7. \A j \in 0 .. n + 2 : At(r, j) = IF j < i THEN At(q, j) ELSE IF j = i THEN e ELSE At(q, j - 1)
  BY <1>1, <1>3, <1>6 DEF At, n
<1>8. HasInserted(r, q, i, e)
  BY <1>6, <1>7, Zenon DEF HasInserted, n
<1> QED
  BY <1>8, Zenon DEF r

LEMMA RemovedOrder ==
  ASSUME NEW q, IsOrder(q), NEW i \in 1 .. Len(q)
  PROVE  HasRemoved(Removed(q, i), q, i)
<1> DEFINE r == Removed(q, i)
           n == Len(q)
<1>1. n \in Nat /\ n - 1 \in Nat /\ \A j \in 1 .. n : q[j] \in CacheEntry
  BY OrderFacts
<1>2. \A j, k \in 1 .. n : q[j] = q[k] => j = k
  BY Zenon DEF IsOrder
<1>3. \A j \in 1 .. n - 1 : r[j] = IF j < i THEN q[j] ELSE q[j + 1]
  BY Zenon DEF Removed
<1>4. r \in [1 .. n - 1 -> CacheEntry]
  BY <1>1 DEF Removed
<1> HIDE DEF r, n
<1>5. ASSUME NEW j \in 1 .. n - 1, NEW k \in 1 .. n - 1, r[j] = r[k]
      PROVE  j = k
  <2> DEFINE from(x) == IF x < i THEN x ELSE x + 1
  <2>1. from(j) \in 1 .. n /\ from(k) \in 1 .. n /\ (from(j) = from(k) => j = k)
    BY <1>1 DEF n
  <2>2. r[j] = q[from(j)] /\ r[k] = q[from(k)]
    BY <1>3
  <2> HIDE DEF from
  <2> QED BY <1>2, <1>5, <2>1, <2>2, Zenon
<1>6. IsOrder(r) /\ Len(r) = n - 1
  BY <1>1, <1>4, <1>5, OrderFrom, Zenon
<1>7. \A j \in 0 .. n : At(r, j) = IF j < i THEN At(q, j) ELSE At(q, j + 1)
  BY <1>1, <1>3, <1>6 DEF At, n
<1>8. HasRemoved(r, q, i)
  BY <1>6, <1>7, Zenon DEF HasRemoved, n
<1> QED
  BY <1>8, Zenon DEF r

\* insertAfter: e gets between the nodes at i - 1 and i.
LEMMA Inserting ==
  ASSUME NEW l, NEW q, Listed(l, q), NEW i \in 1 .. Len(q) + 1, NEW e \in CacheEntry,
         \A j \in 1 .. Len(q) : q[j] # e
  PROVE  Listed(InsertAfter(l, e, At(q, i - 1)), Inserted(q, i, e))
<1> DEFINE r == Inserted(q, i, e)
           n == Len(q)
           at == At(q, i - 1)
           nx == At(q, i)
           k == InsertAfter(l, e, at)
<1>1. /\ IsOrder(q) /\ n \in Nat /\ at \in Nodes /\ nx \in Nodes
      /\ \A j \in 0 .. n + 1 : At(q, j) \in Nodes /\ At(q, j) # e
  <2>1. IsOrder(q)
    BY Zenon DEF Listed
  <2>2. e # ListRoot
    BY NodeFacts, Zenon
  <2> QED
    BY <2>1, <2>2, OrderFacts DEF At
<1>2. /\ \A j \in 0 .. n : At(q, j) = at => j = i - 1
      /\ \A j \in 1 .. n + 1 : At(q, j) = nx => j = i
  BY <1>1, Distinct
<1>3. \A j \in 0 .. n : l[At(q, j)].next = At(q, j + 1) /\ l[At(q, j + 1)].prev = At(q, j)
  BY Zenon DEF Listed
<1>4. IsList(l) /\ e \in Nodes
  BY NodeFacts, Zenon DEF Listed
<1>5. l[at].next = nx
  BY <1>1, <1>3
<1>6. HasInserted(r, q, i, e)
  BY <1>1, InsertedOrder, Zenon
<1>7. at # e /\ nx # e
  BY <1>1
<1> HIDE DEF r, n, at, nx
<1>8. /\ IsList(k)
      /\ \A x \in Nodes : /\ k[x].next = IF x = e THEN nx ELSE IF x = at THEN e ELSE l[x].next
                          /\ k[x].prev = IF x = e THEN at ELSE IF x = nx THEN e ELSE l[x].prev
  <2>1. k = InsertBetween(l, e, at, nx)
    BY <1>5, Zenon DEF InsertAfter
  <2> DEFINE k1 == [l EXCEPT ![at].next = e]
             k2 == [k1 EXCEPT ![e] = [next |-> nx, prev |-> at]]
  <2>2. IsList(k1) /\ \A x \in Nodes : /\ k1[x].next = IF x = at THEN e ELSE l[x].next
                                      /\ k1[x].prev = l[x].prev
    BY <1>1, <1>4, Zenon DEF IsList
  <2> HIDE DEF k1
  <2>3. IsList(k2) /\ \A x \in Nodes : k2[x] = IF x = e THEN [next |-> nx, prev |-> at] ELSE k1[x]
    BY <1>1, <1>4, <2>2, Zenon DEF IsList
  <2>4. k = [k2 EXCEPT ![nx].prev = e]
    BY <2>1, Zenon DEF InsertBetween, k1
  <2> HIDE DEF k, k2
  <2>5. IsList(k) /\ \A x \in Nodes : /\ k[x].prev = IF x = nx THEN e ELSE k2[x].prev
                                     /\ k[x].next = k2[x].next
    BY <1>1, <1>4, <2>3, <2>4 DEF IsList
  <2> QED
    BY <2>2, <2>3, <2>5, <1>7
<1> HIDE DEF k
<1>9. /\ IsOrder(r) /\ Len(r) = n + 1
      /\ \A j \in 0 .. n + 2 : At(r, j) = IF j < i THEN At(q, j) ELSE IF j = i THEN e ELSE At(q, j - 1)
  BY <1>6, Zenon DEF HasInserted, n
<1>10. ASSUME NEW j \in 0 .. n + 1 PROVE k[At(r, j)].next = At(r, j + 1) /\ k[At(r, j + 1)].prev = At(r, j)
  <2>1. CASE j < i - 1
    <3>1. At(r, j) = At(q, j) /\ At(r, j + 1) = At(q, j + 1) /\ j \in 0 .. n
      BY <1>1, <1>9, <2>1 DEF n
    <3>2. At(q, j) # at /\ At(q, j + 1) # nx
      BY <1>1, <1>2, <2>1, <3>1
    <3> QED
      BY <1>1, <1>3, <1>8, <3>1, <3>2
  <2>2. CASE j = i - 1
    <3>1. At(r, j) = at /\ At(r, j + 1) = e
      BY <1>1, <1>9, <2>2 DEF n, at
    <3> QED
      BY <1>1, <1>4, <1>7, <1>8, <3>1, Zenon
  <2>3. CASE j = i
    <3>1. At(r, j) = e /\ At(r, j + 1) = nx
      BY <1>1, <1>9, <2>3 DEF n, nx
    <3> QED
      BY <1>1, <1>4, <1>7, <1>8, <3>1, Zenon
  <2>4. CASE j > i
    <3>1. At(r, j) = At(q, j - 1) /\ At(r, j + 1) = At(q, j) /\ j - 1 \in 0 .. n
      <4>1. /\ j \in 0 .. n + 2 /\ ~(j < i) /\ j # i /\ j - 1 \in 0 .. n
            /\ j + 1 \in 0 .. n + 2 /\ ~(j + 1 < i) /\ j + 1 # i /\ (j + 1) - 1 = j
        BY <1>1, <2>4 DEF n
      <4> QED
        BY <4>1, <1>9, Zenon
    <3>2. At(q, j - 1) # at /\ At(q, j) # nx
      BY <1>1, <1>2, <2>4, <3>1
    <3>3. l[At(q, j - 1)].next = At(q, j) /\ l[At(q, j)].prev = At(q, j - 1)
      <4>1. (j - 1) + 1 = j
        OBVIOUS
      <4> QED
        BY <1>3, <3>1, <4>1, Zenon
    <3> QED
      BY <1>1, <1>8, <3>1, <3>2, <3>3
  <2> QED
    BY <2>1, <2>2, <2>3, <2>4
<1> QED
  BY <1>8, <1>9, <1>10, Zenon DEF Listed, k, at, r

\* remove: the neighbours of the entry at i lead to each other.
LEMMA Removing ==
  ASSUME NEW l, NEW q, Listed(l, q), NEW i \in 1 .. Len(q)
  PROVE  /\ Listed(RemoveFromList(l, q[i]), Removed(q, i))
         /\ RemoveFromList(l, q[i])[q[i]] = Unlinked
<1> DEFINE r == Removed(q, i)
           n == Len(q)
           e == q[i]
           pr == At(q, i - 1)
           nx == At(q, i + 1)
           k == RemoveFromList(l, e)
<1>1. /\ IsOrder(q) /\ n \in Nat /\ pr \in Nodes /\ nx \in Nodes /\ e \in Nodes /\ e = At(q, i)
      /\ \A j \in 0 .. n + 1 : At(q, j) \in Nodes
  <2>1. IsOrder(q)
    BY Zenon DEF Listed
  <2> QED
    BY <2>1, NodeFacts, OrderFacts
<1>2. /\ \A j \in 0 .. n : (At(q, j) = pr => j = i - 1) /\ (At(q, j) = e => j = i)
      /\ \A j \in 1 .. n + 1 : (At(q, j) = nx => j = i + 1) /\ (At(q, j) = e => j = i)
  BY <1>1, Distinct
<1>3. \A j \in 0 .. n : l[At(q, j)].next = At(q, j + 1) /\ l[At(q, j + 1)].prev = At(q, j)
  BY Zenon DEF Listed
<1>4. IsList(l)
  BY Zenon DEF Listed
<1>5. l[e].next = nx /\ l[e].prev = pr
  <2>1. i \in 0 .. n /\ i - 1 \in 0 .. n /\ (i - 1) + 1 = i
    BY <1>1
  <2> QED
    BY <1>1, <1>3, <2>1, Zenon
<1>6. HasRemoved(r, q, i)
  BY <1>1, RemovedOrder, Zenon
<1>7. pr # e /\ nx # e /\ nx # NilEntry
  BY <1>1, <1>2, NodeFacts
<1> HIDE DEF r, n, e, pr, nx
<1>8. /\ IsList(k) /\ k[e] = Unlinked
      /\ \A x \in Nodes \ {e} : /\ k[x].next = IF x = pr THEN nx ELSE l[x].next
                                /\ k[x].prev = IF x = nx THEN pr ELSE l[x].prev
  <2>1. k = Unlink(l, e, pr, nx)
    BY <1>5, <1>7, Zenon DEF RemoveFromList
  <2> DEFINE k1 == [l EXCEPT ![pr].next = nx]
             k2 == [k1 EXCEPT ![nx].prev = pr]
  <2>2. IsList(k1) /\ \A x \in Nodes : /\ k1[x].next = IF x = pr THEN nx ELSE l[x].next
                                      /\ k1[x].prev = l[x].prev
    BY <1>1, <1>4, Zenon DEF IsList
  <2> HIDE DEF k1
  <2>3. IsList(k2) /\ \A x \in Nodes : /\ k2[x].prev = IF x = nx THEN pr ELSE k1[x].prev
                                      /\ k2[x].next = k1[x].next
    BY <1>1, <1>4, <2>2 DEF IsList
  <2>4. k = [k2 EXCEPT ![e] = Unlinked]
    BY <2>1, Zenon DEF Unlink, k1
  <2> HIDE DEF k, k2
  <2>5. Unlinked \in [next : Nodes \cup {NilEntry}, prev : Nodes \cup {NilEntry}]
    BY Zenon DEF Unlinked
  <2>6. IsList(k) /\ \A x \in Nodes : k[x] = IF x = e THEN Unlinked ELSE k2[x]
    BY <1>1, <2>3, <2>4, <2>5, Zenon DEF IsList
  <2> QED
    BY <2>2, <2>3, <2>6, <1>1, Zenon
<1> HIDE DEF k
<1>9. /\ IsOrder(r) /\ Len(r) = n - 1
      /\ \A j \in 0 .. n : At(r, j) = IF j < i THEN At(q, j) ELSE At(q, j + 1)
  BY <1>6, Zenon DEF HasRemoved, n
<1>10. ASSUME NEW j \in 0 .. n - 1 PROVE k[At(r, j)].next = At(r, j + 1) /\ k[At(r, j + 1)].prev = At(r, j)
  <2>1. CASE j < i - 1
    <3>1. At(r, j) = At(q, j) /\ At(r, j + 1) = At(q, j + 1) /\ j \in 0 .. n /\ j + 1 \in 1 .. n + 1
      BY <1>1, <1>9, <2>1 DEF n
    <3>2. At(q, j) # pr /\ At(q, j + 1) # nx /\ At(q, j) # e /\ At(q, j + 1) # e
      BY <1>1, <1>2, <2>1, <3>1
    <3>3. At(q, j) \in Nodes \ {e} /\ At(q, j + 1) \in Nodes \ {e}
      BY <1>1, <3>1, <3>2
    <3> QED
      BY <1>3, <1>8, <3>1, <3>2, <3>3, Zenon
  <2>2. CASE j = i - 1
    <3>1. At(r, j) = pr /\ At(r, j + 1) = nx
      <4>1. j \in 0 .. n /\ j < i /\ j + 1 \in 0 .. n /\ ~(j + 1 < i) /\ (j + 1) + 1 = i + 1
        BY <1>1, <2>2 DEF n
      <4> QED
        BY <1>9, <2>2, <4>1, Zenon DEF pr, nx
    <3> QED
      BY <1>1, <1>7, <1>8, <3>1, Zenon
  <2>3. CASE j >= i
    <3>1. /\ At(r, j) = At(q, j + 1) /\ At(r, j + 1) = At(q, (j + 1) + 1)
          /\ j + 1 \in 0 .. n /\ (j + 1) + 1 \in 1 .. n + 1 /\ j + 1 \in 1 .. n + 1
      <4>1. /\ j \in 0 .. n /\ ~(j < i) /\ j + 1 \in 0 .. n /\ ~(j + 1 < i)
            /\ j + 1 \in 0 .. n /\ (j + 1) + 1 \in 1 .. n + 1 /\ j + 1 \in 1 .. n + 1
        BY <1>1, <2>3 DEF n
      <4> QED
        BY <1>9, <4>1, Zenon
    <3>2. /\ At(q, j + 1) # pr /\ At(q, (j + 1) + 1) # nx
          /\ At(q, j + 1) # e /\ At(q, (j + 1) + 1) # e
      BY <1>1, <1>2, <2>3, <3>1
    <3>3. At(q, j + 1) \in Nodes \ {e} /\ At(q, (j + 1) + 1) \in Nodes \ {e}
      BY <1>1, <3>1, <3>2
    <3> QED
      BY <1>3, <1>8, <3>1, <3>2, <3>3, Zenon
  <2> QED
    BY <2>1, <2>2, <2>3
<1> QED
  BY <1>8, <1>9, <1>10, Zenon DEF Listed, k, e, r

LEMMA MovedOrder ==
  ASSUME NEW q, IsOrder(q), NEW i \in 1 .. Len(q)
  PROVE  /\ i = 1 => Moved(q, i) = q
         /\ Moved(q, i) = Inserted(Removed(q, i), 1, q[i])
         /\ \A j \in 1 .. Len(Removed(q, i)) : Removed(q, i)[j] # q[i]
<1> DEFINE r == Removed(q, i)
           n == Len(q)
<1>1. n \in Nat /\ q \in [1 .. n -> CacheEntry] /\ \A j, k \in 1 .. n : q[j] = q[k] => j = k
  BY OrderFacts, Zenon DEF IsOrder
<1>2. Len(r) = n - 1 /\ \A j \in 1 .. n - 1 : r[j] = IF j < i THEN q[j] ELSE q[j + 1]
  <2>1. HasRemoved(r, q, i)
    BY RemovedOrder, Zenon
  <2> QED
    BY <2>1, Zenon DEF HasRemoved, Removed
<1>3. ASSUME i = 1 PROVE Moved(q, i) = q
  BY <1>1, <1>3 DEF Moved
<1>4. ASSUME NEW j \in 1 .. Len(r) PROVE r[j] # q[i]
  BY <1>1, <1>2, <1>4
<1> HIDE DEF r
<1>5. Moved(q, i) = Inserted(r, 1, q[i])
  <2>1. Len(r) + 1 = Len(q)
    BY <1>1, <1>2
  <2>2. ASSUME NEW j \in 1 .. Len(q)
        PROVE  (IF j = 1 THEN q[i] ELSE IF j <= i THEN q[j - 1] ELSE q[j])
               = IF j < 1 THEN r[j] ELSE IF j = 1 THEN q[i] ELSE r[j - 1]
    BY <1>1, <1>2
  <2> QED
    BY <2>1, <2>2, Zenon DEF Moved, Inserted
<1> QED
  BY <1>3, <1>4, <1>5, Zenon DEF r

\* moveToFront
LEMMA Moving ==
  ASSUME NEW l, NEW q, Listed(l, q), NEW i \in 1 .. Len(q)
  PROVE  Listed(MoveToFront(l, q[i]), Moved(q, i))
<1> DEFINE r == Removed(q, i)
           e == q[i]
           k == RemoveFromList(l, e)
<1>1. IsOrder(q) /\ Len(q) \in Nat /\ e \in CacheEntry /\ l[ListRoot].next = q[1]
  <2>1. IsOrder(q)
    BY Zenon DEF Listed
  <2>2. /\ Len(q) \in Nat /\ e \in CacheEntry /\ At(q, 0) = ListRoot /\ At(q, 1) = q[1]
    BY <2>1, OrderFacts
  <2>3. l[At(q, 0)].next = At(q, 0 + 1)
    BY <2>2 DEF Listed
  <2> QED
    BY <2>1, <2>2, <2>3
<1>2. CASE i = 1
  BY <1>1, <1>2, MovedOrder, Zenon DEF MoveToFront
<1>3. CASE i # 1
  <2>1. q[1] # e
    BY <1>1, <1>3 DEF IsOrder
  <2>2. MoveToFront(l, e) = InsertAfter(k, e, ListRoot)
    BY <1>1, <2>1, Zenon DEF MoveToFront, PushFront
  <2>3. Listed(k, r)
    BY Removing, Zenon
  <2>4. IsOrder(r) /\ Len(r) \in Nat /\ At(r, 0) = ListRoot
    BY <2>3, OrderFacts, Zenon DEF Listed
  <2>5. Moved(q, i) = Inserted(r, 1, e) /\ \A j \in 1 .. Len(r) : r[j] # e
    BY <1>1, MovedOrder, Zenon
  <2> HIDE DEF r, e, k
  <2>6. 1 \in 1 .. Len(r) + 1 /\ 1 - 1 = 0
    BY <2>4
  <2>7. Listed(InsertAfter(k, e, At(r, 1 - 1)), Inserted(r, 1, e))
    BY <1>1, <2>3, <2>5, <2>6, Inserting, Zenon
  <2> QED
    BY <2>2, <2>4, <2>5, <2>6, <2>7, Zenon DEF e
<1> QED
  BY <1>2, <1>3, Zenon

-----------------------------------------------------------------------------
(* The way round the list *)

LEMMA CountTo ==
  ASSUME NEW n \in Nat
  PROVE  IsFiniteSet(1 .. n) /\ Cardinality(1 .. n) = n
<1>1. 1 \in Int /\ n \in Int
  OBVIOUS
<1>2. IsFiniteSet(1 .. n) /\ Cardinality(1 .. n) = IF 1 > n THEN 0 ELSE n - 1 + 1
  BY <1>1, FS_Interval, Zenon
<1> QED
  BY <1>2

\* An order is no longer than there are entries.
LEMMA OrderLength ==
  ASSUME NEW q, IsOrder(q)
  PROVE  Cardinality(CacheEntry) \in Nat /\ Len(q) <= Cardinality(CacheEntry)
<1>1. IsFiniteSet(CacheEntry)
  BY CacheAssumption, Zenon
<1>2. Len(q) \in Nat /\ q \in Injection(1 .. Len(q), CacheEntry)
  <2>1. Len(q) \in Nat /\ q \in [1 .. Len(q) -> CacheEntry]
    BY OrderFacts, Zenon
  <2>2. \A i, j \in 1 .. Len(q) : q[i] = q[j] => i = j
    BY Zenon DEF IsOrder
  <2> QED
    BY <2>1, <2>2, Zenon DEF Injection, IsInjective
<1>3. Cardinality(1 .. Len(q)) = Len(q)
  BY <1>2, CountTo, Zenon
<1>4. Cardinality(1 .. Len(q)) <= Cardinality(CacheEntry)
  BY <1>1, <1>2, FS_Injection, Zenon
<1>5. Cardinality(CacheEntry) \in Nat
  BY <1>1, FS_CardinalityType, Zenon
<1> QED
  BY <1>3, <1>4, <1>5, Zenon

\* f is where pointers p lead to in n steps.
StepsTo(f, p, n) == f = [i \in 0 .. n |-> IF i = 0 THEN ListRoot ELSE p[f[i - 1]]]

LEMMA StepsAt ==
  ASSUME NEW f, NEW p, NEW n \in Nat, StepsTo(f, p, n)
  PROVE  f[0] = ListRoot /\ \A i \in 1 .. n : f[i] = p[f[i - 1]]
BY DEF StepsTo

LEMMA StepsExist ==
  ASSUME NEW p, NEW n \in Nat
  PROVE  \E f : StepsTo(f, p, n)
<1> DEFINE G == {m \in Nat : \E f : StepsTo(f, p, m)}
<1>1. 0 \in G
  <2> DEFINE f == [i \in 0 .. 0 |-> ListRoot]
  <2>1. StepsTo(f, p, 0)
    BY DEF StepsTo
  <2> QED
    BY <2>1, Zenon
<1>2. ASSUME NEW m \in Nat, m \in G PROVE m + 1 \in G
  <2>1. PICK f : StepsTo(f, p, m)
    BY <1>2, Zenon
  <2> DEFINE g == [i \in 0 .. m + 1 |-> IF i = 0 THEN ListRoot ELSE p[f[i - 1]]]
  <2>2. ASSUME NEW i \in 0 .. m PROVE g[i] = f[i]
    BY <2>1, StepsAt
  <2>3. StepsTo(g, p, m + 1)
    <3>1. ASSUME NEW i \in 0 .. m + 1, i # 0 PROVE f[i - 1] = g[i - 1]
      BY <2>2, <3>1
    <3> QED
      BY <3>1, Zenon DEF StepsTo
  <2> QED
    BY <2>3
<1> HIDE DEF G
<1>3. Nat \subseteq G
  BY <1>1, <1>2, NumbersInduction, Zenon
<1> QED
  BY <1>3, Zenon DEF G

LEMMA StepsAre ==
  ASSUME NEW p
  PROVE  StepsTo(Steps(p), p, Cardinality(CacheEntry) + 1)
<1> DEFINE n == Cardinality(CacheEntry) + 1
<1>1. n \in Nat
  BY CacheAssumption, FS_CardinalityType
<1>2. \E f : StepsTo(f, p, n)
  BY <1>1, StepsExist, Zenon
<1>3. Steps(p) = CHOOSE f : StepsTo(f, p, n)
  BY Zenon DEF Steps, StepsTo
<1> HIDE DEF n
<1>4. StepsTo(Steps(p), p, n)
  BY <1>2, <1>3, Zenon
<1> QED
  BY <1>4, Zenon DEF n

\* Pointers that lead through q from the root and back to it make q the walk.
LEMMA WalkIs ==
  ASSUME NEW p, NEW q, IsOrder(q), \A i \in 0 .. Len(q) : p[At(q, i)] = At(q, i + 1)
  PROVE  Walk(p) = q
<1> DEFINE c == Cardinality(CacheEntry)
           f == Steps(p)
           n == Len(q)
           Back1(m) == f[m + 1] = ListRoot /\ \A k \in 1 .. m : f[k] # ListRoot
<1>1. c \in Nat /\ n \in Nat /\ n <= c
  BY OrderLength, OrderFacts, Zenon
<1>2. f[0] = ListRoot /\ \A i \in 1 .. c + 1 : f[i] = p[f[i - 1]]
  BY <1>1, StepsAre, StepsAt
<1>3. Walk(p) = [i \in 1 .. (CHOOSE m \in 0 .. c : Back1(m)) |-> f[i]]
  BY Zenon DEF Walk
<1> HIDE DEF c, f
<1>4. \A i \in 0 .. n + 1 : f[i] = At(q, i)
  <2> DEFINE G == {i \in Nat : i <= n + 1 => f[i] = At(q, i)}
  <2>1. 0 \in G
    BY <1>1, <1>2, OrderFacts, Zenon
  <2>2. ASSUME NEW i \in Nat, i \in G PROVE i + 1 \in G
    <3> SUFFICES ASSUME i + 1 <= n + 1 PROVE f[i + 1] = At(q, i + 1)
      OBVIOUS
    <3>1. f[i] = At(q, i) /\ i \in 0 .. n
      BY <2>2, <1>1
    <3>2. i + 1 \in 1 .. c + 1 /\ (i + 1) - 1 = i
      BY <1>1, <3>1
    <3>3. f[i + 1] = p[f[i]]
      BY <1>2, <3>2, Zenon
    <3> QED
      BY <3>1, <3>3, Zenon
  <2> HIDE DEF G
  <2>3. Nat \subseteq G
    BY <2>1, <2>2, NumbersInduction, Zenon
  <2> QED
    BY <2>3, <1>1 DEF G
<1>5. \A i \in 1 .. n : f[i] = q[i] /\ f[i] # ListRoot
  BY <1>1, <1>4, OrderFacts
<1>6. f[n + 1] = ListRoot
  BY <1>1, <1>4, OrderFacts
<1>7. n \in 0 .. c /\ Back1(n)
  BY <1>1, <1>5, <1>6
<1>8. ASSUME NEW m \in 0 .. c, Back1(m) PROVE m = n
  <2>1. CASE m < n
    <3>1. m + 1 \in 1 .. n
      BY <1>1, <2>1
    <3> QED
      BY <1>5, <1>8, <3>1, Zenon
  <2>2. CASE m > n
    <3>1. n + 1 \in 1 .. m
      BY <1>1, <2>2
    <3> QED
      BY <1>6, <1>8, <3>1, Zenon
  <2> QED
    BY <1>1, <2>1, <2>2
<1> HIDE DEF Back1
<1>9. (CHOOSE m \in 0 .. c : Back1(m)) = n
  BY <1>7, <1>8, Zenon
<1>10. Walk(p) = [i \in 1 .. n |-> q[i]]
  BY <1>3, <1>5, <1>9, Zenon
<1> QED
  BY <1>10, OrderFacts, Zenon

\* The next pointers lead through the order, and the prev pointers back.
LEMMA ForwardsIs ==
  ASSUME NEW l, NEW q, Listed(l, q)
  PROVE  Forwards(l) = q
<1> DEFINE p == [e \in Nodes |-> l[e].next]
<1>1. IsOrder(q) /\ \A i \in 0 .. Len(q) : l[At(q, i)].next = At(q, i + 1)
  BY Zenon DEF Listed
<1>2. ASSUME NEW i \in 0 .. Len(q) PROVE p[At(q, i)] = At(q, i + 1)
  <2>1. At(q, i) \in Nodes
    BY <1>1, OrderFacts
  <2> QED
    BY <1>1, <2>1, Zenon
<1> HIDE DEF p
<1>3. Walk(p) = q
  BY <1>1, <1>2, WalkIs, Zenon
<1> QED
  BY <1>3, Zenon DEF Forwards, p

Reversed(q) == [i \in 1 .. Len(q) |-> q[Len(q) - i + 1]]

LEMMA BackwardsIs ==
  ASSUME NEW l, NEW q, Listed(l, q)
  PROVE  Backwards(l) = Reversed(q)
<1> DEFINE p == [e \in Nodes |-> l[e].prev]
           r == Reversed(q)
           n == Len(q)
<1>1. IsOrder(q) /\ n \in Nat /\ \A i \in 0 .. n : l[At(q, i + 1)].prev = At(q, i)
  BY OrderFacts, Zenon DEF Listed
<1>2. \A i \in 1 .. n : q[i] \in CacheEntry /\ \A j \in 1 .. n : q[i] = q[j] => i = j
  BY <1>1, OrderFacts, Zenon DEF IsOrder
<1>3. r \in [1 .. n -> CacheEntry] /\ \A i \in 1 .. n : r[i] = q[n - i + 1]
  BY <1>1, <1>2 DEF Reversed
<1> HIDE DEF r
<1>4. ASSUME NEW i \in 1 .. n, NEW j \in 1 .. n, r[i] = r[j] PROVE i = j
  <2>1. q[n - i + 1] = q[n - j + 1] /\ n - i + 1 \in 1 .. n /\ n - j + 1 \in 1 .. n
    BY <1>1, <1>3, <1>4
  <2>2. n - i + 1 = n - j + 1
    BY <1>2, <2>1, Zenon
  <2> QED
    BY <1>1, <2>2
<1>5. IsOrder(r) /\ Len(r) = n
  BY <1>1, <1>3, <1>4, OrderFrom, Zenon
<1>6. ASSUME NEW i \in 0 .. n + 1 PROVE At(r, i) = At(q, n - i + 1)
  <2> DEFINE j == n - i + 1
  <2>1. i \in 1 .. n <=> j \in 1 .. n
    BY <1>1
  <2>2. i \in 1 .. n => r[i] = q[j]
    BY <1>3, Zenon
  <2> HIDE DEF j
  <2>3. At(r, i) = At(q, j)
    BY <1>5, <2>1, <2>2, Zenon DEF At
  <2> QED
    BY <2>3, Zenon DEF j
<1>7. ASSUME NEW i \in 0 .. n PROVE p[At(r, i)] = At(r, i + 1)
  <2> DEFINE j == n - i
  <2>1. /\ j \in 0 .. n /\ n - i + 1 = j + 1 /\ n - (i + 1) + 1 = j
        /\ i \in 0 .. n + 1 /\ i + 1 \in 0 .. n + 1 /\ j + 1 \in 0 .. n + 1
    BY <1>1
  <2> HIDE DEF j
  <2>2. At(r, i) = At(q, j + 1) /\ At(r, i + 1) = At(q, j)
    BY <1>6, <2>1, Zenon
  <2>3. At(q, j + 1) \in Nodes
    BY <1>1, <2>1, OrderFacts, Zenon
  <2> QED
    BY <1>1, <2>1, <2>2, <2>3, Zenon
<1> HIDE DEF p
<1>8. Walk(p) = r
  BY <1>5, <1>7, WalkIs, Zenon
<1> QED
  BY <1>8, Zenon DEF Backwards, p, r

-----------------------------------------------------------------------------
(* The store *)

Entries(q) == {q[i] : i \in DOMAIN q}

\* The store has an entry for the key of each entry of S, and no other.
Stored(h, S) == DOMAIN h = {CacheKey[x] : x \in S} /\ \A x \in S : h[CacheKey[x]] = x

LEMMA EntriesOf ==
  ASSUME NEW q, IsOrder(q)
  PROVE  /\ Entries(q) = {q[i] : i \in 1 .. Len(q)} /\ Entries(q) \subseteq CacheEntry
         /\ \A x : x \in Entries(q) <=> \E i \in 1 .. Len(q) : q[i] = x
BY OrderFacts, Zenon DEF Entries

LEMMA InsertedEntries ==
  ASSUME NEW q, IsOrder(q), NEW i \in 1 .. Len(q) + 1, NEW e \in CacheEntry, \A j \in 1 .. Len(q) : q[j] # e
  PROVE  Entries(Inserted(q, i, e)) = Entries(q) \cup {e}
<1> DEFINE r == Inserted(q, i, e)
           n == Len(q)
<1>1. n \in Nat
  BY OrderFacts, Zenon
<1>2. IsOrder(r) /\ Len(r) = n + 1
  BY InsertedOrder, Zenon DEF HasInserted
<1>3. \A j \in 1 .. n + 1 : r[j] = IF j < i THEN q[j] ELSE IF j = i THEN e ELSE q[j - 1]
  BY Zenon DEF Inserted
<1> HIDE DEF r
<1>4. ASSUME NEW x \in Entries(r) PROVE x \in Entries(q) \cup {e}
  <2>1. PICK j \in 1 .. n + 1 : r[j] = x
    BY <1>2, <1>4, EntriesOf, Zenon
  <2>2. j < i => j \in 1 .. n
    BY <1>1
  <2>3. j > i => j - 1 \in 1 .. n
    BY <1>1
  <2>4. x = e \/ \E k \in 1 .. n : q[k] = x
    BY <1>1, <1>3, <2>1, <2>2, <2>3
  <2> QED
    BY <2>4, EntriesOf, Zenon
<1>5. ASSUME NEW x \in Entries(q) \cup {e} PROVE x \in Entries(r)
  <2>1. CASE x = e
    <3>1. r[i] = e /\ i \in 1 .. n + 1
      BY <1>1, <1>3
    <3> QED
      BY <1>2, <2>1, <3>1, EntriesOf, Zenon
  <2>2. CASE x \in Entries(q)
    <3>1. PICK j \in 1 .. n : q[j] = x
      BY <2>2, EntriesOf, Zenon
    <3>2. j < i => r[j] = x /\ j \in 1 .. n + 1
      BY <1>1, <1>3, <3>1
    <3>3. ~(j < i) => r[j + 1] = x /\ j + 1 \in 1 .. n + 1
      BY <1>1, <1>3, <3>1
    <3> QED
      BY <1>2, <3>2, <3>3, EntriesOf, Zenon
  <2> QED
    BY <1>5, <2>1, <2>2, Zenon
<1> QED
  BY <1>4, <1>5, Zenon DEF r

LEMMA RemovedEntries ==
  ASSUME NEW q, IsOrder(q), NEW i \in 1 .. Len(q)
  PROVE  Entries(Removed(q, i)) = Entries(q) \ {q[i]}
<1> DEFINE r == Removed(q, i)
           n == Len(q)
<1>1. n \in Nat /\ \A j, k \in 1 .. n : q[j] = q[k] => j = k
  BY OrderFacts, Zenon DEF IsOrder
<1>2. IsOrder(r) /\ Len(r) = n - 1
  BY RemovedOrder, Zenon DEF HasRemoved
<1>3. \A j \in 1 .. n - 1 : r[j] = IF j < i THEN q[j] ELSE q[j + 1]
  BY Zenon DEF Removed
<1> HIDE DEF r
<1>4. ASSUME NEW x \in Entries(r) PROVE x \in Entries(q) \ {q[i]}
  <2>1. PICK j \in 1 .. n - 1 : r[j] = x
    BY <1>2, <1>4, EntriesOf, Zenon
  <2>2. j \in 1 .. n /\ j + 1 \in 1 .. n
    BY <1>1
  <2>3. x # q[i] /\ \E k \in 1 .. n : q[k] = x
    BY <1>1, <1>3, <2>1, <2>2
  <2> QED
    BY <2>3, EntriesOf, Zenon
<1>5. ASSUME NEW x \in Entries(q) \ {q[i]} PROVE x \in Entries(r)
  <2>1. PICK j \in 1 .. n : q[j] = x
    BY <1>5, EntriesOf, Zenon
  <2>2. j # i
    BY <1>5, <2>1, Zenon
  <2>3. j < i => r[j] = x /\ j \in 1 .. n - 1
    BY <1>1, <1>3, <2>1
  <2>4. j > i => r[j - 1] = x /\ j - 1 \in 1 .. n - 1
    BY <1>1, <1>3, <2>1
  <2> QED
    BY <1>2, <2>2, <2>3, <2>4, EntriesOf
<1> QED
  BY <1>4, <1>5, Zenon DEF r

LEMMA MovedEntries ==
  ASSUME NEW q, IsOrder(q), NEW i \in 1 .. Len(q)
  PROVE  /\ IsOrder(Moved(q, i)) /\ Len(Moved(q, i)) = Len(q)
         /\ Entries(Moved(q, i)) = Entries(q)
<1> DEFINE r == Removed(q, i)
<1>1. Len(q) \in Nat /\ q[i] \in CacheEntry
  BY OrderFacts, Zenon
<1>2. IsOrder(r) /\ Len(r) = Len(q) - 1
  BY RemovedOrder, Zenon DEF HasRemoved
<1>3. Entries(r) = Entries(q) \ {q[i]} /\ q[i] \in Entries(q)
  <2>1. q[i] \in Entries(q)
    BY EntriesOf, Zenon
  <2> QED
    BY <2>1, RemovedEntries, Zenon
<1>4. Moved(q, i) = Inserted(r, 1, q[i]) /\ \A j \in 1 .. Len(r) : r[j] # q[i]
  BY MovedOrder, Zenon
<1> HIDE DEF r
<1>5. 1 \in 1 .. Len(r) + 1 /\ Len(r) + 1 = Len(q)
  BY <1>1, <1>2
<1>6. HasInserted(Moved(q, i), r, 1, q[i])
  BY <1>1, <1>2, <1>4, <1>5, InsertedOrder, Zenon
<1>7. Entries(Moved(q, i)) = Entries(r) \cup {q[i]}
  <2>1. Entries(Inserted(r, 1, q[i])) = Entries(r) \cup {q[i]}
    BY <1>1, <1>2, <1>4, <1>5, InsertedEntries, Zenon
  <2> QED
    BY <1>4, <2>1, Zenon
<1> QED
  BY <1>3, <1>5, <1>6, <1>7, Zenon DEF HasInserted

LEMMA StoreLength ==
  ASSUME NEW h, NEW q, IsOrder(q), Stored(h, Entries(q))
  PROVE  Cardinality(DOMAIN h) = Len(q) /\ (DOMAIN h = {} <=> Len(q) = 0)
<1> DEFINE n == Len(q)
           b == [i \in 1 .. n |-> CacheKey[q[i]]]
<1>1. n \in Nat /\ \A i, j \in 1 .. n : q[i] = q[j] => i = j
  BY OrderFacts, Zenon DEF IsOrder
<1>2. \A x : x \in Entries(q) <=> \E i \in 1 .. n : q[i] = x
  BY EntriesOf, Zenon
<1>3. DOMAIN h = {CacheKey[x] : x \in Entries(q)} /\ \A x \in Entries(q) : h[CacheKey[x]] = x
  BY Zenon DEF Stored
<1>4. \A i \in 1 .. n : b[i] \in DOMAIN h /\ h[b[i]] = q[i]
  BY <1>2, <1>3, Zenon
<1>5. \A k \in DOMAIN h : \E i \in 1 .. n : b[i] = k
  BY <1>2, <1>3
<1>6. b \in [1 .. n -> DOMAIN h]
  BY <1>4, Zenon
<1> HIDE DEF b, n
<1>7. \A i, j \in 1 .. n : b[i] = b[j] => i = j
  BY <1>1, <1>4, Zenon
<1>8. b \in Bijection(1 .. n, DOMAIN h)
  <2>1. b \in Injection(1 .. n, DOMAIN h)
    BY <1>6, <1>7, Zenon DEF Injection, IsInjective
  <2>2. b \in Surjection(1 .. n, DOMAIN h)
    BY <1>5, <1>6, Zenon DEF Surjection
  <2> QED
    BY <2>1, <2>2, Zenon DEF Bijection
<1>9. IsFiniteSet(1 .. n) /\ Cardinality(1 .. n) = n
  BY <1>1, CountTo, Zenon
<1>10. Cardinality(DOMAIN h) = Cardinality(1 .. n)
  BY <1>8, <1>9, FS_Bijection, Zenon DEF ExistsBijection
<1>11. DOMAIN h = {} <=> n = 0
  <2>1. ASSUME n # 0 PROVE 1 \in 1 .. n
    BY <1>1, <2>1
  <2>2. ASSUME n = 0 PROVE 1 .. n = {}
    BY <2>2
  <2> QED
    BY <1>4, <1>5, <2>1, <2>2, ZenonT(60)
<1> QED
  BY <1>9, <1>10, <1>11, Zenon DEF n

LEMMA StoringEntry ==
  ASSUME NEW h, NEW S \in SUBSET CacheEntry, Stored(h, S), NEW e \in CacheEntry, CacheKey[e] \notin DOMAIN h
  PROVE  Stored(StoreAdd(h, e), S \cup {e})
BY DEF Stored, StoreAdd

LEMMA DeletingEntry ==
  ASSUME NEW h, NEW S \in SUBSET CacheEntry, Stored(h, S), NEW e \in S
  PROVE  Stored(StoreDel(h, e), S \ {e})
BY DEF Stored, StoreDel

-----------------------------------------------------------------------------
(* The invariant *)

Holds(c, q) == Listed(c.links, q) /\ Stored(c.hmap, Entries(q))

\* The list is sound, and holds the entries that the store has: removeElement and
\* add change both together, and Clear both at once.
CacheInv ==
  /\ Listed(links, order)
  /\ Stored(hmap, Entries(order))
  /\ val = [e \in Entries(order) |-> val[e]]

\* What the cache becomes.
Turns(c, vals, q) ==
  /\ order' = q /\ purged' = c.out /\ policy' = policy
  /\ val' = [e \in Entries(q) |-> vals[e]]

LEMMA InvFacts ==
  ASSUME CacheInv
  PROVE  /\ IsOrder(order) /\ Entries(order) \subseteq CacheEntry /\ DOMAIN val = Entries(order)
         /\ \A k \in DOMAIN hmap : \E i \in 1 .. Len(order) : hmap[k] = order[i] /\ CacheKey[order[i]] = k
         /\ \A i \in 1 .. Len(order) : CacheKey[order[i]] \in DOMAIN hmap /\ hmap[CacheKey[order[i]]] = order[i]
         /\ \A i, j \in 1 .. Len(order) : CacheKey[order[i]] = CacheKey[order[j]] => i = j
<1>1. IsOrder(order)
  BY Zenon DEF CacheInv, Listed
<1>2. /\ Entries(order) \subseteq CacheEntry
      /\ \A x : x \in Entries(order) <=> \E i \in 1 .. Len(order) : order[i] = x
  BY <1>1, EntriesOf, Zenon
<1>3. DOMAIN val = Entries(order)
  BY Zenon DEF CacheInv
<1>4. DOMAIN hmap = {CacheKey[x] : x \in Entries(order)} /\ \A x \in Entries(order) : hmap[CacheKey[x]] = x
  BY Zenon DEF CacheInv, Stored
<1>5. \A i \in 1 .. Len(order) : CacheKey[order[i]] \in DOMAIN hmap /\ hmap[CacheKey[order[i]]] = order[i]
  BY <1>2, <1>4, Zenon
<1>6. \A i, j \in 1 .. Len(order) : CacheKey[order[i]] = CacheKey[order[j]] => i = j
  BY <1>1, <1>5 DEF IsOrder
<1>7. \A k \in DOMAIN hmap : \E i \in 1 .. Len(order) : hmap[k] = order[i] /\ CacheKey[order[i]] = k
  BY <1>2, <1>4, <1>5
<1> QED
  BY <1>1, <1>2, <1>3, <1>5, <1>6, <1>7, Zenon

LEMMA BecomesIs ==
  ASSUME NEW c, NEW vals, NEW q, Holds(c, q), Becomes(c, vals)
  PROVE  CacheInv' /\ Turns(c, vals, q)
<1>1. Listed(c.links, q) /\ Stored(c.hmap, Entries(q))
  BY Zenon DEF Holds
<1>2. order' = q /\ links' = c.links /\ hmap' = c.hmap /\ purged' = c.out /\ policy' = policy
  BY <1>1, ForwardsIs, Zenon DEF Becomes
<1>3. {c.hmap[k] : k \in DOMAIN c.hmap} = Entries(q)
  BY <1>1 DEF Stored
<1>4. val' = [e \in Entries(q) |-> vals[e]]
  BY <1>3, Zenon DEF Becomes
<1>5. Listed(links', order') /\ Stored(hmap', Entries(order')) /\ val' = [e \in Entries(order') |-> val'[e]]
  BY <1>1, <1>2, <1>4, Zenon
<1>6. CacheInv'
  BY <1>5, Zenon DEF CacheInv, Listed, IsList, IsOrder, At, Stored, Entries
<1> QED
  BY <1>2, <1>4, <1>6, Zenon DEF Turns

-----------------------------------------------------------------------------
(* Evictions *)

LEMMA BackIs ==
  ASSUME NEW l, NEW q, Listed(l, q), Len(q) > 0
  PROVE  Back(l) = q[Len(q)]
<1>1. IsOrder(q)
  BY Zenon DEF Listed
<1>2. Len(q) \in 0 .. Len(q) /\ Len(q) \in 1 .. Len(q)
  BY <1>1, OrderFacts
<1>3. l[At(q, Len(q) + 1)].prev = At(q, Len(q))
  BY <1>2, Zenon DEF Listed
<1> QED
  BY <1>1, <1>2, <1>3, OrderFacts, Zenon DEF Back

\* removeElement
LEMMA RemovingElement ==
  ASSUME NEW c, NEW q, Holds(c, q), NEW i \in 1 .. Len(q)
  PROVE  Holds(RemoveElement(c, q[i]), Removed(q, i)) /\ RemoveElement(c, q[i]).out = Append(c.out, q[i])
<1> DEFINE d == RemoveElement(c, q[i])
<1>1. Listed(c.links, q) /\ Stored(c.hmap, Entries(q)) /\ IsOrder(q)
  BY Zenon DEF Holds, Listed
<1>2. /\ d.links = RemoveFromList(c.links, q[i]) /\ d.hmap = StoreDel(c.hmap, q[i])
      /\ d.out = Append(c.out, q[i])
  BY Zenon DEF RemoveElement
<1>3. Listed(d.links, Removed(q, i))
  BY <1>1, <1>2, Removing, Zenon
<1>4. q[i] \in Entries(q) /\ Entries(q) \subseteq CacheEntry
  BY <1>1, EntriesOf, Zenon
<1>5. Stored(d.hmap, Entries(q) \ {q[i]})
  BY <1>1, <1>2, <1>4, DeletingEntry
<1>6. Entries(Removed(q, i)) = Entries(q) \ {q[i]}
  BY <1>1, RemovedEntries, Zenon
<1> HIDE DEF d
<1>7. Holds(d, Removed(q, i))
  BY <1>3, <1>5, <1>6, Zenon DEF Holds
<1> QED
  BY <1>2, <1>7, Zenon DEF d

LEMMA PrefixOrder ==
  ASSUME NEW q, IsOrder(q), NEW m \in 0 .. Len(q)
  PROVE  /\ IsOrder(Prefix(q, m)) /\ Len(Prefix(q, m)) = m
         /\ \A j \in 1 .. m : Prefix(q, m)[j] = q[j]
         /\ m > 0 => Removed(Prefix(q, m), m) = Prefix(q, m - 1)
         /\ Prefix(q, Len(q)) = q
<1> DEFINE p == Prefix(q, m)
<1>1. Len(q) \in Nat /\ m \in Nat /\ q \in [1 .. Len(q) -> CacheEntry]
  BY OrderFacts
<1>2. \A i, j \in 1 .. Len(q) : q[i] = q[j] => i = j
  BY Zenon DEF IsOrder
<1>3. p \in [1 .. m -> CacheEntry] /\ \A j \in 1 .. m : p[j] = q[j]
  BY <1>1 DEF Prefix
<1>4. Prefix(q, Len(q)) = q
  BY <1>1, Zenon DEF Prefix
<1> HIDE DEF p
<1>5. \A i, j \in 1 .. m : p[i] = p[j] => i = j
  BY <1>1, <1>2, <1>3
<1>6. IsOrder(p) /\ Len(p) = m
  BY <1>1, <1>3, <1>5, OrderFrom, Zenon
<1>7. ASSUME m > 0 PROVE Removed(p, m) = Prefix(q, m - 1)
  <2>1. \A j \in 1 .. m - 1 : j < m /\ p[j] = q[j]
    BY <1>1, <1>3
  <2> QED
    BY <1>6, <2>1, Zenon DEF Removed, Prefix
<1> QED
  BY <1>3, <1>4, <1>6, <1>7, Zenon DEF p

\* f is what becomes of c when the entry at the back is removed up to n times.
EvictsTo(f, c, n) == f = [i \in 0 .. n |-> IF i = 0 THEN c ELSE RemoveBack(f[i - 1])]

LEMMA EvictsAt ==
  ASSUME NEW f, NEW c, NEW n \in Nat, EvictsTo(f, c, n)
  PROVE  f[0] = c /\ \A i \in 1 .. n : f[i] = RemoveBack(f[i - 1])
BY DEF EvictsTo

LEMMA EvictsExist ==
  ASSUME NEW c, NEW n \in Nat
  PROVE  \E f : EvictsTo(f, c, n)
<1> DEFINE G == {m \in Nat : \E f : EvictsTo(f, c, m)}
<1>1. 0 \in G
  <2> DEFINE f == [i \in 0 .. 0 |-> c]
  <2>1. EvictsTo(f, c, 0)
    BY DEF EvictsTo
  <2> QED
    BY <2>1, Zenon
<1>2. ASSUME NEW m \in Nat, m \in G PROVE m + 1 \in G
  <2>1. PICK f : EvictsTo(f, c, m)
    BY <1>2, Zenon
  <2> DEFINE g == [i \in 0 .. m + 1 |-> IF i = 0 THEN c ELSE RemoveBack(f[i - 1])]
  <2>2. ASSUME NEW i \in 0 .. m PROVE g[i] = f[i]
    BY <2>1, EvictsAt
  <2>3. EvictsTo(g, c, m + 1)
    <3>1. ASSUME NEW i \in 0 .. m + 1, i # 0 PROVE f[i - 1] = g[i - 1]
      BY <2>2, <3>1
    <3> QED
      BY <3>1, Zenon DEF EvictsTo
  <2> QED
    BY <2>3
<1> HIDE DEF G
<1>3. Nat \subseteq G
  BY <1>1, <1>2, NumbersInduction, Zenon
<1> QED
  BY <1>3, Zenon DEF G

LEMMA EvictionsAre ==
  ASSUME NEW c, Cardinality(DOMAIN c.hmap) \in Nat
  PROVE  EvictsTo(Evictions(c), c, Cardinality(DOMAIN c.hmap))
<1> DEFINE n == Cardinality(DOMAIN c.hmap)
<1>1. \E f : EvictsTo(f, c, n)
  BY EvictsExist, Zenon
<1>2. Evictions(c) = CHOOSE f : EvictsTo(f, c, n)
  BY Zenon DEF Evictions, EvictsTo
<1> HIDE DEF n
<1>3. EvictsTo(Evictions(c), c, n)
  BY <1>1, <1>2, Zenon
<1> QED
  BY <1>3, Zenon DEF n

\* The last n entries, from the back.
Gone(q, n) == [j \in 1 .. n |-> q[Len(q) - j + 1]]

\* After n removals the entries before the last n are left, and those are out.
LEMMA AfterEvictions ==
  ASSUME NEW c, NEW q, Holds(c, q), c.out = <<>>, NEW n \in 0 .. Len(q)
  PROVE  Holds(Evictions(c)[n], Prefix(q, Len(q) - n)) /\ Evictions(c)[n].out = Gone(q, n)
<1> DEFINE f == Evictions(c)
           s == Len(q)
           Good(i) == Holds(f[i], Prefix(q, s - i)) /\ f[i].out = Gone(q, i)
           G == {i \in Nat : i <= s => Good(i)}
<1>1. IsOrder(q) /\ s \in Nat /\ Stored(c.hmap, Entries(q))
  BY OrderFacts, Zenon DEF Holds, Listed
<1>2. f[0] = c /\ \A i \in 1 .. s : f[i] = RemoveBack(f[i - 1])
  <2>1. Cardinality(DOMAIN c.hmap) = s
    BY <1>1, StoreLength, Zenon
  <2>2. EvictsTo(f, c, s)
    BY <1>1, <2>1, EvictionsAre, Zenon
  <2> HIDE DEF f
  <2> QED
    BY <1>1, <2>2, EvictsAt, Zenon
<1> HIDE DEF f
<1>3. 0 \in G
  <2>1. Prefix(q, s - 0) = q
    BY <1>1, PrefixOrder
  <2>2. Gone(q, 0) = <<>>
    BY DEF Gone
  <2> QED
    BY <1>2, <2>1, <2>2, Zenon
<1>4. ASSUME NEW i \in Nat, i \in G PROVE i + 1 \in G
  <2> SUFFICES ASSUME i + 1 <= s PROVE Good(i + 1)
    OBVIOUS
  <2> DEFINE m == s - i
             p == Prefix(q, m)
             d == f[i]
  <2>1. /\ m \in 0 .. s /\ m > 0 /\ m \in 1 .. m /\ s - (i + 1) = m - 1
        /\ i + 1 \in 1 .. s /\ (i + 1) - 1 = i
    BY <1>1
  <2>2. Holds(d, p) /\ d.out = Gone(q, i)
    BY <1>4
  <2>3. IsOrder(p) /\ Len(p) = m /\ p[m] = q[m] /\ Removed(p, m) = Prefix(q, m - 1)
    BY <1>1, <2>1, PrefixOrder, Zenon
  <2>4. f[i + 1] = RemoveBack(d)
    BY <1>2, <2>1, Zenon
  <2> HIDE DEF m, p, d
  <2>5. Back(d.links) = p[m]
    BY <2>1, <2>2, <2>3, BackIs, Zenon DEF Holds
  <2>6. f[i + 1] = RemoveElement(d, p[m])
    BY <2>4, <2>5, Zenon DEF RemoveBack
  <2>7. Holds(f[i + 1], Prefix(q, m - 1)) /\ f[i + 1].out = Append(Gone(q, i), q[m])
    <3>1. Holds(RemoveElement(d, p[m]), Removed(p, m)) /\ RemoveElement(d, p[m]).out = Append(d.out, p[m])
      BY <2>1, <2>2, <2>3, RemovingElement, ZenonT(60)
    <3> QED
      BY <2>2, <2>3, <2>6, <3>1, Zenon
  <2>8. Append(Gone(q, i), q[m]) = Gone(q, i + 1)
    <3>1. q[m] = q[s - (i + 1) + 1]
      BY <1>1 DEF m
    <3>2. Gone(q, i) \in Seq(CacheEntry) /\ Len(Gone(q, i)) = i
      <4>1. ASSUME NEW j \in 1 .. i PROVE q[s - j + 1] \in CacheEntry
        <5>1. s - j + 1 \in 1 .. s
          BY <1>1, <2>1
        <5> QED
          BY <1>1, <5>1, OrderFacts, Zenon
      <4> QED
        BY <4>1 DEF Gone
    <3>3. q[m] \in CacheEntry
      BY <1>1, <2>1, OrderFacts
    <3> DEFINE g == Gone(q, i)
               a == Append(g, q[m])
    <3>4. \A j \in 1 .. i : g[j] = q[s - j + 1]
      BY Zenon DEF Gone
    <3> HIDE DEF g
    <3>5. a \in Seq(CacheEntry) /\ Len(a) = i + 1 /\ a[i + 1] = q[m] /\ \A j \in 1 .. i : a[j] = g[j]
      BY <3>2, <3>3 DEF g
    <3>6. a = [j \in 1 .. i + 1 |-> a[j]]
      BY <3>5
    <3> HIDE DEF a
    <3>7. \A j \in 1 .. i + 1 : a[j] = q[s - j + 1]
      BY <3>1, <3>4, <3>5
    <3>8. a = Gone(q, i + 1)
      BY <3>6, <3>7, Zenon DEF Gone
    <3> QED
      BY <3>8, Zenon DEF a, g
  <2> QED
    BY <2>1, <2>7, <2>8, Zenon
<1> HIDE DEF G
<1>5. Nat \subseteq G
  BY <1>3, <1>4, NumbersInduction, Zenon
<1>6. Good(n)
  BY <1>1, <1>5 DEF G
<1> QED
  BY <1>6, Zenon DEF f

LEMMA MayEvictIs ==
  ASSUME NEW c, NEW q, Holds(c, q), NEW vals
  PROVE  MayEvict(c, vals) <=> policy # "None" /\ Len(q) > 0 /\ ShouldEvict(Len(q), vals[q[Len(q)]])
<1>1. IsOrder(q) /\ Len(q) \in Nat /\ Listed(c.links, q) /\ Stored(c.hmap, Entries(q))
  BY OrderFacts, Zenon DEF Holds, Listed
<1>2. Cardinality(DOMAIN c.hmap) = Len(q) /\ (DOMAIN c.hmap = {} <=> Len(q) = 0)
  BY <1>1, StoreLength, ZenonT(60)
<1>3. Len(q) > 0 => Back(c.links) = q[Len(q)]
  BY <1>1, BackIs, Zenon
<1> QED
  BY <1>1, <1>2, <1>3 DEF MayEvict

\* The first m entries stay, and no others.
Stays(q, vals, m) ==
  /\ m \in 0 .. Len(q)
  /\ policy = "None" => m = Len(q)
  /\ policy # "None" => /\ m = 0 \/ ~ShouldEvict(m, vals[q[m]])
                        /\ \A k \in m + 1 .. Len(q) : ShouldEvict(k, vals[q[k]])

\* evict, until it has nothing to evict.
LEMMA EvictAllIs ==
  ASSUME NEW c, NEW q, Holds(c, q), c.out = <<>>, NEW vals
  PROVE  \E m \in 0 .. Len(q) :
           /\ Stays(q, vals, m) /\ Holds(EvictAll(c, vals), Prefix(q, m))
           /\ EvictAll(c, vals).out = Gone(q, Len(q) - m)
<1> DEFINE f == Evictions(c)
           s == Len(q)
           Stop(n) == ~MayEvict(f[n], vals) /\ \A m \in 0 .. n - 1 : MayEvict(f[m], vals)
           n == CHOOSE i \in 0 .. s : Stop(i)
           May(m) == policy # "None" /\ m > 0 /\ ShouldEvict(m, vals[q[m]])
<1>1. IsOrder(q) /\ s \in Nat /\ Cardinality(DOMAIN c.hmap) = s
  BY OrderFacts, StoreLength, Zenon DEF Holds, Listed
<1>2. EvictAll(c, vals) = f[n]
  BY <1>1, Zenon DEF EvictAll
<1>3. \A i \in 0 .. s : Holds(f[i], Prefix(q, s - i)) /\ f[i].out = Gone(q, i)
  BY AfterEvictions, Zenon
<1> HIDE DEF f
<1>4. ASSUME NEW i \in 0 .. s PROVE MayEvict(f[i], vals) <=> May(s - i)
  <2> DEFINE m == s - i
             p == Prefix(q, m)
  <2>1. m \in 0 .. s /\ m \in Nat
    BY <1>1
  <2> HIDE DEF m
  <2>2. IsOrder(p) /\ Len(p) = m /\ (m > 0 => p[m] = q[m])
    BY <1>1, <2>1, PrefixOrder
  <2>3. Holds(f[i], p)
    BY <1>3, Zenon DEF m
  <2> HIDE DEF p
  <2>4. MayEvict(f[i], vals) <=> policy # "None" /\ Len(p) > 0 /\ ShouldEvict(Len(p), vals[p[Len(p)]])
    BY <2>3, MayEvictIs, Zenon
  <2>5. MayEvict(f[i], vals) <=> May(m)
    BY <2>2, <2>4, Zenon
  <2> QED
    BY <2>5, Zenon DEF m
<1>5. \E i \in 0 .. s : Stop(i)
  <2> DEFINE T == {i \in 0 .. s : ~MayEvict(f[i], vals)}
  <2>1. s \in 0 .. s /\ ~May(s - s)
    BY <1>1
  <2>2. s \in T
    BY <1>4, <2>1, Zenon
  <2>3. T \in SUBSET Nat /\ T # {}
    BY <2>2
  <2>4. PICK i \in T : \A m \in 0 .. i - 1 : m \notin T
    <3> HIDE DEF T
    <3> QED
      BY <2>3, LeastNumber, Zenon
  <2> QED
    BY <1>1, <2>4
<1>6. n \in 0 .. s /\ Stop(n)
  <2> HIDE DEF Stop
  <2> QED
    BY <1>5, Zenon
<1> HIDE DEF n
<1> DEFINE m == s - n
<1>7. m \in 0 .. s /\ s - m = n
  BY <1>1, <1>6
<1>8. ~May(m)
  BY <1>4, <1>6, Zenon
<1>9. ASSUME NEW k \in m + 1 .. s PROVE May(k)
  <2>1. s - k \in 0 .. n - 1 /\ s - k \in 0 .. s /\ s - (s - k) = k
    BY <1>1, <1>6
  <2>2. MayEvict(f[s - k], vals)
    BY <1>6, <2>1, Zenon
  <2>3. May(s - (s - k))
    BY <1>4, <2>1, <2>2, Zenon
  <2> QED
    BY <2>1, <2>3, Zenon
<1>10. Stays(q, vals, m)
  <2>1. policy = "None" => m = s
    <3> SUFFICES ASSUME policy = "None", m # s PROVE FALSE
      BY Zenon
    <3>1. s \in m + 1 .. s
      BY <1>1, <1>7
    <3> QED
      BY <1>9, <3>1, Zenon
  <2>2. policy # "None" => m = 0 \/ ~ShouldEvict(m, vals[q[m]])
    BY <1>7, <1>8
  <2>3. \A k \in m + 1 .. s : ShouldEvict(k, vals[q[k]])
    BY <1>9, Zenon
  <2> QED
    BY <1>7, <2>1, <2>2, <2>3, Zenon DEF Stays
<1>11. Holds(EvictAll(c, vals), Prefix(q, m)) /\ EvictAll(c, vals).out = Gone(q, s - m)
  BY <1>2, <1>3, <1>6, <1>7, Zenon
<1> QED
  BY <1>7, <1>10, <1>11, Zenon

-----------------------------------------------------------------------------
(* The sequences of the promise *)

LEMMA PartOf ==
  ASSUME NEW q \in Seq(CacheEntry), NEW a \in 1 .. Len(q) + 1, NEW b \in a - 1 .. Len(q)
  PROVE  /\ SubSeq(q, a, b) \in Seq(CacheEntry) /\ Len(SubSeq(q, a, b)) = b - a + 1
         /\ \A j \in 1 .. b - a + 1 : SubSeq(q, a, b)[j] = q[a + j - 1]
OBVIOUS

LEMMA Joined ==
  ASSUME NEW s \in Seq(CacheEntry), NEW t \in Seq(CacheEntry)
  PROVE  /\ s \o t \in Seq(CacheEntry) /\ Len(s \o t) = Len(s) + Len(t)
         /\ \A j \in 1 .. Len(s) : (s \o t)[j] = s[j]
         /\ \A j \in Len(s) + 1 .. Len(s) + Len(t) : (s \o t)[j] = t[j - Len(s)]
OBVIOUS

LEMMA IsMade ==
  ASSUME NEW s \in Seq(CacheEntry)
  PROVE  s = [j \in 1 .. Len(s) |-> s[j]]
OBVIOUS

LEMMA RemoveAtIs ==
  ASSUME NEW q, IsOrder(q), NEW i \in 1 .. Len(q)
  PROVE  Promised!RemoveAt(q, i) = Removed(q, i)
<1> DEFINE n == Len(q)
           s == SubSeq(q, 1, i - 1)
           t == SubSeq(q, i + 1, n)
           u == s \o t
<1>1. q \in Seq(CacheEntry) /\ n \in Nat
  BY OrderFacts, Zenon DEF IsOrder
<1>2. s \in Seq(CacheEntry) /\ Len(s) = i - 1 /\ \A j \in 1 .. i - 1 : s[j] = q[j]
  <2>1. 1 \in 1 .. n + 1 /\ i - 1 \in 1 - 1 .. n /\ i - 1 - 1 + 1 = i - 1 /\ \A j \in 1 .. i - 1 : 1 + j - 1 = j
    BY <1>1
  <2> QED
    BY <1>1, <2>1, PartOf
<1>3. t \in Seq(CacheEntry) /\ Len(t) = n - i /\ \A j \in 1 .. n - i : t[j] = q[i + j]
  <2> DEFINE a == i + 1
  <2>1. a \in 1 .. n + 1 /\ n \in a - 1 .. n /\ n - a + 1 = n - i /\ \A j \in 1 .. n - i : a + j - 1 = i + j
    BY <1>1
  <2> HIDE DEF a
  <2>2. /\ SubSeq(q, a, n) \in Seq(CacheEntry) /\ Len(SubSeq(q, a, n)) = n - a + 1
        /\ \A j \in 1 .. n - a + 1 : SubSeq(q, a, n)[j] = q[a + j - 1]
    BY <1>1, <2>1, PartOf, Zenon
  <2>3. t = SubSeq(q, a, n)
    BY Zenon DEF a
  <2> HIDE DEF t
  <2> QED
    BY <2>1, <2>2, <2>3, Zenon
<1> HIDE DEF s, t
<1>4. /\ u \in Seq(CacheEntry) /\ Len(u) = n - 1
      /\ \A j \in 1 .. i - 1 : u[j] = s[j]
      /\ \A j \in i .. n - 1 : u[j] = t[j - (i - 1)]
  <2>1. (i - 1) + (n - i) = n - 1 /\ (i - 1) + 1 = i
    BY <1>1
  <2>2. /\ u \in Seq(CacheEntry) /\ Len(u) = Len(s) + Len(t)
        /\ \A j \in 1 .. Len(s) : u[j] = s[j]
        /\ \A j \in Len(s) + 1 .. Len(s) + Len(t) : u[j] = t[j - Len(s)]
    BY <1>2, <1>3, Joined, Zenon
  <2> HIDE DEF u
  <2> QED
    BY <1>2, <1>3, <2>1, <2>2, Zenon
<1> HIDE DEF u
<1>5. ASSUME NEW j \in 1 .. n - 1 PROVE u[j] = IF j < i THEN q[j] ELSE q[j + 1]
  <2>1. CASE j < i
    BY <1>1, <1>2, <1>4, <2>1
  <2>2. CASE j >= i
    <3>1. j - (i - 1) \in 1 .. n - i /\ i + (j - (i - 1)) = j + 1 /\ j \in i .. n - 1
      BY <1>1, <2>2
    <3> QED
      BY <1>3, <1>4, <2>2, <3>1
  <2> QED
    BY <2>1, <2>2
<1>6. u = [j \in 1 .. n - 1 |-> u[j]]
  BY <1>4, IsMade, Zenon
<1>7. u = Removed(q, i)
  BY <1>5, <1>6, Zenon DEF Removed
<1> QED
  BY <1>7, ZenonT(60) DEF Promised!RemoveAt, u, s, t

LEMMA PushIs ==
  ASSUME NEW q \in Seq(CacheEntry), NEW e \in CacheEntry
  PROVE  <<e>> \o q = Inserted(q, 1, e)
<1> DEFINE s == <<e>>
           u == s \o q
           n == Len(q)
<1>1. s \in Seq(CacheEntry) /\ Len(s) = 1 /\ s[1] = e /\ n \in Nat
  OBVIOUS
<1> HIDE DEF s
<1>2. /\ u \in Seq(CacheEntry) /\ Len(u) = Len(s) + Len(q)
      /\ \A j \in 1 .. Len(s) : u[j] = s[j]
      /\ \A j \in Len(s) + 1 .. Len(s) + Len(q) : u[j] = q[j - Len(s)]
  BY <1>1, Joined, Zenon
<1> HIDE DEF u
<1>3. Len(u) = n + 1
  BY <1>1, <1>2
<1>4. ASSUME NEW j \in 1 .. n + 1 PROVE u[j] = IF j < 1 THEN q[j] ELSE IF j = 1 THEN e ELSE q[j - 1]
  BY <1>1, <1>2
<1>5. u = [j \in 1 .. n + 1 |-> u[j]]
  BY <1>2, <1>3, IsMade, Zenon
<1>6. u = Inserted(q, 1, e)
  BY <1>4, <1>5, Zenon DEF Inserted
<1> QED
  BY <1>6, Zenon DEF u, s

LEMMA MoveIs ==
  ASSUME NEW q, IsOrder(q), NEW i \in 1 .. Len(q)
  PROVE  Promised!Move(q, i) = Moved(q, i)
<1>1. Removed(q, i) \in Seq(CacheEntry) /\ q[i] \in CacheEntry
  BY RemovedOrder, OrderFacts, Zenon DEF HasRemoved, IsOrder
<1>2. <<q[i]>> \o Removed(q, i) = Inserted(Removed(q, i), 1, q[i])
  BY <1>1, PushIs, Zenon
<1>3. Moved(q, i) = Inserted(Removed(q, i), 1, q[i])
  BY MovedOrder, Zenon
<1> QED
  BY <1>2, <1>3, RemoveAtIs, Zenon DEF Promised!Move

LEMMA InsertAtIs ==
  ASSUME NEW q \in Seq(CacheEntry), NEW i \in 1 .. Len(q), NEW e \in CacheEntry
  PROVE  Promised!InsertAt(q, i, e) = Inserted(q, i, e)
<1> DEFINE n == Len(q)
           s == SubSeq(q, 1, i - 1)
           o == <<e>>
           t == SubSeq(q, i, n)
           v == s \o o
           u == v \o t
<1>1. n \in Nat /\ o \in Seq(CacheEntry) /\ Len(o) = 1 /\ o[1] = e
  OBVIOUS
<1>2. s \in Seq(CacheEntry) /\ Len(s) = i - 1 /\ \A j \in 1 .. i - 1 : s[j] = q[j]
  <2>1. 1 \in 1 .. n + 1 /\ i - 1 \in 1 - 1 .. n /\ i - 1 - 1 + 1 = i - 1 /\ \A j \in 1 .. i - 1 : 1 + j - 1 = j
    BY <1>1
  <2> QED
    BY <1>1, <2>1, PartOf
<1>3. t \in Seq(CacheEntry) /\ Len(t) = n - i + 1 /\ \A j \in 1 .. n - i + 1 : t[j] = q[i + j - 1]
  <2>1. i \in 1 .. n + 1 /\ n \in i - 1 .. n
    BY <1>1
  <2> QED
    BY <1>1, <2>1, PartOf, Zenon
<1> HIDE DEF s, t, o
<1>4. v \in Seq(CacheEntry) /\ Len(v) = i /\ v[i] = e /\ \A j \in 1 .. i - 1 : v[j] = q[j]
  <2>1. /\ v \in Seq(CacheEntry) /\ Len(v) = Len(s) + Len(o)
        /\ \A j \in 1 .. Len(s) : v[j] = s[j]
        /\ \A j \in Len(s) + 1 .. Len(s) + Len(o) : v[j] = o[j - Len(s)]
    BY <1>1, <1>2, Joined, Zenon
  <2> HIDE DEF v
  <2> QED
    BY <1>1, <1>2, <2>1
<1> HIDE DEF v
<1>5. /\ u \in Seq(CacheEntry) /\ Len(u) = Len(v) + Len(t)
      /\ \A j \in 1 .. Len(v) : u[j] = v[j]
      /\ \A j \in Len(v) + 1 .. Len(v) + Len(t) : u[j] = t[j - Len(v)]
  BY <1>3, <1>4, Joined, Zenon
<1> HIDE DEF u
<1>6. Len(u) = n + 1
  BY <1>1, <1>3, <1>4, <1>5
<1>7. ASSUME NEW j \in 1 .. n + 1 PROVE u[j] = IF j < i THEN q[j] ELSE IF j = i THEN e ELSE q[j - 1]
  <2>1. CASE j <= i
    BY <1>1, <1>4, <1>5, <2>1
  <2>2. CASE j > i
    <3>1. j \in i + 1 .. i + (n - i + 1) /\ j - i \in 1 .. n - i + 1 /\ i + (j - i) - 1 = j - 1
      BY <1>1, <2>2
    <3>2. u[j] = t[j - i]
      BY <1>3, <1>4, <1>5, <3>1, Zenon
    <3>3. t[j - i] = q[i + (j - i) - 1]
      BY <1>3, <3>1, Zenon
    <3> QED
      BY <2>2, <3>1, <3>2, <3>3
  <2> QED
    BY <2>1, <2>2
<1>8. u = [j \in 1 .. n + 1 |-> u[j]]
  BY <1>5, <1>6, IsMade, Zenon
<1>9. u = Inserted(q, i, e)
  BY <1>7, <1>8, Zenon DEF Inserted
<1> QED
  BY <1>9, Zenon DEF Promised!InsertAt, u, v, s, t, o

\* What may stay is a prefix, and what leaves is reported from the back.
LEMMA KeptIs ==
  ASSUME NEW q, IsOrder(q), NEW vals, NEW m, Stays(q, vals, m)
  PROVE  /\ Promised!Kept(q, vals) = Prefix(q, m)
         /\ Promised!Reverse(SubSeq(q, Len(Promised!Kept(q, vals)) + 1, Len(q))) = Gone(q, Len(q) - m)
<1> DEFINE n == Len(q)
           Last1(k) == /\ k = 0 \/ ~ShouldEvict(k, vals[q[k]])
                       /\ \A i \in k + 1 .. n : ShouldEvict(i, vals[q[i]])
<1>1. q \in Seq(CacheEntry) /\ n \in Nat /\ m \in 0 .. n
  BY OrderFacts, Zenon DEF IsOrder, Stays
<1>2. /\ IsOrder(Prefix(q, m)) /\ Len(Prefix(q, m)) = m /\ Prefix(q, n) = q
  BY <1>1, PrefixOrder, Zenon
<1>3. ASSUME NEW k \in 0 .. n PROVE SubSeq(q, 1, k) = Prefix(q, k)
  <2>1. 1 \in 1 .. n + 1 /\ k \in 1 - 1 .. n /\ k - 1 + 1 = k /\ \A j \in 1 .. k : 1 + j - 1 = j
    BY <1>1
  <2> DEFINE s == SubSeq(q, 1, k)
  <2>2. s \in Seq(CacheEntry) /\ Len(s) = k /\ \A j \in 1 .. k : s[j] = q[j]
    BY <1>1, <2>1, PartOf
  <2> HIDE DEF s
  <2>3. s = [j \in 1 .. k |-> s[j]]
    BY <2>2, IsMade, Zenon
  <2>4. s = Prefix(q, k)
    BY <2>2, <2>3, Zenon DEF Prefix
  <2> QED
    BY <2>4, Zenon DEF s
<1>4. Promised!Kept(q, vals) = Prefix(q, m)
  <2>1. CASE policy = "None"
    <3>1. m = n
      BY <2>1, Zenon DEF Stays
    <3> QED
      BY <1>2, <2>1, <3>1, Zenon DEF Promised!Kept
  <2>2. CASE policy # "None"
    <3>1. Promised!Kept(q, vals) = SubSeq(q, 1, CHOOSE k \in 0 .. n : Last1(k))
      BY <2>2, Zenon DEF Promised!Kept, Promised!MayLeave, ShouldEvict
    <3>2. Last1(m)
      BY <2>2, Zenon DEF Stays
    <3>3. ASSUME NEW k \in 0 .. n, Last1(k) PROVE k = m
      <4>1. CASE k < m
        <5>1. m \in k + 1 .. n /\ m # 0
          BY <1>1, <4>1
        <5> QED
          BY <3>2, <3>3, <5>1, Zenon
      <4>2. CASE k > m
        <5>1. k \in m + 1 .. n /\ k # 0
          BY <1>1, <4>2
        <5> QED
          BY <3>2, <3>3, <5>1, Zenon
      <4> QED
        BY <1>1, <4>1, <4>2
    <3> HIDE DEF Last1
    <3>4. (CHOOSE k \in 0 .. n : Last1(k)) = m
      BY <1>1, <3>2, <3>3, Zenon
    <3> QED
      BY <1>1, <1>3, <3>1, <3>4, ZenonT(60)
  <2> QED
    BY <2>1, <2>2, Zenon
<1>5. Promised!Reverse(SubSeq(q, m + 1, n)) = Gone(q, n - m)
  <2> DEFINE a == m + 1
             s == SubSeq(q, a, n)
  <2>1. a \in 1 .. n + 1 /\ n \in a - 1 .. n /\ n - a + 1 = n - m
    BY <1>1
  <2> HIDE DEF a
  <2>2. s \in Seq(CacheEntry) /\ Len(s) = n - m /\ \A j \in 1 .. n - m : s[j] = q[a + j - 1]
    BY <1>1, <2>1, PartOf, Zenon
  <2> HIDE DEF s
  <2>3. Promised!Reverse(s) = [j \in 1 .. n - m |-> s[((n - m) - j) + 1]]
    BY <2>2, Zenon DEF Promised!Reverse
  <2>4. ASSUME NEW j \in 1 .. n - m PROVE s[((n - m) - j) + 1] = q[n - j + 1]
    <3>1. ((n - m) - j) + 1 \in 1 .. n - m /\ a + (((n - m) - j) + 1) - 1 = n - j + 1
      BY <1>1 DEF a
    <3> QED
      BY <2>2, <3>1
  <2>5. Promised!Reverse(s) = Gone(q, n - m)
    BY <2>3, <2>4, Zenon DEF Gone
  <2> QED
    BY <2>5, Zenon DEF s, a
<1> QED
  BY <1>2, <1>4, <1>5, Zenon


-----------------------------------------------------------------------------
(* The steps *)

LEMMA TurnsIs ==
  ASSUME NEW c, NEW vals, NEW q, Turns(c, vals, q)
  PROVE  Promised!Becomes(q, vals, c.out)
BY Zenon DEF Turns, Promised!Becomes, Promised!ToSet, Entries

\* A step to a list and a store that hold q is a step of the queue to q.
LEMMA BecomingQueue ==
  ASSUME NEW c, NEW vals, NEW q, Holds(c, q), Becomes(c, vals)
  PROVE  CacheInv' /\ Promised!Becomes(q, vals, c.out)
BY BecomesIs, TurnsIs, Zenon

LEMMA StateHolds ==
  ASSUME NEW l, NEW h, NEW q, Listed(l, q), Stored(h, Entries(q))
  PROVE  Holds(State(l, h), q) /\ State(l, h).out = <<>>
BY Zenon DEF Holds, State

LEMMA MovingState ==
  ASSUME CacheInv, NEW i \in 1 .. Len(order)
  PROVE  Holds(State(MoveToFront(links, order[i]), hmap), Promised!Move(order, i))
<1>1. IsOrder(order) /\ Listed(links, order) /\ Stored(hmap, Entries(order))
  BY InvFacts, Zenon DEF CacheInv
<1>2. Entries(Moved(order, i)) = Entries(order) /\ Promised!Move(order, i) = Moved(order, i)
  BY <1>1, MovedEntries, MoveIs, Zenon
<1>3. Listed(MoveToFront(links, order[i]), Moved(order, i))
  BY <1>1, Moving, Zenon
<1> QED
  BY <1>1, <1>2, <1>3, StateHolds, Zenon

\* access, with any new values.
LEMMA Accessing ==
  ASSUME CacheInv, NEW i \in 1 .. Len(order)
  PROVE  Holds(State(Accessed(links, order[i]), hmap), Promised!Access(i))
<1>1. CASE policy = "LRU"
  BY <1>1, MovingState, Zenon DEF Accessed, Promised!Access
<1>2. CASE policy # "LRU"
  BY <1>2, StateHolds, Zenon DEF Accessed, Promised!Access, CacheInv
<1> QED
  BY <1>1, <1>2, Zenon

LEMMA OutOfState ==
  ASSUME NEW l, NEW h
  PROVE  State(l, h).out = <<>>
BY Zenon DEF State

\* The entry of a key has a place in the list.
LEMMA PlaceOf ==
  ASSUME CacheInv, NEW e, InCache(e)
  PROVE  \E i \in 1 .. Len(order) : order[i] = e /\ i \in DOMAIN order
<1>1. PICK i \in 1 .. Len(order) : hmap[CacheKey[e]] = order[i]
  BY InvFacts DEF InCache
<1>2. DOMAIN order = 1 .. Len(order)
  BY InvFacts, OrderFacts, Zenon
<1> QED
  BY <1>1, <1>2, Zenon DEF InCache

LEMMA GetStep ==
  ASSUME CacheInv, NEW k, GetFromCache(k)
  PROVE  CacheInv' /\ Promised!Next
<1>1. PICK i \in 1 .. Len(order) : hmap[k] = order[i]
  BY InvFacts, Zenon DEF GetFromCache
<1>2. i \in DOMAIN order
  BY InvFacts, OrderFacts, Zenon
<1> DEFINE c == State(Accessed(links, order[i]), hmap)
<1>3. Holds(c, Promised!Access(i)) /\ c.out = <<>>
  BY Accessing, OutOfState, Zenon
<1>4. Becomes(c, val)
  BY <1>1, Zenon DEF GetFromCache
<1> HIDE DEF c
<1>5. CacheInv' /\ Promised!Becomes(Promised!Access(i), val, <<>>)
  BY <1>3, <1>4, BecomingQueue, Zenon
<1>6. Promised!Use(i)
  BY <1>5, Zenon DEF Promised!Use
<1> QED
  BY <1>2, <1>5, <1>6, Zenon DEF Promised!Next

LEMMA MoveToEndStep ==
  ASSUME CacheInv, NEW e, MoveToEnd(e)
  PROVE  CacheInv' /\ Promised!Next
<1>1. PICK i \in 1 .. Len(order) : order[i] = e /\ i \in DOMAIN order
  BY PlaceOf, Zenon DEF MoveToEnd
<1> DEFINE c == State(MoveToFront(links, order[i]), hmap)
<1>2. Holds(c, Promised!Move(order, i)) /\ c.out = <<>>
  BY MovingState, OutOfState, Zenon
<1>3. Becomes(c, val)
  BY <1>1, Zenon DEF MoveToEnd
<1> HIDE DEF c
<1>4. CacheInv' /\ Promised!Becomes(Promised!Move(order, i), val, <<>>)
  BY <1>2, <1>3, BecomingQueue, Zenon
<1>5. Promised!Use(i)
  BY <1>4, Zenon DEF Promised!Use
<1> QED
  BY <1>1, <1>4, <1>5, Zenon DEF Promised!Next

LEMMA DelStep ==
  ASSUME CacheInv, NEW e, DelFromCache(e)
  PROVE  CacheInv' /\ Promised!Next
<1>1. PICK i \in 1 .. Len(order) : order[i] = e /\ i \in DOMAIN order
  BY PlaceOf, Zenon DEF DelFromCache
<1> DEFINE b == State(links, hmap)
           c == RemoveElement(b, order[i])
<1>2. Holds(b, order) /\ b.out = <<>> /\ IsOrder(order)
  BY StateHolds, InvFacts DEF CacheInv
<1>3. Becomes(c, val)
  BY <1>1, Zenon DEF DelFromCache
<1> HIDE DEF b
<1>4. Holds(c, Removed(order, i)) /\ c.out = Append(b.out, order[i])
  BY <1>2, RemovingElement, Zenon
<1>5. Removed(order, i) = Promised!RemoveAt(order, i) /\ c.out = <<order[i]>>
  BY <1>2, <1>4, RemoveAtIs
<1> HIDE DEF c
<1>6. CacheInv' /\ Promised!Becomes(Promised!RemoveAt(order, i), val, <<order[i]>>)
  BY <1>3, <1>4, <1>5, BecomingQueue, Zenon
<1>7. Promised!Del(i)
  BY <1>6, Zenon DEF Promised!Del
<1> QED
  BY <1>1, <1>6, <1>7, Zenon DEF Promised!Next


\* Clear
LEMMA EmptyListed ==
  ASSUME NEW l, IsList(l)
  PROVE  Listed(EmptyList(l), <<>>) /\ Entries(<<>>) = {} /\ Stored(NoEntries, {})
<1>1. ListRoot \in Nodes
  BY NodeFacts, Zenon
<1>2. <<>> \in Seq(CacheEntry) /\ Len(<<>>) = 0 /\ IsOrder(<<>>)
  BY DEF IsOrder
<1>3. At(<<>>, 0) = ListRoot /\ At(<<>>, 1) = ListRoot
  BY <1>2 DEF At
<1>4. IsList(EmptyList(l)) /\ EmptyList(l)[ListRoot] = [next |-> ListRoot, prev |-> ListRoot]
  BY <1>1, Zenon DEF IsList, EmptyList
<1>5. Listed(EmptyList(l), <<>>)
  <2> DEFINE m == EmptyList(l)
  <2>1. m[ListRoot].next = ListRoot /\ m[ListRoot].prev = ListRoot
    BY <1>4
  <2> HIDE DEF m
  <2>2. \A i \in 0 .. Len(<<>>) : i = 0
    BY <1>2
  <2>3. \A i \in 0 .. Len(<<>>) : m[At(<<>>, i)].next = At(<<>>, i + 1) /\ m[At(<<>>, i + 1)].prev = At(<<>>, i)
    BY <1>3, <2>1, <2>2
  <2> QED
    BY <1>2, <1>4, <2>3, Zenon DEF Listed, m
<1>6. Entries(<<>>) = {}
  BY DEF Entries
<1>7. Stored(NoEntries, {})
  BY Zenon DEF Stored, NoEntries
<1> QED
  BY <1>5, <1>6, <1>7, Zenon

LEMMA ReverseIs ==
  ASSUME NEW q, IsOrder(q)
  PROVE  Promised!Reverse(q) = Reversed(q)
<1>1. Len(q) \in Nat
  BY OrderFacts, Zenon
<1>2. \A i \in 1 .. Len(q) : (Len(q) - i) + 1 = Len(q) - i + 1
  BY <1>1, Zenon
<1> QED
  BY <1>1, <1>2, Zenon DEF Promised!Reverse, Reversed

LEMMA ClearStep ==
  ASSUME CacheInv, ClearCache
  PROVE  CacheInv' /\ Promised!Next
<1> DEFINE c == [links |-> EmptyList(links), hmap |-> NoEntries, out |-> Backwards(links)]
           r == Promised!Reverse(order)
<1>1. Listed(links, order) /\ IsOrder(order) /\ IsList(links)
  BY Zenon DEF CacheInv, Listed
<1>2. Backwards(links) = r
  BY <1>1, BackwardsIs, ReverseIs, Zenon
<1>3. c.links = EmptyList(links) /\ c.hmap = NoEntries /\ c.out = r
  BY <1>2, Zenon
<1>4. Becomes(c, val)
  BY Zenon DEF ClearCache
<1> HIDE DEF c
<1>5. Holds(c, <<>>)
  BY <1>1, <1>3, EmptyListed, Zenon DEF Holds
<1>6. CacheInv' /\ Promised!Becomes(<<>>, val, c.out)
  BY <1>4, <1>5, BecomingQueue, Zenon
<1>7. Promised!Clear
  BY <1>3, <1>6, Zenon DEF Promised!Clear, r
<1> QED
  BY <1>6, <1>7, Zenon DEF Promised!Next

\* add of a key that is there.
LEMMA AddAgainStep ==
  ASSUME CacheInv, NEW e \in CacheEntry, NEW v \in CacheValue, NEW after,
         AddToCache(e, v, after), CacheKey[e] \in DOMAIN hmap
  PROVE  CacheInv' /\ Promised!Next
<1>1. PICK i \in 1 .. Len(order) : hmap[CacheKey[e]] = order[i] /\ CacheKey[order[i]] = CacheKey[e]
  BY InvFacts, Zenon
<1>2. i \in DOMAIN order /\ order[i] \in DOMAIN val
  BY InvFacts, OrderFacts, EntriesOf, Zenon
<1> DEFINE c == State(Accessed(links, order[i]), hmap)
           vals == [val EXCEPT ![order[i]] = v]
<1>3. Holds(c, Promised!Access(i)) /\ c.out = <<>>
  BY Accessing, OutOfState, Zenon
<1>4. WithValue(order[i], v) = vals
  <2>1. vals = [x \in DOMAIN val |-> IF x = order[i] THEN v ELSE val[x]]
    BY <1>2, Zenon
  <2>2. DOMAIN val \cup {order[i]} = DOMAIN val
    BY <1>2, ZenonT(60)
  <2> QED
    BY <2>1, <2>2, Zenon DEF WithValue
<1>5. Becomes(c, vals)
  BY <1>1, <1>4, Zenon DEF AddToCache
<1> HIDE DEF c
<1>6. CacheInv' /\ Promised!Becomes(Promised!Access(i), vals, <<>>)
  BY <1>3, <1>5, BecomingQueue, Zenon
<1>7. Promised!Add(e, v)
  BY <1>1, <1>2, <1>6, Zenon DEF Promised!Add
<1> QED
  BY <1>6, <1>7, Zenon DEF Promised!Next


\* add of a new key at place i: the new entry is listed and stored, and then
\* the entries that may be evicted are, the new one among them.
LEMMA Putting ==
  ASSUME CacheInv, NEW e \in CacheEntry, NEW v, CacheKey[e] \notin DOMAIN hmap, NEW i \in 1 .. Len(order) + 1,
         Becomes(Evicted(State(InsertAfter(links, e, At(order, i - 1)), StoreAdd(hmap, e)), WithValue(e, v)),
                 WithValue(e, v))
  PROVE  CacheInv' /\ Promised!Put(Inserted(order, i, e), e, v)
<1> DEFINE l == InsertAfter(links, e, At(order, i - 1))
           r == Inserted(order, i, e)
           c == State(l, StoreAdd(hmap, e))
           vals == WithValue(e, v)
           d == EvictAll(c, vals)
<1>1. /\ IsOrder(order) /\ Listed(links, order) /\ Stored(hmap, Entries(order))
      /\ Entries(order) \in SUBSET CacheEntry /\ DOMAIN val = Entries(order)
  BY InvFacts, Zenon DEF CacheInv
<1>2. \A j \in 1 .. Len(order) : order[j] # e
  BY InvFacts, Zenon
<1>3. Listed(l, r) /\ IsOrder(r)
  BY <1>1, <1>2, Inserting DEF Listed
<1>4. Entries(r) = Entries(order) \cup {e} /\ Stored(StoreAdd(hmap, e), Entries(order) \cup {e})
  BY <1>1, <1>2, InsertedEntries, StoringEntry, ZenonT(60)
<1>5. Becomes(d, vals)
  BY Zenon DEF Evicted
<1> HIDE DEF l, r
<1>6. Holds(c, r) /\ c.out = <<>>
  BY <1>3, <1>4, StateHolds, ZenonT(60)
<1>7. vals = [x \in Promised!ToSet(r) |-> IF x = e THEN v ELSE val[x]]
  BY <1>1, <1>4, ZenonT(60) DEF WithValue, Promised!ToSet, Entries
<1> HIDE DEF c, vals
<1>8. PICK m \in 0 .. Len(r) : Stays(r, vals, m) /\ Holds(d, Prefix(r, m)) /\ d.out = Gone(r, Len(r) - m)
  BY <1>6, EvictAllIs, Zenon
<1> HIDE DEF d
<1> DEFINE kept == Promised!Kept(r, vals)
           out == Promised!Reverse(SubSeq(r, Len(kept) + 1, Len(r)))
<1>9. kept = Prefix(r, m) /\ out = d.out
  BY <1>3, <1>8, KeptIs, Zenon
<1> HIDE DEF kept
<1>10. CacheInv' /\ Promised!Becomes(kept, vals, out)
  BY <1>5, <1>8, <1>9, BecomingQueue, Zenon
<1>11. Promised!Put(r, e, v)
  BY <1>7, <1>10, Zenon DEF Promised!Put, kept
<1> QED
  BY <1>10, <1>11, Zenon DEF r

LEMMA AddNewStep ==
  ASSUME CacheInv, NEW e \in CacheEntry, NEW v \in CacheValue, NEW after \in CacheEntry \cup {NilEntry},
         AddToCache(e, v, after), CacheKey[e] \notin DOMAIN hmap
  PROVE  CacheInv' /\ Promised!Next
<1>1. IsOrder(order) /\ Listed(links, order) /\ order \in Seq(CacheEntry) /\ Len(order) \in Nat
  BY InvFacts, OrderFacts, Zenon DEF CacheInv, IsOrder
<1>2. \A x \in Promised!ToSet(order) : CacheKey[x] # CacheKey[e]
  <2>1. \A x \in Entries(order) : CacheKey[x] \in DOMAIN hmap
    BY InvFacts, EntriesOf
  <2> QED
    BY <2>1, Zenon DEF Entries, Promised!ToSet
<1>3. CASE after = NilEntry
  <2>1. PushFront(links, e) = InsertAfter(links, e, At(order, 1 - 1)) /\ 1 \in 1 .. Len(order) + 1
    BY <1>1, OrderFacts DEF PushFront
  <2>2. CacheInv' /\ Promised!Put(Inserted(order, 1, e), e, v)
    BY <1>3, <2>1, Putting, Zenon DEF AddToCache
  <2>3. Inserted(order, 1, e) = <<e>> \o order
    BY <1>1, PushIs, Zenon
  <2>4. Promised!Add(e, v)
    BY <1>2, <2>2, <2>3, Zenon DEF Promised!Add
  <2> QED
    BY <2>2, <2>4, Zenon DEF Promised!Next
<1>4. CASE after # NilEntry
  <2>1. PICK i \in 1 .. Len(order) : order[i] = after /\ i \in DOMAIN order
    BY <1>4, PlaceOf, Zenon DEF AddToCache
  <2>2. InsertBefore(links, e, after) = InsertAfter(links, e, At(order, i - 1)) /\ i \in 1 .. Len(order) + 1
    <3>1. i - 1 \in 0 .. Len(order) /\ (i - 1) + 1 = i /\ At(order, i) = after
      BY <1>1, <2>1, OrderFacts
    <3>2. links[after].prev = At(order, i - 1)
      BY <1>1, <3>1, Zenon DEF Listed
    <3> QED
      BY <1>1, <3>2 DEF InsertBefore
  <2>3. CacheInv' /\ Promised!Put(Inserted(order, i, e), e, v)
    BY <1>4, <2>2, Putting, Zenon DEF AddToCache
  <2>4. Inserted(order, i, e) = Promised!InsertAt(order, i, e)
    BY <1>1, InsertAtIs, Zenon
  <2>5. Promised!Add(e, v)
    BY <1>2, <2>1, <2>3, <2>4, Zenon DEF Promised!Add
  <2> QED
    BY <2>3, <2>5, Zenon DEF Promised!Next
<1> QED
  BY <1>3, <1>4, Zenon


-----------------------------------------------------------------------------
(* The entries that overlap *)

LEMMA AheadAt ==
  ASSUME NEW q, IsOrder(q), NEW a \in 1 .. Len(q), NEW b \in 1 .. Len(q)
  PROVE  Promised!Ahead(q, q[a], q[b]) <=> a < b
<1>1. DOMAIN q = 1 .. Len(q) /\ \A i, j \in 1 .. Len(q) : q[i] = q[j] => i = j
  BY OrderFacts, Zenon DEF IsOrder
<1>2. ASSUME a < b PROVE Promised!Ahead(q, q[a], q[b])
  BY <1>1, <1>2, Zenon DEF Promised!Ahead
<1>3. ASSUME Promised!Ahead(q, q[a], q[b]) PROVE a < b
  <2>1. PICK i, j \in 1 .. Len(q) : i < j /\ q[i] = q[a] /\ q[j] = q[b]
    BY <1>1, <1>3, Zenon DEF Promised!Ahead
  <2> QED
    BY <1>1, <2>1, Zenon
<1> QED
  BY <1>2, <1>3, Zenon

\* moveToFront puts an entry ahead of all others, and leaves those in their order.
LEMMA AheadMoved ==
  ASSUME NEW q, IsOrder(q), NEW i \in 1 .. Len(q), NEW x \in Entries(q), NEW y \in Entries(q)
  PROVE  Promised!Ahead(Moved(q, i), x, y) <=> \/ x = q[i] /\ y # q[i]
                                               \/ x # q[i] /\ y # q[i] /\ Promised!Ahead(q, x, y)
<1> DEFINE r == Moved(q, i)
           n == Len(q)
           place(a) == IF a = i THEN 1 ELSE IF a < i THEN a + 1 ELSE a
<1>1. n \in Nat /\ IsOrder(r) /\ Len(r) = n /\ \A j, k \in 1 .. n : q[j] = q[k] => j = k
  BY OrderFacts, MovedEntries, Zenon DEF IsOrder
<1>2. PICK a \in 1 .. n : q[a] = x
  BY EntriesOf, Zenon
<1>3. PICK b \in 1 .. n : q[b] = y
  BY EntriesOf, Zenon
<1>4. \A k \in 1 .. n : place(k) \in 1 .. n /\ r[place(k)] = q[k]
  BY <1>1 DEF Moved
<1> HIDE DEF r
<1>5. Promised!Ahead(q, x, y) <=> a < b
  BY <1>2, <1>3, AheadAt, Zenon
<1>6. Promised!Ahead(r, x, y) <=> place(a) < place(b)
  <2> DEFINE s == place(a)
             t == place(b)
  <2>1. s \in 1 .. Len(r) /\ t \in 1 .. Len(r) /\ r[s] = x /\ r[t] = y
    BY <1>1, <1>2, <1>3, <1>4, Zenon
  <2> HIDE DEF s, t
  <2>2. Promised!Ahead(r, x, y) <=> s < t
    BY <1>1, <2>1, AheadAt, Zenon
  <2> QED
    BY <2>2, Zenon DEF s, t
<1>7. (x = q[i] <=> a = i) /\ (y = q[i] <=> b = i)
  BY <1>1, <1>2, <1>3, Zenon
<1>8. place(a) < place(b) <=> (a = i /\ b # i) \/ (a # i /\ b # i /\ a < b)
  <2>1. CASE a = i
    BY <1>1, <2>1
  <2>2. CASE a < i
    BY <1>1, <2>2
  <2>3. CASE a > i
    BY <1>1, <2>3
  <2> QED
    BY <1>1, <2>1, <2>2, <2>3
<1> QED
  BY <1>5, <1>6, <1>7, <1>8, Zenon DEF r

\* When the entries are used in the order of their keys, the last one used comes first.
LEMMA UsedNext ==
  ASSUME NEW q, IsOrder(q), Entries(q) = Entries(order), NEW U, Promised!UsedFirst(q, U),
         NEW i \in 1 .. Len(q), \A x \in U : CacheKey[q[i]] > CacheKey[x], U \subseteq CacheEntry
  PROVE  Promised!UsedFirst(Moved(q, i), U \cup {q[i]})
<1> DEFINE e == q[i]
           r == Moved(q, i)
           W == U \cup {e}
<1>1. /\ IsOrder(r) /\ Len(r) = Len(q) /\ Entries(r) = Entries(q) /\ e \in CacheEntry
      /\ \A x \in CacheEntry : CacheKey[x] \in Nat
  BY MovedEntries, OrderFacts, CacheAssumption, Zenon
<1>2. Promised!ToSet(r) = Entries(r) /\ Promised!ToSet(order) = Entries(order)
  BY Zenon DEF Promised!ToSet, Entries
<1>3. ASSUME NEW x \in Entries(order), NEW y \in Entries(order)
      PROVE  Promised!Ahead(r, x, y) <=> (x = e /\ y # e) \/ (x # e /\ y # e /\ Promised!Ahead(q, x, y))
  <2>1. x \in Entries(q) /\ y \in Entries(q)
    BY Zenon
  <2> QED
    BY <2>1, AheadMoved, Zenon
<1>4. /\ Len(q) = Len(order)
      /\ \A x, y \in Entries(order) :
           Promised!Ahead(q, x, y) <=> \/ x \in U /\ y \in U /\ CacheKey[x] > CacheKey[y]
                                       \/ x \in U /\ y \notin U
                                       \/ x \notin U /\ y \notin U /\ Promised!Ahead(order, x, y)
  BY <1>2, Zenon DEF Promised!UsedFirst
<1>5. \A x \in U : CacheKey[e] > CacheKey[x] /\ ~(CacheKey[x] > CacheKey[e])
  BY <1>1
<1>6. ~(CacheKey[e] > CacheKey[e])
  BY <1>1
<1>7. e \notin U
  BY <1>5, <1>6, Zenon
<1> HIDE DEF r, e
<1>8. ASSUME NEW x \in Entries(order), NEW y \in Entries(order)
      PROVE  Promised!Ahead(r, x, y) <=> \/ x \in W /\ y \in W /\ CacheKey[x] > CacheKey[y]
                                         \/ x \in W /\ y \notin W
                                         \/ x \notin W /\ y \notin W /\ Promised!Ahead(order, x, y)
  <2>1. CASE x = e /\ y = e
    BY <1>3, <1>6, <2>1, Zenon
  <2>2. CASE x = e /\ y # e
    <3>1. Promised!Ahead(r, x, y)
      BY <1>3, <2>2, Zenon
    <3>2. x \in W /\ (y \in W => y \in U)
      BY <2>2, Zenon
    <3>3. y \in U => CacheKey[x] > CacheKey[y]
      BY <1>5, <2>2, Zenon
    <3> QED
      BY <3>1, <3>2, <3>3, Zenon
  <2>3. CASE x # e /\ y = e
    BY <1>3, <1>5, <2>3, Zenon
  <2>4. CASE x # e /\ y # e
    BY <1>3, <1>4, <2>4, Zenon
  <2> QED
    BY <2>1, <2>2, <2>3, <2>4, Zenon
<1> QED
  BY <1>1, <1>2, <1>4, <1>8, Zenon DEF Promised!UsedFirst, r, e


\* f is the list after each access, for keys from on, up to n of them.
AccessesTo(f, from, n) ==
  f = [i \in 0 .. n |-> IF i = 0 THEN links
                        ELSE IF from + i - 1 \in DOMAIN hmap THEN Accessed(f[i - 1], hmap[from + i - 1])
                        ELSE f[i - 1]]

LEMMA AccessesAt ==
  ASSUME NEW f, NEW from, NEW n \in Nat, AccessesTo(f, from, n)
  PROVE  /\ f[0] = links
         /\ \A i \in 1 .. n : f[i] = IF from + i - 1 \in DOMAIN hmap THEN Accessed(f[i - 1], hmap[from + i - 1])
                                     ELSE f[i - 1]
BY DEF AccessesTo

LEMMA AccessesExist ==
  ASSUME NEW from, NEW n \in Nat
  PROVE  \E f : AccessesTo(f, from, n)
<1> DEFINE G == {m \in Nat : \E f : AccessesTo(f, from, m)}
<1>1. 0 \in G
  <2> DEFINE f == [i \in 0 .. 0 |-> links]
  <2>1. AccessesTo(f, from, 0)
    BY DEF AccessesTo
  <2> QED
    BY <2>1, Zenon
<1>2. ASSUME NEW m \in Nat, m \in G PROVE m + 1 \in G
  <2>1. PICK f : AccessesTo(f, from, m)
    BY <1>2, Zenon
  <2> DEFINE g == [i \in 0 .. m + 1 |-> IF i = 0 THEN links
                                        ELSE IF from + i - 1 \in DOMAIN hmap
                                             THEN Accessed(f[i - 1], hmap[from + i - 1])
                                        ELSE f[i - 1]]
  <2>2. ASSUME NEW i \in 0 .. m PROVE g[i] = f[i]
    BY <2>1, AccessesAt
  <2>3. AccessesTo(g, from, m + 1)
    <3>1. ASSUME NEW i \in 0 .. m + 1, i # 0 PROVE f[i - 1] = g[i - 1]
      <4>1. i - 1 \in 0 .. m
        BY <3>1
      <4> HIDE DEF g
      <4> QED
        BY <2>2, <4>1, Zenon
    <3> QED
      BY <3>1, Zenon DEF AccessesTo
  <2> QED
    BY <2>3
<1> HIDE DEF G
<1>3. Nat \subseteq G
  BY <1>1, <1>2, NumbersInduction, Zenon
<1> QED
  BY <1>3, Zenon DEF G

LEMMA AccessesAre ==
  ASSUME NEW from, NEW to, to - from + 1 \in Nat
  PROVE  AccessesTo(Accesses(from, to), from, to - from + 1)
<1> DEFINE n == to - from + 1
<1>1. \E f : AccessesTo(f, from, n)
  BY AccessesExist, Zenon
<1>2. Accesses(from, to) = CHOOSE f : AccessesTo(f, from, n)
  BY Zenon DEF Accesses, AccessesTo
<1> HIDE DEF n
<1>3. AccessesTo(Accesses(from, to), from, n)
  BY <1>1, <1>2, Zenon
<1> QED
  BY <1>3, Zenon DEF n

\* The list after the accesses for keys in K.
WithKeys(K) == {x \in Promised!ToSet(order) : CacheKey[x] \in K}
HasUsed(l, K) ==
  \E q : /\ Listed(l, q) /\ Entries(q) = Entries(order)
         /\ IF policy = "LRU" THEN Promised!UsedFirst(q, WithKeys(K)) ELSE q = order

LEMMA NothingUsed ==
  ASSUME CacheInv
  PROVE  HasUsed(links, {})
<1>1. WithKeys({}) = {}
  BY Zenon DEF WithKeys
<1>2. Promised!UsedFirst(order, {})
  BY Zenon DEF Promised!UsedFirst
<1>3. Listed(links, order)
  BY Zenon DEF CacheInv
<1> QED
  BY <1>1, <1>2, <1>3, Zenon DEF HasUsed

\* Keys that no entry has make no difference.
LEMMA UsesNone ==
  ASSUME CacheInv, NEW l, NEW K, HasUsed(l, K), NEW k, k \notin DOMAIN hmap
  PROVE  HasUsed(l, K \cup {k})
<1>1. \A x \in Promised!ToSet(order) : CacheKey[x] # k
  <2>1. \A x \in Entries(order) : CacheKey[x] \in DOMAIN hmap
    BY InvFacts, EntriesOf
  <2> QED
    BY <2>1, Zenon DEF Entries, Promised!ToSet
<1>2. WithKeys(K \cup {k}) = WithKeys(K)
  BY <1>1, Zenon DEF WithKeys
<1> QED
  BY <1>2, Zenon DEF HasUsed

\* The access to the entry of a key above the ones before.
LEMMA UsesOne ==
  ASSUME CacheInv, NEW l, NEW K \in SUBSET Nat, HasUsed(l, K), NEW k \in Nat, k \in DOMAIN hmap,
         \A j \in K : k > j
  PROVE  HasUsed(Accessed(l, hmap[k]), K \cup {k})
<1>1. PICK q : /\ Listed(l, q) /\ Entries(q) = Entries(order)
               /\ IF policy = "LRU" THEN Promised!UsedFirst(q, WithKeys(K)) ELSE q = order
  BY Zenon DEF HasUsed
<1>2. IsOrder(q) /\ IsOrder(order)
  BY <1>1, InvFacts, Zenon DEF Listed
<1>3. PICK p \in 1 .. Len(order) : hmap[k] = order[p] /\ CacheKey[order[p]] = k
  BY InvFacts, ZenonT(60)
<1> DEFINE e == order[p]
<1>4. e \in Entries(order)
  BY <1>2, EntriesOf, Zenon
<1>5. PICK i \in 1 .. Len(q) : q[i] = e
  BY <1>1, <1>2, <1>4, EntriesOf, Zenon
<1>6. CASE policy = "LRU"
  <2>1. Listed(MoveToFront(l, q[i]), Moved(q, i)) /\ Entries(Moved(q, i)) = Entries(order)
    BY <1>1, <1>2, Moving, MovedEntries, Zenon
  <2>2. WithKeys(K) \subseteq CacheEntry /\ \A x \in WithKeys(K) : CacheKey[q[i]] > CacheKey[x]
    <3>1. Promised!ToSet(order) = Entries(order)
      BY Zenon DEF Promised!ToSet, Entries
    <3>2. Entries(order) \subseteq CacheEntry
      BY InvFacts, Zenon
    <3> QED
      BY <1>3, <1>5, <3>1, <3>2, ZenonT(60) DEF WithKeys
  <2>3. Promised!UsedFirst(Moved(q, i), WithKeys(K) \cup {q[i]})
    BY <1>1, <1>2, <1>6, <2>2, UsedNext, Zenon
  <2>4. WithKeys(K) \cup {q[i]} = WithKeys(K \cup {k})
    <3>1. \A x \in Entries(order) : CacheKey[x] = k <=> x = e
      <4>1. ASSUME NEW x \in Entries(order), CacheKey[x] = k PROVE x = e
        <5>1. PICK a \in 1 .. Len(order) : order[a] = x
          BY <1>2, EntriesOf, Zenon
        <5>2. a = p
          BY <1>3, <4>1, <5>1, InvFacts, Zenon
        <5> QED
          BY <5>1, <5>2, Zenon
      <4> QED
        BY <1>3, <4>1, Zenon
    <3>2. Promised!ToSet(order) = Entries(order)
      BY Zenon DEF Promised!ToSet, Entries
    <3> QED
      BY <1>4, <1>5, <3>1, <3>2, Zenon DEF WithKeys
  <2>5. Accessed(l, hmap[k]) = MoveToFront(l, q[i])
    BY <1>3, <1>5, <1>6, Zenon DEF Accessed
  <2> QED
    BY <1>6, <2>1, <2>3, <2>4, <2>5, Zenon DEF HasUsed
<1>7. CASE policy # "LRU"
  BY <1>1, <1>7, Zenon DEF HasUsed, Accessed
<1> QED
  BY <1>6, <1>7, Zenon


LEMMA AfterAccesses ==
  ASSUME CacheInv, NEW from \in Nat, NEW f, NEW size \in Nat, AccessesTo(f, from, size)
  PROVE  HasUsed(f[size], from .. from + size - 1)
<1> DEFINE G == {n \in Nat : n <= size => HasUsed(f[n], from .. from + n - 1)}
<1>1. 0 \in G
  <2>1. from .. from + 0 - 1 = {} /\ f[0] = links
    BY AccessesAt
  <2> QED
    BY <2>1, NothingUsed, Zenon
<1>2. ASSUME NEW n \in Nat, n \in G PROVE n + 1 \in G
  <2> SUFFICES ASSUME n + 1 <= size PROVE HasUsed(f[n + 1], from .. from + (n + 1) - 1)
    OBVIOUS
  <2> DEFINE K == from .. from + n - 1
             k == from + n
  <2>1. HasUsed(f[n], K) /\ n + 1 \in 1 .. size /\ from + (n + 1) - 1 = k /\ (n + 1) - 1 = n
    BY <1>2
  <2>2. K \in SUBSET Nat /\ k \in Nat /\ (\A j \in K : k > j) /\ from .. from + (n + 1) - 1 = K \cup {k}
    OBVIOUS
  <2>3. f[n + 1] = IF k \in DOMAIN hmap THEN Accessed(f[n], hmap[k]) ELSE f[n]
    <3>1. \A i \in 1 .. size : f[i] = IF from + i - 1 \in DOMAIN hmap THEN Accessed(f[i - 1], hmap[from + i - 1])
                                      ELSE f[i - 1]
      BY AccessesAt, Zenon
    <3> QED
      BY <2>1, <3>1, Zenon
  <2> HIDE DEF K, k
  <2>4. CASE k \in DOMAIN hmap
    BY <2>1, <2>2, <2>3, <2>4, UsesOne
  <2>5. CASE k \notin DOMAIN hmap
    BY <2>1, <2>2, <2>3, <2>5, UsesNone
  <2> QED
    BY <2>4, <2>5, Zenon
<1> HIDE DEF G
<1>3. Nat \subseteq G
  BY <1>1, <1>2, NumbersInduction, Zenon
<1> QED
  BY <1>3 DEF G

LEMMA KeysAreNumbers ==
  ASSUME NEW k \in CacheKeys
  PROVE  k \in Nat /\ k \in {CacheKey[e] : e \in CacheEntry}
BY CacheAssumption, Zenon DEF CacheKeys

LEMMA GetOverlapsStep ==
  ASSUME CacheInv, NEW from \in CacheKeys, NEW to \in CacheKeys, from <= to, GetOverlaps(from, to)
  PROVE  CacheInv' /\ Promised!Next
<1> DEFINE n == to - from + 1
           l == Accesses(from, to)[n]
           c == State(l, hmap)
<1>1. from \in Nat /\ to \in Nat /\ n \in Nat /\ from + n - 1 = to
  BY KeysAreNumbers
<1>2. HasUsed(l, from .. to)
  <2>1. AccessesTo(Accesses(from, to), from, n)
    BY <1>1, AccessesAre, Zenon
  <2> HIDE DEF n
  <2>2. HasUsed(l, from .. from + n - 1)
    BY <1>1, <2>1, AfterAccesses, Zenon
  <2> QED
    BY <1>1, <2>2, Zenon
<1>3. Becomes(c, val)
  BY Zenon DEF GetOverlaps
<1> HIDE DEF n, l
<1>4. PICK q : /\ Listed(l, q) /\ Entries(q) = Entries(order)
               /\ IF policy = "LRU" THEN Promised!UsedFirst(q, WithKeys(from .. to)) ELSE q = order
  BY <1>2, Zenon DEF HasUsed
<1>5. Holds(c, q) /\ c.out = <<>>
  BY <1>4, StateHolds, Zenon DEF CacheInv
<1> HIDE DEF c
<1>6. CacheInv' /\ Turns(c, val, q)
  BY <1>3, <1>5, BecomesIs, Zenon
<1>7. order' = q /\ purged' = <<>> /\ policy' = policy /\ val' = val
  BY <1>4, <1>5, <1>6, Zenon DEF Turns, CacheInv
<1>8. Promised!UseAll(from, to)
  BY <1>4, <1>7, Zenon DEF Promised!UseAll, WithKeys
<1>9. from \in {CacheKey[e] : e \in CacheEntry} /\ to \in {CacheKey[e] : e \in CacheEntry}
  BY KeysAreNumbers, Zenon
<1> QED
  BY <1>6, <1>8, <1>9, Zenon DEF Promised!Next

-----------------------------------------------------------------------------
(* The theorems *)

LEMMA CacheStarts ==
  ASSUME CacheInit
  PROVE  CacheInv /\ Promised!Init
<1>1. links = EmptyList([e \in Nodes |-> Unlinked]) /\ hmap = NoEntries /\ val = NoEntries /\ order = <<>>
  BY Zenon DEF CacheInit
<1>2. IsList([e \in Nodes |-> Unlinked])
  BY Zenon DEF IsList, Unlinked
<1>3. Listed(links, order) /\ Entries(order) = {} /\ Stored(hmap, {})
  BY <1>1, <1>2, EmptyListed, Zenon
<1>4. val = [e \in {} |-> val[e]] /\ val = [e \in {} |-> 0]
  BY <1>1, Zenon DEF NoEntries
<1>5. CacheInv
  BY <1>3, <1>4, Zenon DEF CacheInv
<1>6. Promised!Init
  BY <1>4, Zenon DEF CacheInit, Promised!Init
<1> QED
  BY <1>5, <1>6, Zenon

\* Every step of the cache keeps the invariant, and is a step of the queue or leaves
\* it as it is.
LEMMA CacheSteps ==
  ASSUME CacheInv, [CacheNext]_cacheVars
  PROVE  CacheInv' /\ [Promised!Next]_<<order, val, policy, purged>>
<1>1. CASE \E e \in CacheEntry, v \in CacheValue, after \in CacheEntry \cup {NilEntry} : AddToCache(e, v, after)
  BY <1>1, AddAgainStep, AddNewStep, Zenon
<1>2. CASE \E k \in CacheKeys : GetFromCache(k)
  BY <1>2, GetStep, Zenon
<1>3. CASE \E from, to \in CacheKeys : from <= to /\ GetOverlaps(from, to)
  BY <1>3, GetOverlapsStep, Zenon
<1>4. CASE \E e \in CacheEntry : MoveToEnd(e) \/ DelFromCache(e)
  BY <1>4, MoveToEndStep, DelStep, Zenon
<1>5. CASE ClearCache
  BY <1>5, ClearStep, Zenon
<1>6. CASE UNCHANGED cacheVars
  <2>1. links' = links /\ hmap' = hmap /\ val' = val /\ order' = order
    BY <1>6, Zenon DEF cacheVars
  <2>2. CacheInv'
    BY <2>1 DEF CacheInv, Listed, IsList, IsOrder, At, Stored, Entries
  <2>3. UNCHANGED <<order, val, policy, purged>>
    BY <1>6, Zenon DEF cacheVars
  <2> QED
    BY <2>2, <2>3, Zenon
<1> QED
  BY <1>1, <1>2, <1>3, <1>4, <1>5, <1>6, Zenon DEF CacheNext

\* Whatever is added, used, deleted or evicted, the next and prev pointers of
\* entryList lead through the same entries in opposite directions, no entry is
\* linked twice, and the store has exactly those entries, each by its own key: the
\* list and the store, which removeElement and add change one after the other,
\* never differ between operations.
THEOREM ListAndStoreAgree == CacheSpec => []CacheInv
<1>1. CacheInit => CacheInv
  BY CacheStarts, Zenon
<1>2. CacheInv /\ [CacheNext]_cacheVars => CacheInv'
  BY CacheSteps, Zenon
<1> QED
  BY <1>1, <1>2, PTL DEF CacheSpec

\* The cache keeps what EvictionQueue promises: entries are in the order of their
\* age or last use, add evicts from the back all that may be evicted and nothing
\* else, and OnEvicted is called once for each entry that leaves, in that order.
THEOREM CacheRefinesQueue == CacheSpec => EvictsInOrder
<1>1. CacheInit => CacheInv /\ Promised!Init
  BY CacheStarts, Zenon
<1>2. CacheInv /\ [CacheNext]_cacheVars => CacheInv' /\ [Promised!Next]_<<order, val, policy, purged>>
  BY CacheSteps, Zenon
<1> QED
  BY <1>1, <1>2, PTL DEF CacheSpec, EvictsInOrder, Promised!Spec
=============================================================================
