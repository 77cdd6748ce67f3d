-------------------------------- MODULE Cache --------------------------------
(***************************************************************************)
(* baseCache of utils/cache, with its UnorderedCache, OrderedCache and     *)
(* IntervalCache: a store of entries by key and a circular list of the     *)
(* same entries for their eviction.  The caches are used by one goroutine, *)
(* by clients that name entries of the cache only.                         *)
(***************************************************************************)
EXTENDS Integers, Sequences, FiniteSets

CONSTANTS CacheEntry,    \* the entries clients make
          CacheKey,      \* KeyOf: the key of each entry, a number
          CacheValue,    \* the values
          ExpiredValue,  \* the values that may always be evicted, such as old ones
          MaxSize        \* the size beyond which any entry may be evicted

ASSUME CacheAssumption ==
  /\ CacheEntry \subseteq Nat \ {0} /\ IsFiniteSet(CacheEntry)
  /\ CacheKey \in [CacheEntry -> Nat] /\ ExpiredValue \subseteq CacheValue /\ MaxSize \in Nat

VARIABLES links,   \* next and prev of every entry and of the root
          hmap,    \* the store: the entry of each key
          val,     \* Entry.Value of the entries in the cache
          policy,  \* Config.Policy
          purged,  \* history: what OnEvicted was called with in the last step
          order    \* the entries as the next pointers lead to them from the root

cacheVars == <<links, hmap, val, policy, purged, order>>

\* Entries are numbers; 0 is the root of the list and -1 is nil.
ListRoot == 0
NilEntry == -1
Nodes == CacheEntry \cup {ListRoot}
Unlinked == [next |-> NilEntry, prev |-> NilEntry]
NoEntries == [k \in {} |-> 0]

\* entryList: init, insertAfter, remove, moveToFront.  Removing an entry that is
\* not linked does nothing.
EmptyList(l) == [l EXCEPT ![ListRoot] = [next |-> ListRoot, prev |-> ListRoot]]
Back(l) == l[ListRoot].prev
InsertBetween(l, e, at, n) ==
  [[[l EXCEPT ![at].next = e] EXCEPT ![e] = [next |-> n, prev |-> at]] EXCEPT ![n].prev = e]
InsertAfter(l, e, at) == InsertBetween(l, e, at, l[at].next)
InsertBefore(l, e, mark) == InsertAfter(l, e, l[mark].prev)
PushFront(l, e) == InsertAfter(l, e, ListRoot)
Unlink(l, e, p, n) == [[[l EXCEPT ![p].next = n] EXCEPT ![n].prev = p] EXCEPT ![e] = Unlinked]
RemoveFromList(l, e) == IF l[e].next = NilEntry THEN l ELSE Unlink(l, e, l[e].prev, l[e].next)
MoveToFront(l, e) == IF l[ListRoot].next = e THEN l ELSE PushFront(RemoveFromList(l, e), e)

CacheInit ==
  /\ links = EmptyList([e \in Nodes |-> Unlinked])
  /\ hmap = NoEntries
  /\ val = NoEntries
  /\ policy \in {"LRU", "FIFO", "None"}
  /\ purged = <<>> /\ order = <<>>

\* access
Accessed(l, e) == IF policy = "LRU" THEN MoveToFront(l, e) ELSE l

\* removeElement: from the list and, by its key, from the store.
StoreDel(h, e) == [k \in DOMAIN h \ {CacheKey[e]} |-> h[k]]
RemoveElement(c, e) ==
  [links |-> RemoveFromList(c.links, e), hmap |-> StoreDel(c.hmap, e), out |-> Append(c.out, e)]

\* evict, as often as it finds something to evict.  The mutant evicts once.
ShouldEvict(size, v) == size > MaxSize \/ v \in ExpiredValue
MayEvict(c, vals) ==
  /\ policy # "None"
  /\ DOMAIN c.hmap # {}
  /\ ShouldEvict(Cardinality(DOMAIN c.hmap), vals[Back(c.links)])
RemoveBack(c) == RemoveElement(c, Back(c.links))
Evictions(c) ==
  LET After[n \in 0 .. Cardinality(DOMAIN c.hmap)] == IF n = 0 THEN c ELSE RemoveBack(After[n - 1])
  IN After
EvictAll(c, vals) ==
  LET after == Evictions(c)
  IN after[CHOOSE n \in 0 .. Cardinality(DOMAIN c.hmap) :
             ~MayEvict(after[n], vals) /\ \A m \in 0 .. n - 1 : MayEvict(after[m], vals)]
EvictOnce(c, vals) == IF MayEvict(c, vals) THEN RemoveBack(c) ELSE c
Evicted(c, vals) == EvictAll(c, vals)

\* The entries that pointers p lead to from the root until they are back there.
Steps(p) ==
  LET After[n \in 0 .. Cardinality(CacheEntry) + 1] == IF n = 0 THEN ListRoot ELSE p[After[n - 1]]
  IN After
Walk(p) ==
  LET after == Steps(p)
      len == CHOOSE n \in 0 .. Cardinality(CacheEntry) :
               after[n + 1] = ListRoot /\ \A m \in 1 .. n : after[m] # ListRoot
  IN [i \in 1 .. len |-> after[i]]
Forwards(l) == Walk([e \in Nodes |-> l[e].next])
Backwards(l) == Walk([e \in Nodes |-> l[e].prev])

Becomes(c, vals) ==
  /\ links' = c.links /\ hmap' = c.hmap /\ purged' = c.out
  /\ order' = Forwards(c.links)
  /\ val' = [e \in {c.hmap[k] : k \in DOMAIN c.hmap} |-> vals[e]]
  /\ UNCHANGED policy
State(l, h) == [links |-> l, hmap |-> h, out |-> <<>>]
InCache(e) == CacheKey[e] \in DOMAIN hmap /\ hmap[CacheKey[e]] = e

\* add, of Add, AddEntry and AddEntryAfter: after is nil, or an entry of the cache;
\* where the key is there already, it does not matter.
StoreAdd(h, e) == [k \in DOMAIN h \cup {CacheKey[e]} |-> IF k = CacheKey[e] THEN e ELSE h[k]]
WithValue(e, v) == [x \in DOMAIN val \cup {e} |-> IF x = e THEN v ELSE val[x]]
AddToCache(e, v, after) ==
  /\ after # NilEntry => InCache(after) /\ CacheKey[e] \notin DOMAIN hmap
  /\ IF CacheKey[e] \in DOMAIN hmap
     THEN Becomes(State(Accessed(links, hmap[CacheKey[e]]), hmap), WithValue(hmap[CacheKey[e]], v))
     ELSE Becomes(Evicted(State(IF after = NilEntry THEN PushFront(links, e)
                                ELSE InsertBefore(links, e, after), StoreAdd(hmap, e)),
                          WithValue(e, v)), WithValue(e, v))

\* Get of a key that is there, and MoveToEnd of its entry.
GetFromCache(k) == k \in DOMAIN hmap /\ Becomes(State(Accessed(links, hmap[k]), hmap), val)
MoveToEnd(e) == InCache(e) /\ Becomes(State(MoveToFront(links, e), hmap), val)

\* GetOverlaps of an IntervalCache, with keys from..to: every match is accessed.
Accesses(from, to) ==
  LET After[n \in 0 .. to - from + 1] ==
        IF n = 0 THEN links
        ELSE IF from + n - 1 \in DOMAIN hmap THEN Accessed(After[n - 1], hmap[from + n - 1])
        ELSE After[n - 1]
  IN After
GetOverlaps(from, to) == Becomes(State(Accesses(from, to)[to - from + 1], hmap), val)

\* Del and DelEntry
DelFromCache(e) == InCache(e) /\ Becomes(RemoveElement(State(links, hmap), e), val)

\* Clear reports every entry from the back.  The entries keep their links.
ClearCache ==
  Becomes([links |-> EmptyList(links), hmap |-> NoEntries, out |-> Backwards(links)], val)

CacheKeys == {CacheKey[e] : e \in CacheEntry}
CacheNext ==
  \/ \E e \in CacheEntry, v \in CacheValue, after \in CacheEntry \cup {NilEntry} : AddToCache(e, v, after)
  \/ \E k \in CacheKeys : GetFromCache(k)
  \/ \E from, to \in CacheKeys : from <= to /\ GetOverlaps(from, to)
  \/ \E e \in CacheEntry : MoveToEnd(e) \/ DelFromCache(e)
  \/ ClearCache
CacheSpec == CacheInit /\ [][CacheNext]_cacheVars

-----------------------------------------------------------------------------
\* The cache is a queue by age or by last use, from which add evicts all that may
\* be evicted and OnEvicted is called once for every entry that leaves, in order.
Promised == INSTANCE EvictionQueue WITH
  Entry <- CacheEntry, KeyOf <- CacheKey, Value <- CacheValue, Expired <- ExpiredValue,
  queue <- order, value <- val
EvictsInOrder == Promised!Spec
=============================================================================
