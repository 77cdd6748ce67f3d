---------------------------- MODULE IntMapProofs ----------------------------
(***************************************************************************)
(* Proofs about IntMap, for every set of goroutines and values and every   *)
(* finite set of keys: its two parts always agree as the comments of its   *)
(* fields say, and it implements LinearMap.  IntMapState has the invariant, *)
(* IntMapSteps most of the steps; here are the sections under the mutex that *)
(* promote the dirty part or add a key, and the theorems.                  *)
(***************************************************************************)
EXTENDS IntMapSteps, FiniteSetTheorems, TLAPS

-----------------------------------------------------------------------------
\* The sections under the mutex.  The dirty part becomes the read-only one, after an
\* entry was written or not, in missLocked and in Range.
LEMMA Promotes ==
  ASSUME NEW o, IInv(o), NEW g \in MapUser, mutex = Unlocked, dirty # NoDirty, NEW u, NEW c, NEW h,
         Table(o, mread, dirty, h, {}), Moves(o, mread, entry, mread, h, Now(mread, dirty, h)),
         u.pc \notin {"write", "copy"}, c.pc = "pending" => IsPending(c),
         UserOK(o, u, Noting(c, Now(mread, dirty, h)), [m |-> dirty, amended |-> FALSE], NoDirty, h),
         Steps(g, u, c, [m |-> dirty, amended |-> FALSE], NoDirty, 0, h, mutex)
  PROVE  Settles(o, g, c, Now(mread, dirty, h))
PROOF
<1> DEFINE s == [m |-> dirty, amended |-> FALSE]
           now == Now(mread, dirty, h)
<1>1. s = [m |-> s.m, amended |-> s.amended] /\ s.amended = FALSE /\ s.amended \in BOOLEAN
  BY Zenon
<1>2. 0 \in 0..Cardinality(MapKey)
  BY IntMapAssumption, FS_CardinalityType
<1> HIDE DEF s
<1>3. Table(o, s, NoDirty, h, {}) /\ Now(s, NoDirty, h) = now /\ Moves(o, mread, h, s, h, now)
  BY PromoteTable DEF s
<1> HIDE DEF now
<1>4. Moves(o, mread, entry, s, h, now)
  BY <1>3, MovesTwice, Zenon DEF now
<1>5. UserOK(o, u, Noting(c, now), s, NoDirty, h) /\ Steps(g, u, c, s, NoDirty, 0, h, mutex)
  BY Zenon DEF s, now
<1>6. o \in [Nat -> MapKey \cup {NoValue}] /\ g # Unlocked
  BY Facts, Zenon
<1>7. LockOK(o, o, g, u, c, s, NoDirty, 0, h, mutex)
  BY <1>1, <1>2, <1>3, <1>4, <1>5, <1>6, Zenon DEF LockOK
<1>8. Settles(o, g, c, Now(s, NoDirty, h))
  BY <1>5, <1>7, LockStep, Zenon
<1> QED BY <1>3, <1>8, Zenon DEF now

\* missLocked counts a miss, or promotes the dirty part.
LEMMA MissSettles ==
  ASSUME NEW o, IInv(o), NEW g \in MapUser, mutex = Unlocked, dirty # NoDirty, NEW u, NEW c, NEW h,
         Table(o, mread, dirty, h, {}), Moves(o, mread, entry, mread, h, Now(mread, dirty, h)),
         u.pc \notin {"write", "copy"}, c.pc = "pending" => IsPending(c),
         \A r, d : UserOK(o, u, Noting(c, Now(mread, dirty, h)), r, d, h),
         Miss([user |-> [user EXCEPT ![g] = u], call |-> [call EXCEPT ![g] = c]], h)
  PROVE  Settles(o, g, c, Now(mread, dirty, h))
PROOF
<1> DEFINE now == Now(mread, dirty, h)
<1>1. CASE misses + 1 < Cardinality(DOMAIN dirty)
  <2>1. Steps(g, u, c, mread, dirty, misses + 1, h, mutex)
    BY <1>1, Zenon DEF Miss, Steps
  <2>2. misses + 1 \in 0..Cardinality(MapKey)
    <3>1. DOMAIN dirty \subseteq MapKey
      BY Zenon DEF Table, IsEntryMap
    <3>2. Cardinality(DOMAIN dirty) <= Cardinality(MapKey) /\ Cardinality(MapKey) \in Nat
          /\ Cardinality(DOMAIN dirty) \in Nat
      BY <3>1, IntMapAssumption, FS_Subset, FS_CardinalityType, Zenon
    <3>3. misses \in 0..Cardinality(MapKey)
      BY FreeFacts, Zenon
    <3> QED BY <3>2, <3>3, <1>1
  <2>3. /\ mread = [m |-> mread.m, amended |-> mread.amended] /\ mread.amended \in BOOLEAN
        /\ mread.amended <=> dirty # NoDirty
    BY FreeFacts, Zenon
  <2>4. o \in [Nat -> MapKey \cup {NoValue}] /\ g # Unlocked
    BY Facts, Zenon
  <2>5. UserOK(o, u, Noting(c, now), mread, dirty, h)
    BY Zenon
  <2>6. LockOK(o, o, g, u, c, mread, dirty, misses + 1, h, mutex)
    BY <2>2, <2>3, <2>4, <2>5, Zenon DEF LockOK
  <2> QED BY <2>1, <2>6, LockStep, Zenon
<1>2. CASE ~(misses + 1 < Cardinality(DOMAIN dirty))
  <2>1. Steps(g, u, c, [m |-> dirty, amended |-> FALSE], NoDirty, 0, h, mutex)
    BY <1>2, Zenon DEF Miss, Steps
  <2>2. UserOK(o, u, Noting(c, now), [m |-> dirty, amended |-> FALSE], NoDirty, h)
    BY Zenon
  <2> QED BY <2>1, <2>2, Promotes, Zenon
<1> QED BY <1>1, <1>2, Zenon

\* Range under the mutex, and without it.
LEMMA StartRangeInv ==
  ASSUME NEW o, IInv(o), NEW g \in MapUser, StartRange(g)
  PROVE  IntMapInv' /\ Implements
PROOF
<1> DEFINE c == call[g]
<1>1. user[g].pc \in {"read", "lock"} /\ c.op = "Range"
  BY Zenon DEF StartRange
<1>2. c.pc = "pending" /\ IsPending(c) /\ mutex # g /\ SeenNow(c, content) /\ IsNow(content)
      /\ UserOK(o, user[g], c, mread, dirty, entry) /\ content = Now(mread, dirty, entry)
  BY <1>1, Facts, Zenon
<1>3. CASE mread.amended /\ user[g].pc = "read"
  <2>1. Only(Continue(g, "lock", NoEntry))
    BY <1>3, Zenon DEF StartRange
  <2> QED BY <2>1, <1>3, GoesToLock, Zenon
<1>4. CASE ~mread.amended
  <2>1. Only(Goes(g, [user[g] EXCEPT !.pc = "range", !.todo = mread.m]))
    BY <1>4, Zenon DEF StartRange
  <2> QED BY <2>1, <1>1, <1>4, BeginsRange, Zenon
<1>5. CASE mread.amended /\ user[g].pc = "lock"
  <2> DEFINE s == [m |-> dirty, amended |-> FALSE]
             u == [user[g] EXCEPT !.pc = "range", !.todo = dirty]
  <2>1. mutex = Unlocked /\ Become(s, NoDirty, 0, entry, mutex, Goes(g, u))
    BY <1>5, Zenon DEF StartRange
  <2>2. dirty # NoDirty /\ Table(o, mread, dirty, entry, {})
    BY <2>1, <1>5, FreeFacts, Zenon
  <2>3. IsLocal(u, "range", NoEntry, dirty, NoKeys)
    <3>1. IsLocal(u, "range", user[g].e, dirty, user[g].found)
      BY <1>2, Locals, Zenon DEF UserOK
    <3> QED BY <3>1, <1>1, <1>2, Zenon DEF UserOK
  <2>4. s.m = dirty
    BY Zenon
  <2> HIDE DEF u, s
  <2>5. Steps(g, u, c, s, NoDirty, 0, entry, mutex)
    BY <2>1, GoesSteps, Zenon
  <2>6. Table(o, s, NoDirty, entry, {}) /\ Now(s, NoDirty, entry) = content
    BY <2>2, <1>2, PromoteTable DEF s
  <2>7. IsEntryMap(dirty) /\ \A k \in DOMAIN dirty : dirty[k] \in DOMAIN entry /\ o[dirty[k]] = k
    BY <2>4, <2>6, Zenon DEF Table
  <2>8. \A k \in MapKey : (IF k \in DOMAIN dirty THEN PointsTo(entry[dirty[k]]) ELSE NoValue) \in c.seen[k]
    <3> TAKE k \in MapKey
    <3>1. content[k] \in c.seen[k]
      BY <1>1, <1>2, PendingCall, Zenon DEF SeenNow
    <3>2. content[k] = IF k \in DOMAIN dirty THEN PointsTo(entry[dirty[k]]) ELSE NoValue
      BY <2>4, <2>6, NowIs, Zenon DEF DirtyKeys
    <3> QED BY <3>1, <3>2, Zenon
  <2>9. Ranging(o, u, c, entry)
    BY <1>1, <2>3, <2>7, <2>8, EntryMaps, Zenon DEF Ranging, IsLocal
  <2>10. UserOK(o, u, c, s, NoDirty, entry) /\ u.pc = "range"
    BY <1>2, <2>3, <2>9, RangeOK, Zenon DEF IsLocal
  <2>11. Noting(c, content) = c
    BY <1>2, NotingAgain, Zenon
  <2>12. Settles(o, g, c, content)
    BY <2>1, <2>2, <2>5, <2>10, <2>11, <1>2, MovesNothing, Promotes, Zenon DEF s
  <2> QED BY <2>12, SettlesInv, Idle, Zenon
<1> QED BY <1>1, <1>3, <1>4, <1>5, Zenon

\* The section of Load.
LEMMA LoadLockedInv ==
  ASSUME NEW o, IInv(o), NEW g \in MapUser, user[g].pc = "lock", mutex = Unlocked, LoadLocked(g)
  PROVE  IntMapInv' /\ Implements
PROOF
<1> DEFINE c == call[g]
           k == c.key
<1>1. c.op = "Load"
  BY Zenon DEF LoadLocked
<1>2. c.pc = "pending" /\ IsPending(c) /\ mutex # g /\ SeenNow(c, content) /\ IsNow(content)
      /\ UserOK(o, user[g], c, mread, dirty, entry) /\ content = Now(mread, dirty, entry)
  BY Facts, Zenon
<1>3. k \in MapKey /\ k \in DOMAIN c.seen
  BY <1>1, <1>2, PendingCall, Zenon
<1>4. Table(o, mread, dirty, entry, {}) /\ (mread.amended <=> dirty # NoDirty)
  BY FreeFacts, Zenon
<1>5. CASE Hit(g)
  <2>1. Only(Continue(g, "entry", mread.m[k]))
    BY <1>5, Zenon DEF LoadLocked
  <2> QED BY <2>1, <1>1, <1>5, HitEntry, Zenon
<1>6. CASE ~Hit(g) /\ ~mread.amended
  <2>1. Only(NothingThere(g))
    BY <1>6, Zenon DEF LoadLocked
  <2>2. content[k] = NoValue
    BY <1>3, <1>6, NotThere, Zenon DEF Hit
  <2>3. PICK res \in Linear!Answers(c) : NothingThere(g) = Returned(g, res)
    BY <1>1, <1>2, <2>2, NothingIsThere, Zenon
  <2> QED BY <1>2, <2>1, <2>3, IsAnswered, Zenon
<1>7. CASE ~Hit(g) /\ mread.amended /\ InDirty(k)
  <2> DEFINE e == dirty[k]
             u == [user[g] EXCEPT !.pc = "entry", !.e = e]
  <2>1. Miss(Goes(g, u), entry)
    BY <1>7, Zenon DEF LoadLocked, Continue
  <2>2. IsLocal(u, "entry", e, NoKeys, NoKeys)
    <3>1. IsLocal(u, "entry", e, user[g].todo, user[g].found)
      BY <1>2, Locals, Zenon DEF UserOK
    <3> QED BY <3>1, <1>2, Zenon DEF UserOK
  <2> HIDE DEF u
  <2>3. Goes(g, u) = [user |-> [user EXCEPT ![g] = u], call |-> [call EXCEPT ![g] = c]]
    <3>1. [call EXCEPT ![g] = c] = call
      BY Facts, Zenon
    <3> QED BY <3>1, Zenon DEF Goes
  <2>4. k \in DirtyKeys(dirty) /\ k \notin DOMAIN mread.m
    BY <1>7, Zenon DEF InDirty, DirtyKeys, Hit
  <2>5. e \in DOMAIN entry /\ o[e] = k /\ content[k] = PointsTo(entry[e])
    BY <1>2, <1>3, <1>4, <2>4, InTable, NowIs
  <2>6. PointsTo(entry[e]) \in c.seen[k]
    BY <1>2, <1>3, <2>5, Zenon DEF SeenNow
  <2>7. \A r, d : UserOK(o, u, c, r, d, entry)
    <3> TAKE r, d
    <3>1. AtEntry(o, u, c, r, entry)
      BY <1>1, <2>2, <2>5, <2>6, Zenon DEF AtEntry, IsLocal
    <3> QED BY <3>1, <1>2, <2>2, EntryOK, Zenon
  <2>8. Noting(c, content) = c /\ u.pc = "entry"
    BY <1>2, <2>2, NotingAgain, Zenon DEF IsLocal
  <2>9. Settles(o, g, c, content)
    BY <1>2, <1>4, <1>7, <2>1, <2>3, <2>7, <2>8, MovesNothing, MissSettles, Zenon
  <2> QED BY <2>9, SettlesInv, Idle, Zenon
<1>8. CASE ~Hit(g) /\ mread.amended /\ ~InDirty(k)
  <2>1. Miss(NothingThere(g), entry)
    BY <1>8, Zenon DEF LoadLocked
  <2>2. k \notin DirtyKeys(dirty) /\ k \notin DOMAIN mread.m
    BY <1>8, Zenon DEF InDirty, DirtyKeys, Hit
  <2>3. content[k] = NoValue
    BY <1>2, <1>3, <1>4, <2>2, NowIs
  <2>4. PICK res \in Linear!Answers(c) : NothingThere(g) = Returned(g, res)
    BY <1>1, <1>2, <2>3, NothingIsThere, Zenon
  <2> DEFINE t == [pc |-> "returning", res |-> res]
  <2>5. Miss([user |-> [user EXCEPT ![g] = Resting], call |-> [call EXCEPT ![g] = t]], entry)
    BY <2>1, <2>4, Zenon DEF Returned
  <2>6. Resting.pc = "rest" /\ t.pc # "pending" /\ \A r, d : UserOK(o, Resting, Noting(t, content), r, d, entry)
    BY RestingOK, Zenon
  <2> HIDE DEF t
  <2>7. Settles(o, g, t, content)
    BY <1>2, <1>4, <1>8, <2>5, <2>6, MovesNothing, MissSettles, Zenon
  <2> QED BY <1>2, <2>4, <2>7, SettlesInv, Answered, Zenon DEF t
<1> QED BY <1>5, <1>6, <1>7, <1>8, Zenon

\* Store and LoadOrStore under the mutex, for a key of the dirty part only.
LEMMA WriteDirtyInv ==
  ASSUME NEW o, IInv(o), NEW g \in MapUser, user[g].pc = "lock", mutex = Unlocked,
         call[g].op \in {"Store", "LoadOrStore"}, WriteDirty(g, call[g].key, call[g].val)
  PROVE  IntMapInv' /\ Implements
PROOF
<1> DEFINE c == call[g]
           k == c.key
           e == dirty[k]
           p == entry[e]
           v == c.val
<1>1. c.pc = "pending" /\ IsPending(c) /\ mutex # g /\ SeenNow(c, content)
      /\ content = Now(mread, dirty, entry)
  BY Facts, Zenon
<1>2. k \in MapKey /\ v \in MapValue
  BY <1>1, PendingCall, Zenon
<1>3. Table(o, mread, dirty, entry, {})
  BY FreeFacts, Zenon
<1>4. k \notin DOMAIN mread.m /\ dirty # NoDirty /\ k \in DirtyKeys(dirty)
  BY Zenon DEF WriteDirty, Hit, InDirty, DirtyKeys
<1>5. e = EntryOf(k, mread, dirty) /\ e # NoEntry /\ e \in DOMAIN entry
  BY <1>2, <1>3, <1>4, EntryOfKey
<1>6. p # Expunged
  BY <1>3, <1>4, Zenon DEF Table
<1>7. p \in Pointers /\ content[k] = PointsTo(p)
  BY <1>1, <1>2, <1>3, <1>4, <1>5, InTable, NowIs, SMTT(30)
<1>8. v \in Pointers /\ v # Expunged /\ PointsTo(v) = v
  BY <1>2, Pointing, Zenon DEF Pointers
<1>9. CASE c.op = "Store"
  <2>1. Write(e, v, Returned(g, Result("stored", NoKeys)))
    BY <1>9, Zenon DEF WriteDirty, Write, Stored
  <2>2. IntMapInv' /\ Linear!Change(g, k, v, Result("stored", NoKeys))
    BY <1>1, <1>2, <1>5, <1>6, <1>8, <2>1, WritesEntry, Zenon
  <2> QED BY <1>1, <1>9, <2>2, TakesEffect, Zenon
<1>10. CASE c.op = "LoadOrStore" /\ p = NilPtr
  <2> DEFINE res == Result("stored", [j \in {k} |-> v])
             t == [pc |-> "returning", res |-> res]
             w == [entry EXCEPT ![e] = v]
  <2>1. Miss(Returned(g, res), w)
    BY <1>10, Zenon DEF WriteDirty, Stored
  <2>2. Miss([user |-> [user EXCEPT ![g] = Resting], call |-> [call EXCEPT ![g] = t]], w)
    BY <2>1, Zenon DEF Returned
  <2>3. /\ Table(o, mread, dirty, w, {})
        /\ Now(mread, dirty, w) = [content EXCEPT ![k] = v]
        /\ Moves(o, mread, entry, mread, w, Now(mread, dirty, w))
    BY <1>1, <1>2, <1>3, <1>5, <1>6, <1>8, WriteTable, SMTT(30)
  <2> HIDE DEF w, res
  <2>4. /\ Resting.pc = "rest" /\ t.pc # "pending"
        /\ \A r, d : UserOK(o, Resting, Noting(t, Now(mread, dirty, w)), r, d, w)
    BY RestingOK, Zenon
  <2> HIDE DEF t
  <2>5. Settles(o, g, t, Now(mread, dirty, w))
    BY <1>4, <2>2, <2>3, <2>4, MissSettles, Zenon
  <2>6. Settles(o, g, t, [content EXCEPT ![k] = v])
    BY <2>3, <2>5, Zenon
  <2>7. Linear!Change(g, k, v, res)
    BY <1>2, <2>6, Changed, Zenon DEF t
  <2>8. content[k] = NoValue
    BY <1>7, <1>10, Pointing, Zenon
  <2> QED BY <1>1, <1>10, <2>5, <2>7, <2>8, SettlesInv, TakesEffect, Zenon DEF res
<1>11. CASE c.op = "LoadOrStore" /\ p # NilPtr
  <2> DEFINE res == Result("loaded", [j \in {k} |-> p])
             t == [pc |-> "returning", res |-> res]
  <2>1. Miss(Returned(g, res), entry)
    BY <1>11, Zenon DEF WriteDirty, Found
  <2>2. Miss([user |-> [user EXCEPT ![g] = Resting], call |-> [call EXCEPT ![g] = t]], entry)
    BY <2>1, Zenon DEF Returned
  <2>3. p \in MapValue /\ PointsTo(p) = p /\ p # NoValue
    BY <1>6, <1>7, <1>11, Pointing, Zenon
  <2>4. p \in c.seen[k]
    BY <1>1, <1>7, <1>11, <2>3, PendingCall, Zenon DEF SeenNow
  <2>5. res \in Linear!Answers(c)
    BY <1>1, <1>11, <2>3, <2>4, AnswersAre, Zenon
  <2> HIDE DEF res
  <2>6. /\ Resting.pc = "rest" /\ t.pc # "pending"
        /\ \A r, d : UserOK(o, Resting, Noting(t, content), r, d, entry)
    BY RestingOK, Zenon
  <2> HIDE DEF t
  <2>7. Settles(o, g, t, content)
    BY <1>1, <1>3, <1>4, <2>2, <2>6, MovesNothing, MissSettles, Zenon
  <2> QED BY <1>1, <2>5, <2>7, SettlesInv, Answered, Zenon DEF t
<1> QED BY <1>9, <1>10, <1>11, Zenon

\* newEntry is an entry of its own.
LEMMA NewEntryIsNew ==
  ASSUME IsHeap(entry)
  PROVE  NewEntry \in Address /\ NewEntry \notin DOMAIN entry
PROOF
<1> DEFINE n == Cardinality(DOMAIN entry)
<1>1. IsFiniteSet(DOMAIN entry) /\ n \in Nat
  <2>1. PICK i \in Nat : \A x \in DOMAIN entry : x <= i
    BY Zenon DEF IsHeap, Bounded
  <2>2. DOMAIN entry \subseteq Nat
    BY Zenon DEF IsHeap, Address
  <2> QED BY <2>1, <2>2, FS_BoundedSetOfNaturals, FS_CardinalityType, ZenonT(60)
<1>2. IsFiniteSet(1..n + 1) /\ Cardinality(1..n + 1) = n + 1
  BY <1>1, FS_Interval
<1>3. ~(1..n + 1 \subseteq DOMAIN entry)
  <2> SUFFICES ASSUME 1..n + 1 \subseteq DOMAIN entry
               PROVE  FALSE
    BY Zenon
  <2>1. Cardinality(1..n + 1) <= n
    BY <1>1, FS_Subset, Zenon
  <2> QED BY <1>1, <1>2, <2>1
<1>4. \E e \in 1..n + 1 : e \notin DOMAIN entry
  BY <1>3, Zenon
<1>5. NewEntry \in 1..n + 1 /\ NewEntry \notin DOMAIN entry
  BY <1>4, Zenon DEF NewEntry
<1> QED BY <1>1, <1>5 DEF Address, NoEntry

\* A new key, when there is a dirty part and nothing is left to copy.
LEMMA AddKeyInv ==
  ASSUME NEW o, IInv(o), NEW g \in MapUser, call[g].pc = "pending", call[g].op \in {"Store", "LoadOrStore"},
         mutex \in {Unlocked, g}, Table(o, mread, dirty, entry, {}), dirty # NoDirty,
         call[g].key \notin DOMAIN mread.m, call[g].key \notin DOMAIN dirty,
         AddKey(g, call[g].key, call[g].val, NewEntry, Unlocked)
  PROVE  IntMapInv' /\ Implements
PROOF
<1> DEFINE c == call[g]
           k == c.key
           v == c.val
           e == NewEntry
           n == [o EXCEPT ![e] = k]
           s == [m |-> mread.m, amended |-> TRUE]
           b == With(dirty, k, e)
           w == With(entry, e, v)
           res == Result("stored", IF c.op = "Store" THEN NoKeys ELSE [j \in {k} |-> v])
           t == [pc |-> "returning", res |-> res]
<1>0. k \notin DOMAIN mread.m /\ k \notin DOMAIN dirty
  BY Zenon
<1>1. IsPending(c) /\ content = Now(mread, dirty, entry)
      /\ o \in [Nat -> MapKey \cup {NoValue}] /\ g # Unlocked
  BY Facts, Zenon DEF UserOK
<1>2. k \in MapKey /\ v \in MapValue
  BY <1>1, PendingCall, Zenon
<1>3. misses \in 0..Cardinality(MapKey) /\ IsHeap(entry)
  BY Zenon DEF IInv, State, Table
<1>4. e \in Address /\ e \notin DOMAIN entry
  BY <1>3, NewEntryIsNew, Zenon
<1>5. Become(s, b, misses, w, Unlocked, Returned(g, res))
  BY Zenon DEF AddKey, Stored
<1> HIDE DEF e
<1>6. Steps(g, Resting, t, s, b, misses, w, Unlocked)
  BY <1>5, ReturnedSteps, Zenon
<1>7. s = [m |-> s.m, amended |-> s.amended] /\ s.amended = TRUE /\ s.amended \in BOOLEAN
  BY Zenon
<1>8. /\ Table(n, s, b, w, {}) /\ Now(s, b, w) = [content EXCEPT ![k] = v]
      /\ n \in [Nat -> MapKey \cup {NoValue}] /\ (\A x \in DOMAIN entry : n[x] = o[x])
      /\ b # NoDirty
      /\ \A now : Moves(o, mread, entry, s, w, now)
  <2> HIDE DEF k, v
  <2>1. /\ Table(n, s, b, w, {}) /\ Now(s, b, w) = [Now(mread, dirty, entry) EXCEPT ![k] = v]
        /\ n \in [Nat -> MapKey \cup {NoValue}] /\ (\A x \in DOMAIN entry : n[x] = o[x])
        /\ b # NoDirty
        /\ \A now : Moves(o, mread, entry, s, w, now)
    BY <1>1, <1>2, <1>4, <1>0, AddTable, Zenon
  <2> HIDE DEF n, s, b, w
  <2> QED BY <1>1, <2>1, Zenon
<1> HIDE DEF n, s, b, w, res
<1>9. /\ Resting.pc = "rest" /\ t.pc # "pending"
      /\ UserOK(n, Resting, Noting(t, Now(s, b, w)), s, b, w)
  BY RestingOK, Zenon
<1> HIDE DEF t
<1>10. LockOK(o, n, g, Resting, t, s, b, misses, w, Unlocked)
  BY <1>1, <1>3, <1>7, <1>8, <1>9, Zenon DEF LockOK
<1>11. Settles(n, g, t, Now(s, b, w))
  BY <1>6, <1>10, LockStep, Zenon
<1>12. Settles(n, g, t, [content EXCEPT ![k] = v])
  BY <1>8, <1>11, Zenon
<1>13. Linear!Change(g, k, v, res)
  BY <1>2, <1>12, Changed, Zenon DEF t
<1>14. content[k] = NoValue
  BY <1>1, <1>2, NowIs DEF DirtyKeys
<1>15. Implements
  <2>1. CASE c.op = "Store"
    <3>1. res = Result("stored", NoKeys)
      BY <2>1, Zenon DEF res
    <3> QED BY <2>1, <3>1, <1>13, TakesEffect, Zenon
  <2>2. CASE c.op = "LoadOrStore"
    <3>1. res = Result("stored", [j \in {k} |-> v])
      BY <2>2, Zenon DEF res
    <3> QED BY <2>2, <3>1, <1>13, <1>14, TakesEffect, Zenon
  <2> QED BY <2>1, <2>2, Zenon
<1> QED BY <1>11, <1>15, SettlesInv, Zenon

\* A new key when there is a dirty part already.
LEMMA AddToDirtyInv ==
  ASSUME NEW o, IInv(o), NEW g \in MapUser, user[g].pc = "lock", mutex = Unlocked,
         call[g].op \in {"Store", "LoadOrStore"}, AddToDirty(g, call[g].key, call[g].val)
  PROVE  IntMapInv' /\ Implements
PROOF
<1>1. call[g].pc = "pending"
  BY Facts, Zenon
<1>2. Table(o, mread, dirty, entry, {}) /\ dirty # NoDirty
  BY FreeFacts, Zenon DEF AddToDirty
<1>3. call[g].key \notin DOMAIN mread.m /\ call[g].key \notin DOMAIN dirty
  BY <1>2, Zenon DEF AddToDirty, Hit, InDirty
<1>4. AddKey(g, call[g].key, call[g].val, NewEntry, Unlocked)
  BY Zenon DEF AddToDirty
<1> QED BY <1>1, <1>2, <1>3, <1>4, AddKeyInv, Zenon

\* A new key after the read-only part was copied.
LEMMA EndDirtyInv ==
  ASSUME NEW o, IInv(o), NEW g \in MapUser, EndDirty(g)
  PROVE  IntMapInv' /\ Implements
PROOF
<1>1. user[g].pc = "copy" /\ user[g].todo = NoKeys
  BY Zenon DEF EndDirty
<1>2. call[g].pc = "pending" /\ mutex = g /\ g # Unlocked /\ Copying(user[g], call[g], mread, dirty)
  BY <1>1, Facts, Zenon DEF UserOK
<1>3. Table(o, mread, dirty, entry, {})
  <2>1. Table(o, mread, dirty, entry, ToCopy(mutex, user))
    BY Facts, Zenon
  <2>2. ToCopy(mutex, user) = {}
    BY <1>1, <1>2, EntryMaps, Zenon DEF ToCopy
  <2> QED BY <2>1, <2>2, Zenon
<1>4. /\ call[g].op \in {"Store", "LoadOrStore"} /\ dirty # NoDirty
      /\ call[g].key \notin DOMAIN mread.m /\ call[g].key \notin DOMAIN dirty
  BY <1>2, Zenon DEF Copying
<1>5. AddKey(g, call[g].key, call[g].val, NewEntry, Unlocked)
  BY Zenon DEF EndDirty
<1> QED BY <1>2, <1>3, <1>4, <1>5, AddKeyInv, Zenon

-----------------------------------------------------------------------------
\* The steps of MapLocked, all under the mutex.
LEMMA MapLockedInv ==
  ASSUME NEW o, IInv(o), NEW g \in MapUser, MapLocked(g)
  PROVE  IntMapInv' /\ Implements
PROOF
<1>1. user[g].pc = "lock" /\ mutex = Unlocked
  BY Zenon DEF MapLocked
<1>2. CASE LoadLocked(g)
  BY <1>1, <1>2, LoadLockedInv, Zenon
<1>3. CASE DeleteLocked(g)
  BY <1>1, <1>3, DeleteLockedInv, Zenon
<1>4. CASE call[g].op \in {"Store", "LoadOrStore"} /\ Hit(g)
           /\ Unexpunge(g, call[g].key, mread.m[call[g].key])
  BY <1>1, <1>4, UnexpungeInv, Zenon
<1>5. CASE call[g].op \in {"Store", "LoadOrStore"} /\ WriteDirty(g, call[g].key, call[g].val)
  BY <1>1, <1>5, WriteDirtyInv, Zenon
<1>6. CASE call[g].op \in {"Store", "LoadOrStore"} /\ AddToDirty(g, call[g].key, call[g].val)
  BY <1>1, <1>6, AddToDirtyInv, Zenon
<1>7. CASE call[g].op \in {"Store", "LoadOrStore"} /\ StartDirty(g, call[g].key, call[g].val)
  BY <1>1, <1>7, StartDirtyInv, Zenon
<1> QED BY <1>2, <1>3, <1>4, <1>5, <1>6, <1>7, Zenon DEF MapLocked

\* Every step keeps the invariant, and is a step of LinearMap or changes nothing there.
LEMMA StepInv ==
  ASSUME IntMapInv, [IntMapNext]_imVars
  PROVE  IntMapInv' /\ Implements
PROOF
<1> PICK o \in [Nat -> MapKey \cup {NoValue}] : IInv(o)
  BY Zenon DEF IntMapInv
<1>1. CASE UNCHANGED imVars
  <2>1. IInv(o)'
    BY <1>1, Zenon DEF IInv, imVars
  <2> QED BY <1>1, <2>1, Zenon DEF IntMapInv, Implements, imVars
<1>2. CASE IntMapNext
  <2> PICK g \in MapUser :
        \/ \E r \in MapRequests : CallMap(g, r[1], r[2], r[3])
        \/ ReadFirst(g) \/ UseEntry(g) \/ MapLocked(g) \/ WriteLocked(g)
        \/ \E k \in DOMAIN user[g].todo : CopyEntry(g, k, user[g].todo[k]) \/ RangeEntry(g, k)
        \/ EndDirty(g) \/ StartRange(g) \/ EndRange(g) \/ ReturnFromMap(g)
    BY <1>2, Zenon DEF IntMapNext
  <2>1. CASE \E r \in MapRequests : CallMap(g, r[1], r[2], r[3])
    <3> PICK r \in MapRequests : CallMap(g, r[1], r[2], r[3])
      BY <2>1, Zenon
    <3>1. <<r[1], r[2], r[3]>> \in MapRequests
      BY DEF MapRequests
    <3> QED BY <3>1, CallMapInv, Zenon
  <2>2. CASE \E k \in DOMAIN user[g].todo : CopyEntry(g, k, user[g].todo[k]) \/ RangeEntry(g, k)
    BY <2>2, CopyEntryInv, RangeEntryInv, Zenon
  <2>3. CASE ReadFirst(g)
    BY <2>3, ReadFirstInv, Zenon
  <2>4. CASE UseEntry(g)
    BY <2>4, UseEntryInv, Zenon
  <2>5. CASE MapLocked(g)
    BY <2>5, MapLockedInv, Zenon
  <2>6. CASE WriteLocked(g)
    BY <2>6, WriteLockedInv, Zenon
  <2>7. CASE EndDirty(g)
    BY <2>7, EndDirtyInv, Zenon
  <2>8. CASE StartRange(g)
    BY <2>8, StartRangeInv, Zenon
  <2>9. CASE EndRange(g)
    BY <2>9, EndRangeInv, Zenon
  <2>10. CASE ReturnFromMap(g)
    BY <2>10, ReturnFromMapInv, Zenon
  <2> QED BY <2>1, <2>2, <2>3, <2>4, <2>5, <2>6, <2>7, <2>8, <2>9, <2>10, Zenon
<1> QED BY <1>1, <1>2, Zenon

\* The empty map satisfies it, and is the initial map of LinearMap.
LEMMA InitInv ==
  ASSUME IntMapInit
  PROVE  IntMapInv /\ Linear!Init
PROOF
<1> DEFINE o == [n \in Nat |-> NoValue]
<1>1. o \in [Nat -> MapKey \cup {NoValue}]
  BY Zenon
<1> HIDE DEF o
<1>2. /\ mread.m = NoKeys /\ mread.amended = FALSE
      /\ mread = [m |-> mread.m, amended |-> mread.amended]
      /\ dirty = NoDirty /\ entry = NoKeys /\ mutex = Unlocked /\ misses = 0
      /\ content = [k \in MapKey |-> NoValue]
  BY Zenon DEF IntMapInit
<1>3. IsEntryMap(NoKeys) /\ DOMAIN NoKeys = {} /\ DirtyKeys(NoDirty) = {}
  BY EntryMaps, Zenon DEF DirtyKeys
<1>4. IsHeap(NoKeys)
  <2>1. Bounded({})
    BY 0 \in Nat, Zenon DEF Bounded
  <2>2. NoKeys \in [{} -> Pointers]
    BY <1>3, Zenon DEF NoKeys
  <2> QED BY <1>3, <2>1, <2>2, Zenon DEF IsHeap
<1>5. Table(o, mread, dirty, entry, {})
  BY <1>2, <1>3, <1>4, Zenon DEF Table
<1>6. content = Now(mread, dirty, entry)
  <2>1. \A k \in MapKey : ContentOf(k, mread, dirty, entry) = NoValue
    BY <1>2, <1>3, Zenon DEF ContentOf, EntryOf
  <2> QED BY <1>2, <2>1, Zenon DEF Now
<1>7. ASSUME NEW g \in MapUser
      PROVE  /\ user[g] = Resting /\ call[g] = NoCall
             /\ UserOK(o, user[g], call[g], mread, dirty, entry)
             /\ user[g].pc = "rest" /\ call[g].pc # "pending"
  <2>1. user[g] = Resting /\ call[g] = NoCall
    BY Zenon DEF IntMapInit
  <2> QED BY <2>1, SMTT(30) DEF UserOK, Resting, NoCall
<1>8. user = [g \in MapUser |-> user[g]] /\ call = [g \in MapUser |-> call[g]]
  BY Zenon DEF IntMapInit
<1>9. Cardinality(MapKey) \in Nat
  BY IntMapAssumption, FS_CardinalityType, Zenon
<1>10. \A g \in MapUser : g # Unlocked
  BY IntMapAssumption, Zenon DEF Unlocked
<1>11. ToCopy(mutex, user) = {} /\ ~Copier(mutex, user)
  BY <1>2, Zenon DEF ToCopy, Copier
<1>12. State(o, mread, dirty, misses, entry, mutex, user, call)
  <2>1. misses \in 0..Cardinality(MapKey) /\ mutex \in MapUser \cup {Unlocked}
    BY <1>2, <1>9
  <2>2. mread.amended \in BOOLEAN /\ (mread.amended <=> dirty # NoDirty)
    BY <1>2, Zenon
  <2>3. \A g \in MapUser : /\ UserOK(o, user[g], call[g], mread, dirty, entry)
                           /\ mutex = g <=> user[g].pc \in {"write", "copy"}
    BY <1>2, <1>7, <1>10, Zenon
  <2> QED BY <1>2, <1>5, <1>8, <1>11, <2>1, <2>2, <2>3, Zenon DEF State
<1>13. IInv(o)
  BY <1>1, <1>6, <1>7, <1>12, Zenon DEF IInv, SeenNow
<1> QED BY <1>1, <1>13, Zenon DEF IntMapInv, IntMapInit, Linear!Init, Linear!NoCall, NoCall

\* The tables, the local variables of the goroutines and the history keep the relation
\* described at the top of IntMapState, through every interleaving.
THEOREM IntMapInvariant == IntMapSpec => []IntMapInv
PROOF
<1>1. IntMapInit => IntMapInv
  BY InitInv, Zenon
<1>2. IntMapInv /\ [IntMapNext]_imVars => IntMapInv'
  BY StepInv, Zenon
<1> QED BY <1>1, <1>2, PTL DEF IntMapSpec

\* PartsAgree always: whenever the mutex is free, the dirty part of IntMap is nil or
\* has the entries of the read-only part that are not expunged and no others of its
\* keys, amended says which, and the misses are not more than the keys.
THEOREM PartsAlwaysAgree == IntMapSpec => []PartsAgree
PROOF
<1>1. ASSUME IntMapInv
      PROVE  PartsAgree
  <2> SUFFICES ASSUME mutex = Unlocked
               PROVE  /\ misses \in 0..Cardinality(MapKey)
                      /\ mread.amended <=> dirty # NoDirty
                      /\ \A k \in DOMAIN mread.m :
                           IF dirty = NoDirty THEN entry[mread.m[k]] # Expunged
                           ELSE IF entry[mread.m[k]] = Expunged THEN k \notin DOMAIN dirty
                           ELSE k \in DOMAIN dirty /\ dirty[k] = mread.m[k]
    BY Zenon DEF PartsAgree
  <2> PICK o \in [Nat -> MapKey \cup {NoValue}] : IInv(o)
    BY <1>1, Zenon DEF IntMapInv
  <2>1. /\ Table(o, mread, dirty, entry, {}) /\ (mread.amended <=> dirty # NoDirty)
        /\ misses \in 0..Cardinality(MapKey)
    BY FreeFacts, Zenon
  <2>2. \A k \in DOMAIN mread.m : Agree(k, mread, dirty, entry, {})
    BY <2>1, Zenon DEF Table
  <2> QED BY <2>1, <2>2, Zenon DEF Agree
<1> QED BY <1>1, IntMapInvariant, PTL

\* Linearizable: IntMap implements LinearMap.  Every call of Load, Store, LoadOrStore,
\* Delete and Range takes effect at one instant between its start and its return, or
\* answers with what its keys held at such an instant, for any goroutines, keys and
\* values, and however the read-only part is replaced meanwhile.
THEOREM IsLinearizable == IntMapSpec => Linearizable
PROOF
<1>1. IntMapInit => Linear!Init
  BY InitInv, Zenon
<1>2. IntMapInv /\ [IntMapNext]_imVars => [Linear!Next]_(Linear!mapVars)
  BY StepInv, Zenon DEF Implements, Linear!mapVars
<1> QED BY <1>1, <1>2, IntMapInvariant, PTL DEF IntMapSpec, Linearizable, Linear!Spec
=============================================================================
