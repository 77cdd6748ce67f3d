---------------------------- MODULE IntMapState -----------------------------
(***************************************************************************)
(* The inductive invariant of IntMap, IInv, and what keeps its parts: what *)
(* each change of the tables does to them, what a goroutine that does not  *)
(* move loses by it, and when a step keeps the whole.                      *)
(*                                                                         *)
(* Three things are needed of a state.  The tables: every entry belongs to *)
(* one key for as long as anybody points to it (the function o), and the   *)
(* dirty part has the entries of the read-only part that are not expunged. *)
(* The goroutines: one that holds an entry it may write holds the entry of *)
(* its key, or an expunged one; what is in an entry that a goroutine is to *)
(* read was under its key at some instant of its call, also when the entry *)
(* has left the map.  The history: content is what the tables say.         *)
(***************************************************************************)
EXTENDS IntMap, TLAPS

-----------------------------------------------------------------------------
\* The tables: r and d are the two parts, h the pointers of the entries, and T the
\* keys that dirtyLocked has still to look at.
Pointers == MapValue \cup {NilPtr, Expunged}
Address == Nat \ {NoEntry}
IsEntryMap(f) == DOMAIN f \subseteq MapKey /\ f \in [DOMAIN f -> Address]
Bounded(S) == \E n \in Nat : \A x \in S : x <= n
IsHeap(h) == DOMAIN h \subseteq Address /\ Bounded(DOMAIN h) /\ h \in [DOMAIN h -> Pointers]
DirtyKeys(d) == IF d = NoDirty THEN {} ELSE DOMAIN d
Agree(k, r, d, h, T) ==
  IF d = NoDirty \/ k \in T THEN h[r.m[k]] # Expunged
  ELSE IF h[r.m[k]] = Expunged THEN k \notin DOMAIN d
  ELSE k \in DOMAIN d /\ d[k] = r.m[k]
Table(o, r, d, h, T) ==
  /\ IsEntryMap(r.m) /\ (d = NoDirty \/ IsEntryMap(d)) /\ IsHeap(h)
  /\ \A k \in DOMAIN r.m : r.m[k] \in DOMAIN h /\ o[r.m[k]] = k /\ Agree(k, r, d, h, T)
  /\ \A k \in DirtyKeys(d) : d[k] \in DOMAIN h /\ o[d[k]] = k /\ h[d[k]] # Expunged
Now(r, d, h) == [k \in MapKey |-> ContentOf(k, r, d, h)]

\* A goroutine with the local variables u, in the call c.
Live(e, k, r, h) == h[e] = Expunged \/ (k \in DOMAIN r.m /\ r.m[k] = e)
AtEntry(o, u, c, r, h) ==
  /\ u.e \in DOMAIN h /\ o[u.e] = c.key /\ c.op # "Range"
  /\ c.op # "Load" => Live(u.e, c.key, r, h)
  /\ c.op # "Store" => PointsTo(h[u.e]) \in c.seen[c.key]
Writing(o, u, c, r, h) ==
  /\ u.e \in DOMAIN h /\ o[u.e] = c.key /\ c.op \in {"Store", "LoadOrStore"}
  /\ c.key \in DOMAIN r.m /\ r.m[c.key] = u.e /\ h[u.e] # Expunged
Copying(u, c, r, d) ==
  /\ c.op \in {"Store", "LoadOrStore"} /\ c.key \notin DOMAIN r.m /\ ~r.amended
  /\ IsEntryMap(u.todo) /\ DOMAIN u.todo \subseteq DOMAIN r.m
  /\ \A k \in DOMAIN u.todo : u.todo[k] = r.m[k]
  /\ d # NoDirty /\ DOMAIN d \subseteq DOMAIN r.m \ DOMAIN u.todo
Ranging(o, u, c, h) ==
  /\ c.op = "Range" /\ IsEntryMap(u.todo)
  /\ \A k \in DOMAIN u.todo : u.todo[k] \in DOMAIN h /\ o[u.todo[k]] = k
  /\ \A k \in MapKey : (IF k \in DOMAIN u.todo THEN PointsTo(h[u.todo[k]])
                        ELSE IF k \in DOMAIN u.found THEN u.found[k] ELSE NoValue) \in c.seen[k]

IsPending(c) ==
  /\ c = [pc |-> "pending", op |-> c.op, key |-> c.key, val |-> c.val, seen |-> c.seen]
  /\ <<c.op, c.key, c.val>> \in MapRequests
  /\ c.seen \in [Watched(c.op, c.key) -> SUBSET (MapValue \cup {NoValue})]
UserOK(o, u, c, r, d, h) ==
  /\ DOMAIN u = {"pc", "e", "todo", "found"}
  /\ u.pc \in {"rest", "read", "lock", "entry", "write", "copy", "range"}
  /\ u.pc = "rest" <=> c.pc # "pending"
  /\ c.pc = "pending" => IsPending(c)
  /\ u.pc \notin {"entry", "write"} => u.e = NoEntry
  /\ u.pc \notin {"copy", "range"} => u.todo = NoKeys
  /\ u.pc # "range" => u.found = NoKeys
  /\ u.pc = "entry" => AtEntry(o, u, c, r, h)
  /\ u.pc = "write" => Writing(o, u, c, r, h)
  /\ u.pc = "copy" => Copying(u, c, r, d)
  /\ u.pc = "range" => Ranging(o, u, c, h)

\* The whole state.
Copier(mu, us) == mu # Unlocked /\ us[mu].pc = "copy"
ToCopy(mu, us) == IF mu = Unlocked THEN {} ELSE DOMAIN us[mu].todo
State(o, r, d, mi, h, mu, us, ca) ==
  /\ r = [m |-> r.m, amended |-> r.amended] /\ r.amended \in BOOLEAN
  /\ mi \in 0..Cardinality(MapKey)
  /\ Table(o, r, d, h, ToCopy(mu, us))
  /\ ~Copier(mu, us) => (r.amended <=> d # NoDirty)
  /\ mu \in MapUser \cup {Unlocked}
  /\ us = [g \in MapUser |-> us[g]] /\ ca = [g \in MapUser |-> ca[g]]
  /\ \A g \in MapUser : /\ UserOK(o, us[g], ca[g], r, d, h)
                        /\ mu = g <=> us[g].pc \in {"write", "copy"}
SeenNow(c, now) == c.pc = "pending" => \A k \in DOMAIN c.seen : now[k] \in c.seen[k]
IInv(o) ==
  /\ o \in [Nat -> MapKey \cup {NoValue}]
  /\ State(o, mread, dirty, misses, entry, mutex, user, call)
  /\ content = Now(mread, dirty, entry)
  /\ \A g \in MapUser : SeenNow(call[g], content)

-----------------------------------------------------------------------------
\* An entry map is never nil, and the map without keys is one.
LEMMA EntryMaps ==
  /\ \A f : IsEntryMap(f) => f # NoDirty
  /\ IsEntryMap(NoKeys) /\ DOMAIN NoKeys = {} /\ NoKeys # NoDirty
  /\ \A f : IsEntryMap(f) /\ DOMAIN f = {} => f = NoKeys
PROOF
<1>1. \A f : IsEntryMap(f) => f # NoDirty
  BY IntMapAssumption, Zenon DEF IsEntryMap, NoDirty
<1>2. IsEntryMap(NoKeys) /\ DOMAIN NoKeys = {}
  BY Zenon DEF IsEntryMap, NoKeys
<1>3. \A f : IsEntryMap(f) /\ DOMAIN f = {} => f = NoKeys
  BY Zenon DEF IsEntryMap, NoKeys
<1> QED BY <1>1, <1>2, <1>3, Zenon

\* A map with a key put in, and one with a key taken out.
IsWith(b, f, k, e) ==
  /\ IsEntryMap(b) /\ DOMAIN b = DOMAIN f \cup {k}
  /\ b[k] = e /\ \A j \in DOMAIN f : j # k => b[j] = f[j]
\* Adding a key to a part.
LEMMA WithKey ==
  ASSUME NEW f, IsEntryMap(f), NEW k \in MapKey, NEW e \in Address
  PROVE  IsWith(With(f, k, e), f, k, e)
PROOF BY Zenon DEF IsEntryMap, With, IsWith

\* Deleting a key from a part.
LEMMA WithoutKey ==
  ASSUME NEW f, IsEntryMap(f), NEW k
  PROVE  /\ IsEntryMap(Restrict(f, DOMAIN f \ {k}))
         /\ DOMAIN Restrict(f, DOMAIN f \ {k}) = DOMAIN f \ {k}
         /\ \A j \in DOMAIN f \ {k} : Restrict(f, DOMAIN f \ {k})[j] = f[j]
PROOF BY Zenon DEF IsEntryMap, Restrict

\* What a pointer stands for.
LEMMA Pointing ==
  /\ \A p : PointsTo(p) \in MapValue \cup {NoValue}
  /\ PointsTo(NilPtr) = NoValue /\ PointsTo(Expunged) = NoValue
  /\ \A v \in MapValue : PointsTo(v) = v /\ v # NoValue /\ v # NilPtr /\ v # Expunged
  /\ \A p \in Pointers : p # NilPtr /\ p # Expunged => p \in MapValue
  /\ NilPtr # Expunged
PROOF BY IntMapAssumption, Zenon DEF PointsTo, Pointers

\* The entry of a key, in tables of the right form.
LEMMA EntryOfKey ==
  ASSUME NEW o, NEW r, NEW d, NEW h, NEW T, Table(o, r, d, h, T), NEW k \in MapKey
  PROVE  /\ k \in DOMAIN r.m => EntryOf(k, r, d) = r.m[k] /\ EntryOf(k, r, d) # NoEntry
         /\ k \notin DOMAIN r.m /\ k \in DirtyKeys(d) =>
              EntryOf(k, r, d) = d[k] /\ EntryOf(k, r, d) # NoEntry
         /\ k \notin DOMAIN r.m /\ k \notin DirtyKeys(d) => EntryOf(k, r, d) = NoEntry
         /\ EntryOf(k, r, d) # NoEntry => EntryOf(k, r, d) \in DOMAIN h /\ o[EntryOf(k, r, d)] = k
PROOF
<1>1. IsHeap(h) /\ (\A j \in DOMAIN r.m : r.m[j] \in DOMAIN h /\ o[r.m[j]] = j)
      /\ (\A j \in DirtyKeys(d) : d[j] \in DOMAIN h /\ o[d[j]] = j)
  BY Zenon DEF Table
<1>2. NoEntry \notin DOMAIN h
  BY <1>1, Zenon DEF IsHeap, Address
<1> QED BY <1>1, <1>2, Zenon DEF EntryOf, DirtyKeys

\* Every entry is there and belongs to one key.
LEMMA InTable ==
  ASSUME NEW o, NEW r, NEW d, NEW h, NEW T, Table(o, r, d, h, T)
  PROVE  /\ \A k \in DOMAIN r.m : k \in MapKey /\ r.m[k] \in DOMAIN h /\ o[r.m[k]] = k
         /\ \A k \in DirtyKeys(d) : k \in MapKey /\ d[k] \in DOMAIN h /\ o[d[k]] = k
         /\ \A e \in DOMAIN h : e \in Address /\ e # NoEntry /\ h[e] \in Pointers
PROOF BY Zenon DEF Table, IsEntryMap, IsHeap, DirtyKeys, Address

\* What is under a key, read off the tables.
LEMMA NowIs ==
  ASSUME NEW o, NEW r, NEW d, NEW h, NEW T, Table(o, r, d, h, T), NEW k \in MapKey
  PROVE  Now(r, d, h)[k] = IF k \in DOMAIN r.m THEN PointsTo(h[r.m[k]])
                           ELSE IF k \in DirtyKeys(d) THEN PointsTo(h[d[k]]) ELSE NoValue
PROOF BY EntryOfKey DEF Now, ContentOf

\* What the tables say is a value or nothing for every key.
LEMMA NowTyped ==
  ASSUME NEW r, NEW d, NEW h
  PROVE  /\ Now(r, d, h) = [k \in MapKey |-> Now(r, d, h)[k]]
         /\ \A k \in MapKey : Now(r, d, h)[k] \in MapValue \cup {NoValue}
PROOF BY Pointing, Zenon DEF Now, ContentOf

\* What a step may do to the entries that others hold: one that may be written through
\* an entry stays so, and what is under a key changes only in the entry of the key.
Moves(o, r1, h1, r2, h2, now) ==
  \A e \in DOMAIN h1 :
    /\ e \in DOMAIN h2
    /\ Live(e, o[e], r1, h1) => Live(e, o[e], r2, h2)
    /\ PointsTo(h2[e]) = PointsTo(h1[e]) \/ PointsTo(h2[e]) = now[o[e]]

\* Tables that stay as they are move nothing under a goroutine.
LEMMA MovesNothing ==
  ASSUME NEW o, NEW r, NEW h, NEW now
  PROVE  Moves(o, r, h, r, h, now)
PROOF BY Zenon DEF Moves

\* Two changes, one after the other, move what the two together move.
LEMMA MovesTwice ==
  ASSUME NEW o, NEW r1, NEW h1, NEW r2, NEW h2, NEW r3, NEW h3, NEW now,
         Moves(o, r1, h1, r2, h2, now), Moves(o, r2, h2, r3, h3, now)
  PROVE  Moves(o, r1, h1, r3, h3, now)
PROOF BY Zenon DEF Moves

\* Writing the entry of a key, which is not expunged.
LEMMA WriteTable ==
  ASSUME NEW o, NEW r, NEW d, NEW h, NEW T, Table(o, r, d, h, T), NEW k \in MapKey,
         NEW e, e = EntryOf(k, r, d), e # NoEntry, h[e] # Expunged,
         NEW p \in Pointers, p # Expunged
  PROVE  LET w == [h EXCEPT ![e] = p]
         IN  /\ Table(o, r, d, w, T)
             /\ Now(r, d, w) = [Now(r, d, h) EXCEPT ![k] = PointsTo(p)]
             /\ Moves(o, r, h, r, w, Now(r, d, w))
             /\ \A x \in DOMAIN h : w[x] = Expunged <=> h[x] = Expunged
PROOF
<1> DEFINE w == [h EXCEPT ![e] = p]
<1>1. e \in DOMAIN h /\ o[e] = k
  BY EntryOfKey
<1>2. IsHeap(h)
  BY Zenon DEF Table
<1>3. DOMAIN w = DOMAIN h /\ IsHeap(w) /\ \A x \in DOMAIN h : w[x] = IF x = e THEN p ELSE h[x]
  BY <1>1, <1>2, Zenon DEF IsHeap
<1> HIDE DEF w
<1>4. \A x \in DOMAIN h : w[x] = Expunged <=> h[x] = Expunged
  BY <1>3, Zenon
<1>5. Table(o, r, d, w, T)
  BY <1>3, <1>4, Zenon DEF Table, Agree
<1>6. \A j \in MapKey : Now(r, d, w)[j] = IF j = k THEN PointsTo(p) ELSE Now(r, d, h)[j]
  <2> TAKE j \in MapKey
  <2>1. CASE j \in DOMAIN r.m
    <3>1. Now(r, d, w)[j] = PointsTo(w[r.m[j]]) /\ Now(r, d, h)[j] = PointsTo(h[r.m[j]])
      BY <2>1, <1>5, NowIs
    <3>2. r.m[j] \in DOMAIN h /\ (r.m[j] = e <=> j = k)
      BY <2>1, <1>1, EntryOfKey, InTable
    <3> QED BY <3>1, <3>2, <1>3, Zenon
  <2>2. CASE j \notin DOMAIN r.m /\ j \in DirtyKeys(d)
    <3>1. Now(r, d, w)[j] = PointsTo(w[d[j]]) /\ Now(r, d, h)[j] = PointsTo(h[d[j]])
      BY <2>2, <1>5, NowIs
    <3>2. d[j] \in DOMAIN h /\ (d[j] = e <=> j = k)
      BY <2>2, <1>1, EntryOfKey, InTable
    <3> QED BY <3>1, <3>2, <1>3, Zenon
  <2>3. CASE j \notin DOMAIN r.m /\ j \notin DirtyKeys(d)
    <3>1. Now(r, d, w)[j] = NoValue /\ Now(r, d, h)[j] = NoValue
      BY <2>3, <1>5, NowIs, Zenon
    <3>2. j # k
      BY <2>3, EntryOfKey, Zenon
    <3> QED BY <3>1, <3>2, Zenon
  <2> QED BY <2>1, <2>2, <2>3, Zenon
<1>7. Now(r, d, w) = [Now(r, d, h) EXCEPT ![k] = PointsTo(p)]
  BY <1>6, NowTyped
<1>8. Moves(o, r, h, r, w, Now(r, d, w))
  <2>1. \A x \in DOMAIN h : PointsTo(w[x]) = PointsTo(h[x]) \/ PointsTo(w[x]) = Now(r, d, w)[o[x]]
    BY <1>1, <1>3, <1>6, Zenon
  <2>2. \A x \in DOMAIN h : x \in DOMAIN w /\ (Live(x, o[x], r, h) => Live(x, o[x], r, w))
    BY <1>3, <1>4, Zenon DEF Live
  <2> QED BY <2>1, <2>2, Zenon DEF Moves
<1> QED BY <1>4, <1>5, <1>7, <1>8, Zenon DEF w

\* missLocked and Range: the dirty part becomes the read-only one.
LEMMA PromoteTable ==
  ASSUME NEW o, NEW r, NEW d, NEW h, Table(o, r, d, h, {}), d # NoDirty
  PROVE  LET s == [m |-> d, amended |-> FALSE]
         IN  /\ Table(o, s, NoDirty, h, {}) /\ Now(s, NoDirty, h) = Now(r, d, h)
             /\ \A now : Moves(o, r, h, s, h, now)
PROOF
<1> DEFINE s == [m |-> d, amended |-> FALSE]
<1>1. s.m = d /\ DirtyKeys(d) = DOMAIN d /\ DirtyKeys(NoDirty) = {}
  BY Zenon DEF DirtyKeys
<1> HIDE DEF s
<1>2. Table(o, s, NoDirty, h, {})
  BY <1>1, Zenon DEF Table, Agree
<1>3. \A k \in DOMAIN r.m : (h[r.m[k]] = Expunged /\ k \notin DOMAIN d) \/ (k \in DOMAIN d /\ d[k] = r.m[k])
  BY Zenon DEF Table, Agree
<1>4. \A k \in MapKey : Now(s, NoDirty, h)[k] = Now(r, d, h)[k]
  <2> TAKE k \in MapKey
  <2>1. Now(s, NoDirty, h)[k] = IF k \in DOMAIN d THEN PointsTo(h[d[k]]) ELSE NoValue
    BY <1>1, <1>2, NowIs
  <2>2. Now(r, d, h)[k] = IF k \in DOMAIN r.m THEN PointsTo(h[r.m[k]])
                          ELSE IF k \in DOMAIN d THEN PointsTo(h[d[k]]) ELSE NoValue
    BY <1>1, NowIs
  <2> QED BY <2>1, <2>2, <1>3, Pointing, Zenon
<1>5. Now(s, NoDirty, h) = Now(r, d, h)
  BY <1>4, NowTyped
<1>6. \A now : Moves(o, r, h, s, h, now)
  BY <1>1, <1>3, Zenon DEF Moves, Live
<1> QED BY <1>2, <1>5, <1>6, Zenon DEF s

\* Delete of a key that is in the dirty part only, or nowhere.
LEMMA RemoveTable ==
  ASSUME NEW o, NEW r, NEW d, NEW h, Table(o, r, d, h, {}), d # NoDirty,
         NEW k \in MapKey, k \notin DOMAIN r.m
  PROVE  LET b == Restrict(d, DOMAIN d \ {k})
         IN  /\ Table(o, r, b, h, {}) /\ b # NoDirty
             /\ Now(r, b, h) = [Now(r, d, h) EXCEPT ![k] = NoValue]
PROOF
<1> DEFINE b == Restrict(d, DOMAIN d \ {k})
<1>1. IsEntryMap(d) /\ DirtyKeys(d) = DOMAIN d
  BY Zenon DEF Table, DirtyKeys
<1>2. /\ IsEntryMap(b) /\ DOMAIN b = DOMAIN d \ {k} /\ \A j \in DOMAIN d \ {k} : b[j] = d[j]
      /\ b # NoDirty
  BY <1>1, WithoutKey, EntryMaps, Zenon
<1> HIDE DEF b
<1>3. DirtyKeys(b) = DOMAIN d \ {k}
  BY <1>2, Zenon DEF DirtyKeys
<1>4. Table(o, r, b, h, {})
  BY <1>1, <1>2, <1>3, Zenon DEF Table, Agree
<1>5. \A j \in MapKey : Now(r, b, h)[j] = IF j = k THEN NoValue ELSE Now(r, d, h)[j]
  <2> TAKE j \in MapKey
  <2>1. Now(r, b, h)[j] = IF j \in DOMAIN r.m THEN PointsTo(h[r.m[j]])
                          ELSE IF j \in DOMAIN d \ {k} THEN PointsTo(h[b[j]]) ELSE NoValue
    BY <1>3, <1>4, NowIs
  <2>2. Now(r, d, h)[j] = IF j \in DOMAIN r.m THEN PointsTo(h[r.m[j]])
                          ELSE IF j \in DOMAIN d THEN PointsTo(h[d[j]]) ELSE NoValue
    BY <1>1, NowIs
  <2> QED BY <2>1, <2>2, <1>2, Zenon
<1>6. Now(r, b, h) = [Now(r, d, h) EXCEPT ![k] = NoValue]
  BY <1>5, NowTyped
<1> QED BY <1>2, <1>4, <1>6, Zenon DEF b

\* unexpungeLocked, and the entry put back in the dirty part if it was expunged.
LEMMA UnexpungeTable ==
  ASSUME NEW o, NEW r, NEW d, NEW h, Table(o, r, d, h, {}), NEW k \in DOMAIN r.m,
         NEW e, e = r.m[k]
  PROVE  LET b == IF h[e] = Expunged THEN With(d, k, e) ELSE d
             w == [h EXCEPT ![e] = IF h[e] = Expunged THEN NilPtr ELSE h[e]]
         IN  /\ Table(o, r, b, w, {}) /\ Now(r, b, w) = Now(r, d, h) /\ w[e] # Expunged
             /\ b = NoDirty <=> d = NoDirty
             /\ \A now : Moves(o, r, h, r, w, now)
PROOF
<1> DEFINE b == IF h[e] = Expunged THEN With(d, k, e) ELSE d
           w == [h EXCEPT ![e] = IF h[e] = Expunged THEN NilPtr ELSE h[e]]
<1>1. e \in DOMAIN h /\ o[e] = k /\ k \in MapKey /\ e \in Address
  BY InTable
<1>a. IsHeap(h)
  BY Zenon DEF Table
<1>2. /\ DOMAIN w = DOMAIN h /\ IsHeap(w)
      /\ \A x \in DOMAIN h : w[x] = IF x = e /\ h[e] = Expunged THEN NilPtr ELSE h[x]
  BY <1>1, <1>a, Zenon DEF IsHeap, Pointers
<1>b. h[e] # Expunged => b = d /\ w = h
  BY <1>1, <1>a, Zenon DEF IsHeap
<1>c. h[e] = Expunged => b = With(d, k, e)
  BY Zenon
<1> SUFFICES /\ Table(o, r, b, w, {}) /\ Now(r, b, w) = Now(r, d, h) /\ w[e] # Expunged
             /\ b = NoDirty <=> d = NoDirty
             /\ \A now : Moves(o, r, h, r, w, now)
  BY Zenon
<1> HIDE DEF b, w
<1>3. CASE h[e] # Expunged
  BY <1>3, <1>b, MovesNothing, Zenon
<1>4. CASE h[e] = Expunged
  <2>1. IsEntryMap(d) /\ d # NoDirty /\ k \notin DOMAIN d
    BY <1>1, <1>4, Zenon DEF Table, Agree
  <2>2. b = With(d, k, e)
    BY <1>4, <1>c, Zenon
  <2>3. /\ IsEntryMap(b) /\ DOMAIN b = DOMAIN d \cup {k} /\ b[k] = e /\ b # NoDirty
        /\ \A j \in DOMAIN d : b[j] = d[j]
    <3>1. IsWith(b, d, k, e)
      BY <2>1, <2>2, <1>1, WithKey, Zenon
    <3> QED BY <3>1, <2>1, EntryMaps, Zenon DEF IsWith
  <2>4. DirtyKeys(b) = DOMAIN d \cup {k} /\ DirtyKeys(d) = DOMAIN d
    BY <2>1, <2>3, Zenon DEF DirtyKeys
  <2>5. \A x \in DOMAIN h : w[x] = IF x = e THEN NilPtr ELSE h[x]
    BY <1>2, <1>4, Zenon
  <2>6. Table(o, r, b, w, {})
    <3>1. \A j \in DOMAIN r.m : r.m[j] \in DOMAIN w /\ o[r.m[j]] = j /\ Agree(j, r, b, w, {})
      <4> TAKE j \in DOMAIN r.m
      <4>1. r.m[j] \in DOMAIN h /\ o[r.m[j]] = j /\ (r.m[j] = e <=> j = k)
        BY <1>1, InTable
      <4>2. CASE j = k
        BY <4>1, <4>2, <1>1, <1>2, <2>3, <2>5, Pointing, Zenon DEF Agree
      <4>3. CASE j # k
        <5>1. Agree(j, r, d, h, {})
          BY Zenon DEF Table
        <5> QED BY <5>1, <4>1, <4>3, <1>2, <2>1, <2>3, <2>5, Zenon DEF Agree
      <4> QED BY <4>2, <4>3, Zenon
    <3>2. \A j \in DirtyKeys(b) : b[j] \in DOMAIN w /\ o[b[j]] = j /\ w[b[j]] # Expunged
      <4>1. \A j \in DOMAIN d : d[j] \in DOMAIN h /\ o[d[j]] = j /\ h[d[j]] # Expunged
        BY <2>4, Zenon DEF Table
      <4> QED BY <4>1, <1>1, <1>2, <2>3, <2>4, <2>5, Pointing
    <3> QED BY <3>1, <3>2, <2>3, <1>2, Zenon DEF Table
  <2>7. \A x \in DOMAIN h : PointsTo(w[x]) = PointsTo(h[x])
    BY <2>5, <1>4, Pointing, Zenon
  <2>8. \A j \in MapKey : Now(r, b, w)[j] = Now(r, d, h)[j]
    <3> TAKE j \in MapKey
    <3>1. Now(r, b, w)[j] = IF j \in DOMAIN r.m THEN PointsTo(w[r.m[j]])
                            ELSE IF j \in DOMAIN d \cup {k} THEN PointsTo(w[b[j]]) ELSE NoValue
      BY <2>4, <2>6, NowIs
    <3>2. Now(r, d, h)[j] = IF j \in DOMAIN r.m THEN PointsTo(h[r.m[j]])
                            ELSE IF j \in DOMAIN d THEN PointsTo(h[d[j]]) ELSE NoValue
      BY <2>4, NowIs
    <3> QED BY <3>1, <3>2, <2>3, <2>4, <2>7, InTable
  <2>9. Now(r, b, w) = Now(r, d, h)
    BY <2>8, NowTyped
  <2>10. \A now : Moves(o, r, h, r, w, now)
    BY <1>1, <1>2, <2>5, <2>7, Zenon DEF Moves, Live
  <2> QED BY <2>1, <2>3, <2>5, <2>6, <2>9, <2>10, <1>1, Pointing, Zenon
<1> QED BY <1>3, <1>4, Zenon

\* A new key in the dirty part, with an entry of its own.
LEMMA AddTable ==
  ASSUME NEW o \in [Nat -> MapKey \cup {NoValue}], NEW r, NEW d, NEW h,
         Table(o, r, d, h, {}), d # NoDirty,
         NEW k \in MapKey, k \notin DOMAIN r.m, k \notin DOMAIN d,
         NEW e \in Address, e \notin DOMAIN h, NEW v \in MapValue
  PROVE  LET n == [o EXCEPT ![e] = k]
             s == [m |-> r.m, amended |-> TRUE]
             b == With(d, k, e)
             w == With(h, e, v)
         IN  /\ Table(n, s, b, w, {}) /\ Now(s, b, w) = [Now(r, d, h) EXCEPT ![k] = v]
             /\ n \in [Nat -> MapKey \cup {NoValue}] /\ (\A x \in DOMAIN h : n[x] = o[x])
             /\ b # NoDirty
             /\ \A now : Moves(o, r, h, s, w, now)
PROOF
<1> DEFINE n == [o EXCEPT ![e] = k]
           s == [m |-> r.m, amended |-> TRUE]
           b == With(d, k, e)
           w == With(h, e, v)
<1>1. IsHeap(h) /\ IsEntryMap(r.m) /\ IsEntryMap(d) /\ DirtyKeys(d) = DOMAIN d
  BY Zenon DEF Table, DirtyKeys
<1>2. e \in Nat /\ DOMAIN h \subseteq Nat
  BY <1>1, Zenon DEF IsHeap, Address
<1>3. n \in [Nat -> MapKey \cup {NoValue}] /\ n[e] = k /\ \A x \in DOMAIN h : n[x] = o[x]
  BY <1>2, Zenon
<1>4. s.m = r.m
  BY Zenon
<1>5. /\ IsEntryMap(b) /\ DOMAIN b = DOMAIN d \cup {k} /\ b[k] = e
      /\ \A j \in DOMAIN d : j # k => b[j] = d[j]
  <2>1. IsWith(b, d, k, e)
    BY <1>1, WithKey, Zenon
  <2> QED BY <2>1, Zenon DEF IsWith
<1>6. b # NoDirty /\ DirtyKeys(b) = DOMAIN d \cup {k} /\ \A j \in DOMAIN d : b[j] = d[j]
  BY <1>5, EntryMaps, Zenon DEF DirtyKeys
<1>7. DOMAIN w = DOMAIN h \cup {e} /\ w[e] = v /\ \A x \in DOMAIN h : w[x] = h[x]
  BY Zenon DEF With
<1>8. IsHeap(w)
  <2>1. Bounded(DOMAIN w)
    <3>1. PICK i \in Nat : \A x \in DOMAIN h : x <= i
      BY <1>1, Zenon DEF IsHeap, Bounded
    <3>2. e \in Nat /\ DOMAIN h \subseteq Nat
      BY <1>1, Zenon DEF IsHeap, Address
    <3>3. i + e \in Nat /\ \A x \in DOMAIN h \cup {e} : x <= i + e
      BY <3>1, <3>2
    <3> QED BY <1>7, <3>3, Zenon DEF Bounded
  <2>2. w = [x \in DOMAIN w |-> w[x]]
    BY Zenon DEF With
  <2>3. \A x \in DOMAIN w : w[x] \in Pointers
    BY <1>1, <1>7, Zenon DEF IsHeap, Pointers
  <2> QED BY <2>1, <2>2, <2>3, <1>1, <1>7, Zenon DEF IsHeap
<1> SUFFICES /\ Table(n, s, b, w, {}) /\ Now(s, b, w) = [Now(r, d, h) EXCEPT ![k] = v]
             /\ \A now : Moves(o, r, h, s, w, now)
  BY <1>3, <1>6, Zenon
<1> HIDE DEF n, s, b, w
<1>9. Table(n, s, b, w, {})
  <2>1. \A j \in DOMAIN s.m : s.m[j] \in DOMAIN w /\ n[s.m[j]] = j /\ Agree(j, s, b, w, {})
    <3> SUFFICES ASSUME NEW j \in DOMAIN r.m
                 PROVE  r.m[j] \in DOMAIN w /\ n[r.m[j]] = j /\ Agree(j, s, b, w, {})
      BY <1>4, Zenon
    <3>1. r.m[j] \in DOMAIN h /\ o[r.m[j]] = j /\ Agree(j, r, d, h, {}) /\ j # k
      BY Zenon DEF Table
    <3> QED BY <3>1, <1>3, <1>4, <1>5, <1>6, <1>7 DEF Agree
  <2>2. \A j \in DirtyKeys(b) : b[j] \in DOMAIN w /\ n[b[j]] = j /\ w[b[j]] # Expunged
    <3>1. \A j \in DOMAIN d : d[j] \in DOMAIN h /\ o[d[j]] = j /\ h[d[j]] # Expunged
      BY <1>1, Zenon DEF Table
    <3> QED BY <3>1, <1>3, <1>5, <1>6, <1>7, Pointing
  <2> QED BY <2>1, <2>2, <1>1, <1>4, <1>5, <1>8, Zenon DEF Table
<1>10. \A j \in MapKey : Now(s, b, w)[j] = IF j = k THEN v ELSE Now(r, d, h)[j]
  <2> TAKE j \in MapKey
  <2>1. Now(s, b, w)[j] = IF j \in DOMAIN r.m THEN PointsTo(w[r.m[j]])
                          ELSE IF j \in DOMAIN d \cup {k} THEN PointsTo(w[b[j]]) ELSE NoValue
    BY <1>4, <1>6, <1>9, NowIs
  <2>2. Now(r, d, h)[j] = IF j \in DOMAIN r.m THEN PointsTo(h[r.m[j]])
                          ELSE IF j \in DOMAIN d THEN PointsTo(h[d[j]]) ELSE NoValue
    BY <1>1, NowIs
  <2>3. /\ j \in DOMAIN r.m => w[r.m[j]] = h[r.m[j]]
        /\ j \in DOMAIN d => w[b[j]] = h[d[j]]
    BY <1>1, <1>6, <1>7, InTable, Zenon
  <2>4. PointsTo(w[b[k]]) = v
    BY <1>5, <1>7, Pointing, Zenon
  <2> QED BY <2>1, <2>2, <2>3, <2>4, Zenon
<1>11. Now(s, b, w) = [Now(r, d, h) EXCEPT ![k] = v]
  BY <1>10, NowTyped
<1>12. \A now : Moves(o, r, h, s, w, now)
  BY <1>4, <1>7, Zenon DEF Moves, Live
<1> QED BY <1>9, <1>11, <1>12, Zenon

\* dirtyLocked starts with an empty map, and has the keys of the read-only part to do.
LEMMA StartTable ==
  ASSUME NEW o, NEW r, NEW h, Table(o, r, NoDirty, h, {})
  PROVE  Table(o, r, NoKeys, h, DOMAIN r.m) /\ Now(r, NoKeys, h) = Now(r, NoDirty, h)
PROOF
<1>1. DirtyKeys(NoDirty) = {} /\ DirtyKeys(NoKeys) = {}
  BY EntryMaps, Zenon DEF DirtyKeys
<1>2. Table(o, r, NoKeys, h, DOMAIN r.m)
  BY <1>1, EntryMaps, Zenon DEF Table, Agree
<1>3. \A k \in MapKey : Now(r, NoKeys, h)[k] = Now(r, NoDirty, h)[k]
  BY <1>1, <1>2, NowIs
<1> QED BY <1>2, <1>3, NowTyped

\* dirtyLocked copies the entry of a key, or expunges it.
Copied(o, r, d, h, T, k, e) ==
  LET b == IF Copies(h[e]) THEN With(d, k, e) ELSE d
      w == [h EXCEPT ![e] = IF h[e] = NilPtr THEN Expunged ELSE h[e]]
  IN  /\ Table(o, r, b, w, T \ {k}) /\ Now(r, b, w) = Now(r, d, h)
      /\ b # NoDirty /\ DOMAIN b \subseteq DOMAIN d \cup {k}
      /\ \A now : Moves(o, r, h, r, w, now)
\* dirtyLocked looks at an entry: it is copied, or expunged when it is nil.
LEMMA CopyTable ==
  ASSUME NEW o, NEW r, NEW d, NEW h, NEW T, Table(o, r, d, h, T), d # NoDirty,
         NEW k \in DOMAIN r.m, k \in T, k \notin DOMAIN d, NEW e, e = r.m[k]
  PROVE  Copied(o, r, d, h, T, k, e)
PROOF
<1> DEFINE b == IF Copies(h[e]) THEN With(d, k, e) ELSE d
           w == [h EXCEPT ![e] = IF h[e] = NilPtr THEN Expunged ELSE h[e]]
<1>1. e \in DOMAIN h /\ o[e] = k /\ k \in MapKey /\ e \in Address /\ h[e] \in Pointers
  BY InTable
<1>2. IsHeap(h) /\ IsEntryMap(d) /\ DirtyKeys(d) = DOMAIN d
  BY Zenon DEF Table, DirtyKeys
<1>3. /\ DOMAIN w = DOMAIN h /\ IsHeap(w)
      /\ \A x \in DOMAIN h : w[x] = IF x = e /\ h[e] = NilPtr THEN Expunged ELSE h[x]
  BY <1>1, <1>2, Zenon DEF IsHeap, Pointers
<1>4. h[e] # Expunged
  BY Zenon DEF Table, Agree
<1>5. IF h[e] = NilPtr THEN b = d ELSE IsWith(b, d, k, e)
  BY <1>1, <1>2, <1>4, WithKey, Zenon DEF Copies
<1> SUFFICES /\ Table(o, r, b, w, T \ {k}) /\ Now(r, b, w) = Now(r, d, h)
             /\ b # NoDirty /\ DOMAIN b \subseteq DOMAIN d \cup {k}
             /\ \A now : Moves(o, r, h, r, w, now)
  BY Zenon DEF Copied
<1> HIDE DEF b, w
<1>6. /\ IsEntryMap(b) /\ b # NoDirty /\ DirtyKeys(b) = DOMAIN b
      /\ DOMAIN b = IF h[e] = NilPtr THEN DOMAIN d ELSE DOMAIN d \cup {k}
      /\ \A j \in DOMAIN d : b[j] = d[j]
      /\ h[e] # NilPtr => b[k] = e
  BY <1>2, <1>5, EntryMaps, Zenon DEF IsWith, DirtyKeys
<1>7. \A x \in DOMAIN h : PointsTo(w[x]) = PointsTo(h[x])
  BY <1>3, Pointing, Zenon
<1>8. \A j \in DOMAIN r.m : r.m[j] \in DOMAIN w /\ o[r.m[j]] = j /\ Agree(j, r, b, w, T \ {k})
  <2> TAKE j \in DOMAIN r.m
  <2>1. r.m[j] \in DOMAIN h /\ o[r.m[j]] = j /\ (r.m[j] = e <=> j = k)
    BY <1>1, InTable
  <2>2. CASE j = k
    BY <2>1, <2>2, <1>3, <1>4, <1>6, Zenon DEF Agree
  <2>3. CASE j # k
    <3>1. Agree(j, r, d, h, T)
      BY Zenon DEF Table
    <3>2. w[r.m[j]] = h[r.m[j]] /\ (j \in DOMAIN b <=> j \in DOMAIN d) /\ (j \in DOMAIN d => b[j] = d[j])
      BY <2>1, <2>3, <1>3, <1>6, Zenon
    <3> QED BY <3>1, <3>2, <2>1, <2>3, <1>3, <1>6, Zenon DEF Agree
  <2> QED BY <2>2, <2>3, Zenon
<1>9. \A j \in DirtyKeys(b) : b[j] \in DOMAIN w /\ o[b[j]] = j /\ w[b[j]] # Expunged
  <2>1. \A j \in DOMAIN d : d[j] \in DOMAIN h /\ o[d[j]] = j /\ h[d[j]] # Expunged /\ d[j] # e
    BY <1>1, <1>2 DEF Table
  <2> QED BY <2>1, <1>1, <1>3, <1>4, <1>6
<1>10. Table(o, r, b, w, T \ {k})
  <2>1. IsEntryMap(r.m)
    BY Zenon DEF Table
  <2> QED BY <2>1, <1>3, <1>6, <1>8, <1>9, Zenon DEF Table
<1>11. \A j \in MapKey : Now(r, b, w)[j] = Now(r, d, h)[j]
  <2> TAKE j \in MapKey
  <2>1. Now(r, b, w)[j] = IF j \in DOMAIN r.m THEN PointsTo(w[r.m[j]])
                          ELSE IF j \in DOMAIN b THEN PointsTo(w[b[j]]) ELSE NoValue
    BY <1>6, <1>10, NowIs, SMTT(30)
  <2>2. Now(r, d, h)[j] = IF j \in DOMAIN r.m THEN PointsTo(h[r.m[j]])
                          ELSE IF j \in DOMAIN d THEN PointsTo(h[d[j]]) ELSE NoValue
    BY <1>2, NowIs
  <2>3. /\ j \in DOMAIN r.m => r.m[j] \in DOMAIN h
        /\ j \in DOMAIN d => d[j] \in DOMAIN h
    BY <1>2, InTable, Zenon
  <2> QED BY <2>1, <2>2, <2>3, <1>6, <1>7
<1>12. Now(r, b, w) = Now(r, d, h)
  BY <1>11, NowTyped
<1>13. \A now : Moves(o, r, h, r, w, now)
  BY <1>1, <1>3, <1>7, Zenon DEF Moves, Live
<1> QED BY <1>6, <1>10, <1>12, <1>13, Zenon

\* Entries nobody points to are gone.
LEMMA RestrictTable ==
  ASSUME NEW o, NEW r, NEW d, NEW h, NEW T, Table(o, r, d, h, T),
         NEW R, Range(r.m) \subseteq R, DirtyEntries(d) \subseteq R
  PROVE  LET w == Restrict(h, R \cap DOMAIN h)
         IN  Table(o, r, d, w, T) /\ Now(r, d, w) = Now(r, d, h)
PROOF
<1> DEFINE w == Restrict(h, R \cap DOMAIN h)
<1>1. DOMAIN w = R \cap DOMAIN h /\ \A x \in R \cap DOMAIN h : w[x] = h[x]
  BY Zenon DEF Restrict
<1>2. IsHeap(h)
  BY Zenon DEF Table
<1>3. IsHeap(w)
  <2>1. Bounded(DOMAIN w)
    BY <1>1, <1>2, Zenon DEF IsHeap, Bounded
  <2> QED BY <2>1, <1>1, <1>2, Zenon DEF IsHeap, Restrict
<1> HIDE DEF w
<1>4. \A k \in DOMAIN r.m : r.m[k] \in DOMAIN w /\ w[r.m[k]] = h[r.m[k]]
  <2>1. \A k \in DOMAIN r.m : r.m[k] \in DOMAIN h
    BY InTable, Zenon
  <2>2. \A k \in DOMAIN r.m : r.m[k] \in R
    BY Zenon DEF Range
  <2> QED BY <2>1, <2>2, <1>1, Zenon
<1>5. \A k \in DirtyKeys(d) : d[k] \in DOMAIN w /\ w[d[k]] = h[d[k]]
  <2>1. \A k \in DirtyKeys(d) : d[k] \in DOMAIN h
    BY InTable, Zenon
  <2>2. \A k \in DirtyKeys(d) : d[k] \in R
    BY Zenon DEF Range, DirtyEntries, DirtyKeys
  <2> QED BY <2>1, <2>2, <1>1, Zenon
<1>6. Table(o, r, d, w, T)
  BY <1>3, <1>4, <1>5 DEF Table, Agree
<1>7. \A k \in MapKey : Now(r, d, w)[k] = Now(r, d, h)[k]
  BY <1>4, <1>5, <1>6, NowIs, SMTT(30)
<1> QED BY <1>6, <1>7, NowTyped DEF w

-----------------------------------------------------------------------------
\* What a call that is under way asks for.
LEMMA PendingCall ==
  ASSUME NEW c, IsPending(c)
  PROVE  /\ c.pc = "pending" /\ c.op \in {"Load", "Delete", "Store", "LoadOrStore", "Range"}
         /\ c.op # "Range" => c.key \in MapKey
         /\ c.op \in {"Store", "LoadOrStore"} => c.val \in MapValue
         /\ DOMAIN c.seen = Watched(c.op, c.key) /\ DOMAIN c.seen \subseteq MapKey
         /\ c.op = "Range" => DOMAIN c.seen = MapKey
         /\ c.op \in {"Load", "Delete", "LoadOrStore"} => DOMAIN c.seen = {c.key}
         /\ \A k \in DOMAIN c.seen : c.seen[k] \subseteq MapValue \cup {NoValue}
PROOF
<1>1. c.pc = "pending"
  BY DEF IsPending
<1>2. <<c.op, c.key, c.val>> \in MapRequests
  BY Zenon DEF IsPending
<1>3. /\ c.op \in {"Load", "Delete", "Store", "LoadOrStore", "Range"}
      /\ c.op # "Range" => c.key \in MapKey
      /\ c.op \in {"Store", "LoadOrStore"} => c.val \in MapValue
  BY <1>2, Zenon DEF MapRequests
<1>4. c.seen \in [Watched(c.op, c.key) -> SUBSET (MapValue \cup {NoValue})]
  BY Zenon DEF IsPending
<1>5. /\ c.op = "Range" => Watched(c.op, c.key) = MapKey
      /\ c.op = "Store" => Watched(c.op, c.key) = {}
      /\ c.op \in {"Load", "Delete", "LoadOrStore"} => Watched(c.op, c.key) = {c.key}
  BY Zenon DEF Watched
<1> QED BY <1>1, <1>3, <1>4, <1>5, Zenon

\* A call that notes what its keys are mapped to.
Noted(n, c, now) ==
  /\ IsPending(n) /\ n.op = c.op /\ n.key = c.key /\ n.val = c.val
  /\ DOMAIN n.seen = DOMAIN c.seen
  /\ \A k \in DOMAIN c.seen : n.seen[k] = c.seen[k] \cup {now[k]}
IsNow(now) == now = [k \in MapKey |-> now[k]] /\ \A k \in MapKey : now[k] \in MapValue \cup {NoValue}
\* A call that notes the present content is still a pending call.
LEMMA NotingCall ==
  ASSUME NEW c, IsPending(c), NEW now, IsNow(now)
  PROVE  Noted(Noting(c, now), c, now)
PROOF
<1> DEFINE s == [k \in DOMAIN c.seen |-> c.seen[k] \cup {now[k]}]
           n == [pc |-> "pending", op |-> c.op, key |-> c.key, val |-> c.val, seen |-> s]
<1>1. DOMAIN s = DOMAIN c.seen /\ \A k \in DOMAIN c.seen : s[k] = c.seen[k] \cup {now[k]}
  BY Zenon
<1>2. s \in [Watched(c.op, c.key) -> SUBSET (MapValue \cup {NoValue})]
  BY PendingCall DEF IsNow
<1>3. [c EXCEPT !.seen = s] = n
  <2>1. c = [pc |-> "pending", op |-> c.op, key |-> c.key, val |-> c.val, seen |-> c.seen]
    BY Zenon DEF IsPending
  <2> HIDE DEF s
  <2> QED BY <2>1
<1>4. Noting(c, now) = n
  BY <1>3, PendingCall, Zenon DEF Noting
<1> HIDE DEF s
<1>5. n.pc = "pending" /\ n.op = c.op /\ n.key = c.key /\ n.val = c.val /\ n.seen = s
  BY Zenon
<1>6. <<c.op, c.key, c.val>> \in MapRequests
  BY Zenon DEF IsPending
<1>7. IsPending(n)
  BY <1>2, <1>5, <1>6, Zenon DEF IsPending
<1> HIDE DEF n
<1> QED BY <1>1, <1>4, <1>5, <1>7, Zenon DEF Noted

\* A call that is not under way notes nothing.
LEMMA NotingNothing ==
  ASSUME NEW c, c.pc # "pending", NEW now
  PROVE  Noting(c, now) = c
PROOF BY Zenon DEF Noting

\* A call that has noted it already does not change.
LEMMA NotingAgain ==
  ASSUME NEW c, IsPending(c), NEW now, IsNow(now), SeenNow(c, now)
  PROVE  Noting(c, now) = c
PROOF
<1>1. Noted(Noting(c, now), c, now)
  BY NotingCall, Zenon
<1> DEFINE n == Noting(c, now)
<1> HIDE DEF n
<1>2. IsPending(n) /\ n.op = c.op /\ n.key = c.key /\ n.val = c.val
  BY <1>1, Zenon DEF n, Noted
<1>3. n.seen = c.seen
  <2>1. \A k \in DOMAIN c.seen : now[k] \in c.seen[k]
    BY PendingCall, Zenon DEF SeenNow
  <2>2. DOMAIN n.seen = DOMAIN c.seen /\ \A k \in DOMAIN c.seen : n.seen[k] = c.seen[k] \cup {now[k]}
    BY <1>1, Zenon DEF n, Noted
  <2>3. ASSUME NEW k \in DOMAIN c.seen PROVE n.seen[k] = c.seen[k]
    <3>1. now[k] \in c.seen[k] /\ n.seen[k] = c.seen[k] \cup {now[k]}
      BY <2>1, <2>2, Zenon
    <3> QED BY <3>1, Zenon
  <2>4. n.seen = [k \in DOMAIN n.seen |-> n.seen[k]] /\ c.seen = [k \in DOMAIN c.seen |-> c.seen[k]]
    BY <1>2, Zenon DEF IsPending
  <2> QED BY <2>2, <2>3, <2>4, Zenon
<1>4. /\ n = [pc |-> "pending", op |-> n.op, key |-> n.key, val |-> n.val, seen |-> n.seen]
      /\ c = [pc |-> "pending", op |-> c.op, key |-> c.key, val |-> c.val, seen |-> c.seen]
  BY <1>2, Zenon DEF IsPending
<1> QED BY <1>2, <1>3, <1>4, Zenon DEF n

\* After noting, what a key is mapped to has been seen.
LEMMA NotedNow ==
  ASSUME NEW c, c.pc = "pending" => IsPending(c), NEW now, IsNow(now)
  PROVE  SeenNow(Noting(c, now), now)
PROOF
<1>1. CASE c.pc = "pending"
  <2>1. Noted(Noting(c, now), c, now)
    BY <1>1, NotingCall, Zenon
  <2> QED BY <2>1, Zenon DEF Noted, SeenNow
<1>2. CASE c.pc # "pending"
  BY <1>2, NotingNothing, Zenon DEF SeenNow
<1> QED BY <1>1, <1>2, Zenon

\* A goroutine while another one makes a step: what it holds and has seen stays good.
\* One that is in a section of several steps sees the tables unchanged.
LEMMA OtherUser ==
  ASSUME NEW o, NEW n, NEW u, NEW c, NEW r1, NEW d1, NEW h1, NEW r2, NEW d2, NEW h2, NEW now,
         UserOK(o, u, c, r1, d1, h1), IsNow(now), Moves(o, r1, h1, r2, h2, now),
         \A x \in DOMAIN h1 : n[x] = o[x],
         u.pc \in {"write", "copy"} =>
           r2 = r1 /\ d2 = d1 /\ \A x \in DOMAIN h1 : h2[x] = Expunged => h1[x] = Expunged
  PROVE  UserOK(n, u, Noting(c, now), r2, d2, h2)
PROOF
<1> DEFINE m == Noting(c, now)
<1> HIDE DEF m
<1>1. CASE c.pc # "pending"
  <2>1. m = c /\ u.pc = "rest"
    BY <1>1, NotingNothing, Zenon DEF m, UserOK
  <2> QED BY <2>1, Zenon DEF m, UserOK
<1>2. CASE c.pc = "pending"
  <2>1. IsPending(c) /\ Noted(m, c, now)
    BY <1>2, NotingCall, ZenonT(60) DEF UserOK, m
  <2>2. IsPending(m) /\ m.op = c.op /\ m.key = c.key /\ m.pc = "pending"
    BY <2>1, PendingCall, Zenon DEF Noted
  <2>3. \A k \in DOMAIN c.seen : m.seen[k] = c.seen[k] \cup {now[k]}
    BY <2>1, Zenon DEF Noted
  <2>4. u.pc = "entry" => AtEntry(n, u, m, r2, h2)
    <3> HAVE u.pc = "entry"
    <3>1. AtEntry(o, u, c, r1, h1)
      BY Zenon DEF UserOK
    <3>2. u.e \in DOMAIN h1 /\ o[u.e] = c.key /\ c.op # "Range"
      BY <3>1, Zenon DEF AtEntry
    <3>3. /\ u.e \in DOMAIN h2 /\ (Live(u.e, c.key, r1, h1) => Live(u.e, c.key, r2, h2))
          /\ PointsTo(h2[u.e]) = PointsTo(h1[u.e]) \/ PointsTo(h2[u.e]) = now[c.key]
      BY <3>2, Zenon DEF Moves
    <3>4. c.op # "Store" => PointsTo(h2[u.e]) \in m.seen[c.key]
      <4> HAVE c.op # "Store"
      <4>1. c.key \in DOMAIN c.seen
        BY <2>1, <3>2, PendingCall, Zenon
      <4>2. PointsTo(h1[u.e]) \in c.seen[c.key]
        BY <3>1, Zenon DEF AtEntry
      <4> QED BY <4>1, <4>2, <3>3, <2>3, Zenon
    <3> QED BY <3>1, <3>2, <3>3, <3>4, <2>2, Zenon DEF AtEntry
  <2>5. u.pc = "write" => Writing(n, u, m, r2, h2)
    <3> HAVE u.pc = "write"
    <3>1. Writing(o, u, c, r1, h1)
      BY Zenon DEF UserOK
    <3>2. r2 = r1 /\ \A x \in DOMAIN h1 : h2[x] = Expunged => h1[x] = Expunged
      BY Zenon
    <3>3. u.e \in DOMAIN h1
      BY <3>1, Zenon DEF Writing
    <3>4. u.e \in DOMAIN h2
      BY <3>3, Zenon DEF Moves
    <3> QED BY <3>1, <3>2, <3>3, <3>4, <2>2, Zenon DEF Writing
  <2>6. u.pc = "copy" => Copying(u, m, r2, d2)
    <3> HAVE u.pc = "copy"
    <3>1. Copying(u, c, r1, d1)
      BY Zenon DEF UserOK
    <3> QED BY <3>1, <2>2, Zenon DEF Copying
  <2>7. u.pc = "range" => Ranging(n, u, m, h2)
    <3> HAVE u.pc = "range"
    <3>1. Ranging(o, u, c, h1)
      BY Zenon DEF UserOK
    <3>2. c.op = "Range" /\ IsEntryMap(u.todo)
          /\ \A k \in DOMAIN u.todo : u.todo[k] \in DOMAIN h1 /\ o[u.todo[k]] = k
      BY <3>1, Zenon DEF Ranging
    <3>3. DOMAIN c.seen = MapKey
      BY <3>2, <2>1, PendingCall, Zenon
    <3>4. \A k \in DOMAIN u.todo :
            /\ u.todo[k] \in DOMAIN h2 /\ n[u.todo[k]] = k
            /\ PointsTo(h2[u.todo[k]]) = PointsTo(h1[u.todo[k]]) \/ PointsTo(h2[u.todo[k]]) = now[k]
      BY <3>2, SMTT(30) DEF Moves
    <3>5. \A k \in MapKey : (IF k \in DOMAIN u.todo THEN PointsTo(h2[u.todo[k]])
                             ELSE IF k \in DOMAIN u.found THEN u.found[k] ELSE NoValue) \in m.seen[k]
      <4> TAKE k \in MapKey
      <4>1. (IF k \in DOMAIN u.todo THEN PointsTo(h1[u.todo[k]])
             ELSE IF k \in DOMAIN u.found THEN u.found[k] ELSE NoValue) \in c.seen[k]
        BY <3>1, Zenon DEF Ranging
      <4>2. m.seen[k] = c.seen[k] \cup {now[k]}
        BY <2>3, <3>3, Zenon
      <4> QED BY <4>1, <4>2, <3>4, Zenon
    <3> QED BY <3>2, <3>4, <3>5, <2>2, Zenon DEF Ranging
  <2> QED BY <1>2, <2>2, <2>4, <2>5, <2>6, <2>7, Zenon DEF UserOK, m
<1> QED BY <1>1, <1>2, Zenon

\* A goroutine when the entries nobody points to go.
LEMMA RestrictUser ==
  ASSUME NEW o, NEW u, NEW c, NEW r, NEW d, NEW h, UserOK(o, u, c, r, d, h),
         NEW R, u.e \in R, Range(u.todo) \subseteq R
  PROVE  UserOK(o, u, c, r, d, Restrict(h, R \cap DOMAIN h))
PROOF
<1> DEFINE w == Restrict(h, R \cap DOMAIN h)
<1>1. DOMAIN w = R \cap DOMAIN h /\ \A x \in R \cap DOMAIN h : w[x] = h[x]
  BY Zenon DEF Restrict
<1>2. \A k \in DOMAIN u.todo : u.todo[k] \in R
  BY Zenon DEF Range
<1> HIDE DEF w
<1>3. AtEntry(o, u, c, r, h) => AtEntry(o, u, c, r, w)
  BY <1>1, Zenon DEF AtEntry, Live
<1>4. Writing(o, u, c, r, h) => Writing(o, u, c, r, w)
  BY <1>1, Zenon DEF Writing
<1>5. Ranging(o, u, c, h) => Ranging(o, u, c, w)
  BY <1>1, <1>2, Zenon DEF Ranging
<1> QED BY <1>3, <1>4, <1>5, Zenon DEF UserOK, w

-----------------------------------------------------------------------------
\* The end of a step: if the state is good before the entries nobody points to go,
\* it is good afterwards.
Calls(ca, now) == [g \in MapUser |-> Noting(ca[g], now)]
\* A step into a state of which State holds ends in IInv.
LEMMA BecomeState ==
  ASSUME NEW o \in [Nat -> MapKey \cup {NoValue}], NEW r, NEW d, NEW mi, NEW h, NEW mu, NEW us, NEW ca,
         Become(r, d, mi, h, mu, [user |-> us, call |-> ca]),
         State(o, r, d, mi, h, mu, us, Calls(ca, Now(r, d, h))),
         \A g \in MapUser : ca[g].pc = "pending" => IsPending(ca[g])
  PROVE  IInv(o)' /\ content' = Now(r, d, h) /\ call' = Calls(ca, Now(r, d, h))
PROOF
<1> DEFINE R == Reachable(r, d, us)
           w == Restrict(h, R \cap DOMAIN h)
           now == Now(r, d, h)
           ca2 == Calls(ca, now)
<1>1. /\ mread' = r /\ dirty' = d /\ misses' = mi /\ mutex' = mu /\ entry' = w /\ user' = us
      /\ content' = now /\ call' = ca2
  BY Zenon DEF Become, Now, Calls
<1>2. Range(r.m) \subseteq R /\ DirtyEntries(d) \subseteq R
  BY Zenon DEF Reachable
<1>3. \A g \in MapUser : us[g].e \in R /\ Range(us[g].todo) \subseteq R
  BY Zenon DEF Reachable
<1>4. IsNow(now)
  BY NowTyped, Zenon DEF IsNow
<1> HIDE DEF R, now
<1>5. Table(o, r, d, w, ToCopy(mu, us)) /\ Now(r, d, w) = now
  <2>1. Table(o, r, d, h, ToCopy(mu, us))
    BY Zenon DEF State, now
  <2> QED BY <2>1, <1>2, RestrictTable, SMTT(30) DEF now
<1>6. \A g \in MapUser : UserOK(o, us[g], ca2[g], r, d, w)
  <2> TAKE g \in MapUser
  <2>1. UserOK(o, us[g], ca2[g], r, d, h)
    BY Zenon DEF State, now
  <2> HIDE DEF ca2
  <2> QED BY <2>1, <1>3, RestrictUser, Zenon
<1>7. State(o, r, d, mi, w, mu, us, ca2)
  <2> HIDE DEF ca2, w
  <2>1. State(o, r, d, mi, h, mu, us, ca2)
    BY ZenonT(60) DEF ca2, now
  <2> QED BY <2>1, <1>5, <1>6, Zenon DEF State
<1>8. \A g \in MapUser : SeenNow(ca2[g], now)
  BY <1>4, NotedNow, ZenonT(60) DEF Calls
<1> HIDE DEF w, ca2
<1>9. IInv(o)'
  BY <1>1, <1>5, <1>7, <1>8, ZenonT(60) DEF IInv
<1> QED BY <1>1, <1>9, Zenon DEF now, ca2

\* A step of the goroutine g, which then has the local variables u and the call c.
Steps(g, u, c, r, d, mi, h, mu) ==
  Become(r, d, mi, h, mu, [user |-> [user EXCEPT ![g] = u], call |-> [call EXCEPT ![g] = c]])
Settles(o, g, c, now) ==
  /\ IInv(o)' /\ content' = now
  /\ call' = [q \in MapUser |-> Noting(IF q = g THEN c ELSE call[q], now)]

\* Outside the sections of several steps a goroutine changes the tables in an entry at
\* most; the mutex may be held by another one.
FreeOK(o, g, u, c, h) ==
  /\ mutex # g /\ u.pc \notin {"write", "copy"}
  /\ Table(o, mread, dirty, h, ToCopy(mutex, user))
  /\ Moves(o, mread, entry, mread, h, Now(mread, dirty, h))
  /\ \A x \in DOMAIN entry : h[x] = Expunged => entry[x] = Expunged
  /\ UserOK(o, u, Noting(c, Now(mread, dirty, h)), mread, dirty, h)
  /\ c.pc = "pending" => IsPending(c)
\* A step without the mutex keeps IInv.
LEMMA FreeStep ==
  ASSUME NEW o, IInv(o), NEW g \in MapUser, NEW u, NEW c, NEW h, FreeOK(o, g, u, c, h),
         Steps(g, u, c, mread, dirty, misses, h, mutex)
  PROVE  Settles(o, g, c, Now(mread, dirty, h))
PROOF
<1> DEFINE us == [user EXCEPT ![g] = u]
           ca == [call EXCEPT ![g] = c]
           now == Now(mread, dirty, h)
<1>1. State(o, mread, dirty, misses, entry, mutex, user, call) /\ o \in [Nat -> MapKey \cup {NoValue}]
  BY Zenon DEF IInv
<1>2. user = [q \in MapUser |-> user[q]] /\ call = [q \in MapUser |-> call[q]]
  BY <1>1, Zenon DEF State
<1>3. /\ us = [q \in MapUser |-> us[q]] /\ \A q \in MapUser : us[q] = IF q = g THEN u ELSE user[q]
      /\ ca = [q \in MapUser |-> ca[q]] /\ \A q \in MapUser : ca[q] = IF q = g THEN c ELSE call[q]
  BY <1>2, Zenon
<1>4. Become(mread, dirty, misses, h, mutex, [user |-> us, call |-> ca])
  BY Zenon DEF Steps
<1>5. IsNow(now)
  BY NowTyped, Zenon DEF IsNow
<1> HIDE DEF us, ca, now
<1>6. \A q \in MapUser : ca[q].pc = "pending" => IsPending(ca[q])
  BY <1>1, <1>3 DEF State, UserOK, FreeOK
<1>7. \A q \in MapUser : UserOK(o, us[q], Noting(ca[q], now), mread, dirty, h)
  <2> TAKE q \in MapUser
  <2>1. CASE q = g
    BY <2>1, <1>3, Zenon DEF FreeOK, now
  <2>2. CASE q # g
    <3>1. UserOK(o, user[q], call[q], mread, dirty, entry)
      BY <1>1, Zenon DEF State
    <3>2. Moves(o, mread, entry, mread, h, now) /\ \A x \in DOMAIN entry : h[x] = Expunged => entry[x] = Expunged
      BY Zenon DEF FreeOK, now
    <3>3. UserOK(o, user[q], Noting(call[q], now), mread, dirty, h)
      BY <3>1, <3>2, <1>5, OtherUser, Zenon
    <3> QED BY <3>3, <2>2, <1>3, Zenon
  <2> QED BY <2>1, <2>2, ZenonT(60)
<1>8. \A q \in MapUser : mutex = q <=> us[q].pc \in {"write", "copy"}
  <2>1. \A q \in MapUser : mutex = q <=> user[q].pc \in {"write", "copy"}
    BY <1>1, Zenon DEF State
  <2> QED BY <2>1, <1>3, Zenon DEF FreeOK
<1>9. ToCopy(mutex, us) = ToCopy(mutex, user) /\ (Copier(mutex, us) <=> Copier(mutex, user))
  <2>1. mutex \in MapUser \cup {Unlocked} /\ mutex # g
    BY <1>1, Zenon DEF State, FreeOK
  <2> QED BY <2>1, <1>3, Zenon DEF ToCopy, Copier
<1>10. State(o, mread, dirty, misses, h, mutex, us, Calls(ca, now))
  <2>1. \A q \in MapUser : Calls(ca, now)[q] = Noting(ca[q], now)
    BY Zenon DEF Calls
  <2>2. Calls(ca, now) = [q \in MapUser |-> Calls(ca, now)[q]]
    BY Zenon DEF Calls
  <2>3. Table(o, mread, dirty, h, ToCopy(mutex, us))
    BY <1>9, Zenon DEF FreeOK
  <2> QED BY <2>1, <2>2, <2>3, <1>1, <1>3, <1>7, <1>8, <1>9, Zenon DEF State
<1>11. IInv(o)' /\ content' = now /\ call' = Calls(ca, now)
  BY <1>1, <1>4, <1>6, <1>10, BecomeState, ZenonT(60) DEF now
<1> QED BY <1>3, <1>11, Zenon DEF Settles, Calls, now

\* In a section under the mutex the tables may change, for a goroutine that takes the
\* mutex, holds it or releases it.
LockOK(o, n, g, u, c, r, d, mi, h, mu) ==
  /\ n \in [Nat -> MapKey \cup {NoValue}] /\ \A x \in DOMAIN entry : n[x] = o[x]
  /\ mutex \in {Unlocked, g} /\ mu \in {Unlocked, g} /\ (mu = g <=> u.pc \in {"write", "copy"})
  /\ r = [m |-> r.m, amended |-> r.amended] /\ r.amended \in BOOLEAN /\ mi \in 0..Cardinality(MapKey)
  /\ u.pc # "copy" => (r.amended <=> d # NoDirty)
  /\ Table(n, r, d, h, IF mu = g THEN DOMAIN u.todo ELSE {})
  /\ Moves(o, mread, entry, r, h, Now(r, d, h))
  /\ UserOK(n, u, Noting(c, Now(r, d, h)), r, d, h)
  /\ c.pc = "pending" => IsPending(c)
\* A step that takes, keeps or releases the mutex keeps IInv.
LEMMA LockStep ==
  ASSUME NEW o, IInv(o), NEW n, NEW g \in MapUser, NEW u, NEW c, NEW r, NEW d, NEW mi, NEW h, NEW mu,
         LockOK(o, n, g, u, c, r, d, mi, h, mu), Steps(g, u, c, r, d, mi, h, mu)
  PROVE  Settles(n, g, c, Now(r, d, h))
PROOF
<1> DEFINE us == [user EXCEPT ![g] = u]
           ca == [call EXCEPT ![g] = c]
           now == Now(r, d, h)
<1>1. State(o, mread, dirty, misses, entry, mutex, user, call) /\ n \in [Nat -> MapKey \cup {NoValue}]
  BY Zenon DEF IInv, LockOK
<1>2. user = [q \in MapUser |-> user[q]] /\ call = [q \in MapUser |-> call[q]]
  BY <1>1, Zenon DEF State
<1>3. /\ us = [q \in MapUser |-> us[q]] /\ \A q \in MapUser : us[q] = IF q = g THEN u ELSE user[q]
      /\ ca = [q \in MapUser |-> ca[q]] /\ \A q \in MapUser : ca[q] = IF q = g THEN c ELSE call[q]
  BY <1>2, Zenon
<1>4. Become(r, d, mi, h, mu, [user |-> us, call |-> ca])
  BY Zenon DEF Steps
<1>5. IsNow(now)
  BY NowTyped, Zenon DEF IsNow
<1> HIDE DEF us, ca, now
<1>6. \A q \in MapUser : ca[q].pc = "pending" => IsPending(ca[q])
  BY <1>1, <1>3 DEF State, UserOK, LockOK
<1>7. \A q \in MapUser : q # g => mutex # q /\ mu # q /\ user[q].pc \notin {"write", "copy"}
  <2>1. \A q \in MapUser : mutex = q <=> user[q].pc \in {"write", "copy"}
    BY <1>1, Zenon DEF State
  <2>2. mutex \in {Unlocked, g} /\ mu \in {Unlocked, g} /\ Unlocked \notin MapUser
    BY IntMapAssumption, Zenon DEF LockOK, Unlocked
  <2> QED BY <2>1, <2>2, Zenon
<1>8. \A q \in MapUser : UserOK(n, us[q], Noting(ca[q], now), r, d, h)
  <2> SUFFICES ASSUME NEW q \in MapUser
               PROVE  UserOK(n, us[q], Noting(ca[q], now), r, d, h)
    BY Zenon
  <2>1. CASE q = g
    BY <2>1, <1>3, Zenon DEF LockOK, now
  <2>2. CASE q # g
    <3>1. UserOK(o, user[q], call[q], mread, dirty, entry)
      BY <1>1, Zenon DEF State
    <3>2. Moves(o, mread, entry, r, h, now) /\ \A x \in DOMAIN entry : n[x] = o[x]
      BY Zenon DEF LockOK, now
    <3>3. UserOK(n, user[q], Noting(call[q], now), r, d, h)
      BY <3>1, <3>2, <2>2, <1>5, <1>7, OtherUser, ZenonT(60)
    <3> QED BY <3>3, <2>2, <1>3, Zenon
  <2> QED BY <2>1, <2>2, ZenonT(60)
<1>9. \A q \in MapUser : mu = q <=> us[q].pc \in {"write", "copy"}
  BY <1>3, <1>7, Zenon DEF LockOK
<1>10. /\ ToCopy(mu, us) = IF mu = g THEN DOMAIN u.todo ELSE {}
       /\ Copier(mu, us) <=> u.pc = "copy"
       /\ mu \in MapUser \cup {Unlocked}
  <2>1. mu \in {Unlocked, g} /\ Unlocked # g /\ (mu = g <=> u.pc \in {"write", "copy"})
    BY IntMapAssumption, Zenon DEF LockOK, Unlocked
  <2> QED BY <2>1, <1>3, Zenon DEF ToCopy, Copier
<1>11. State(n, r, d, mi, h, mu, us, Calls(ca, now))
  <2>1. \A q \in MapUser : Calls(ca, now)[q] = Noting(ca[q], now)
    BY Zenon DEF Calls
  <2>2. Calls(ca, now) = [q \in MapUser |-> Calls(ca, now)[q]]
    BY Zenon DEF Calls
  <2>3. /\ r = [m |-> r.m, amended |-> r.amended] /\ r.amended \in BOOLEAN /\ mi \in 0..Cardinality(MapKey)
        /\ Table(n, r, d, h, ToCopy(mu, us)) /\ (~Copier(mu, us) => (r.amended <=> d # NoDirty))
    BY <1>10, Zenon DEF LockOK
  <2> QED BY <2>1, <2>2, <2>3, <1>3, <1>8, <1>9, <1>10, Zenon DEF State
<1>12. IInv(n)' /\ content' = now /\ call' = Calls(ca, now)
  BY <1>1, <1>4, <1>6, <1>11, BecomeState, ZenonT(60) DEF now
<1> QED BY <1>3, <1>12, Zenon DEF Settles, Calls, now

-----------------------------------------------------------------------------
\* What a call notes when one key changes is what LinearMap says.
LEMMA NotingChange ==
  ASSUME NEW c, IsPending(c), NEW now, IsNow(now), SeenNow(c, now),
         NEW k \in MapKey, NEW v \in MapValue \cup {NoValue}
  PROVE  Noting(c, [now EXCEPT ![k] = v]) =
           IF k \in DOMAIN c.seen THEN [c EXCEPT !.seen[k] = @ \cup {v}] ELSE c
PROOF
<1> DEFINE next == [now EXCEPT ![k] = v]
           s == [j \in DOMAIN c.seen |-> IF j = k THEN c.seen[k] \cup {v} ELSE c.seen[j]]
           n == Noting(c, next)
<1>1. /\ IsNow(next) /\ \A j \in MapKey : next[j] = IF j = k THEN v ELSE now[j]
  BY Zenon DEF IsNow
<1> HIDE DEF next
<1>2. Noted(n, c, next)
  BY <1>1, NotingCall, Zenon
<1> HIDE DEF n
<1>3. /\ c = [pc |-> "pending", op |-> c.op, key |-> c.key, val |-> c.val, seen |-> c.seen]
      /\ c.seen = [j \in DOMAIN c.seen |-> c.seen[j]]
  BY Zenon DEF IsPending
<1>4. /\ n = [pc |-> "pending", op |-> c.op, key |-> c.key, val |-> c.val, seen |-> n.seen]
      /\ n.seen = [j \in DOMAIN c.seen |-> n.seen[j]]
  BY <1>2, Zenon DEF Noted, IsPending
<1>5. \A j \in DOMAIN c.seen : n.seen[j] = c.seen[j] \cup {next[j]} /\ now[j] \in c.seen[j] /\ j \in MapKey
  BY <1>2, PendingCall, Zenon DEF Noted, SeenNow
<1>6. \A j \in DOMAIN c.seen : n.seen[j] = IF j = k THEN c.seen[k] \cup {v} ELSE c.seen[j]
  <2> TAKE j \in DOMAIN c.seen
  <2>1. n.seen[j] = c.seen[j] \cup {next[j]} /\ now[j] \in c.seen[j]
    BY <1>5, Zenon
  <2>2. next[j] = IF j = k THEN v ELSE now[j]
    BY <1>1, <1>5, Zenon
  <2> QED BY <2>1, <2>2, Zenon
<1>7. n.seen = s
  BY <1>4, <1>6, Zenon
<1>8. CASE k \notin DOMAIN c.seen
  <2>1. s = c.seen
    BY <1>8, <1>3, Zenon
  <2>2. n = c
    BY <2>1, <1>3, <1>4, <1>7, Zenon
  <2> QED BY <2>2, <1>8, Zenon DEF n, next
<1>9. CASE k \in DOMAIN c.seen
  <2>1. s = [c.seen EXCEPT ![k] = c.seen[k] \cup {v}]
    BY <1>9, <1>3, Zenon
  <2>2. [c EXCEPT !.seen[k] = @ \cup {v}] = [c EXCEPT !.seen = [c.seen EXCEPT ![k] = c.seen[k] \cup {v}]]
    BY Zenon
  <2> HIDE DEF s
  <2>3. [c EXCEPT !.seen = s] = [pc |-> "pending", op |-> c.op, key |-> c.key, val |-> c.val, seen |-> s]
    BY <1>3
  <2>4. n = [c EXCEPT !.seen[k] = @ \cup {v}]
    BY <2>1, <2>2, <2>3, <1>4, <1>7, Zenon
  <2> QED BY <2>4, <1>9, Zenon DEF n, next
<1> QED BY <1>8, <1>9, Zenon

\* Steps of LinearMap.  Nothing happens to the map and the calls.
Implements == Linear!Next \/ UNCHANGED <<content, call>>
\* A step that changes neither content nor what calls have noted is a stutter of
\* LinearMap.
LEMMA Idle ==
  ASSUME NEW o, NEW n, IInv(o), NEW g \in MapUser, Settles(n, g, call[g], content)
  PROVE  Implements
PROOF
<1>1. IsNow(content) /\ call = [q \in MapUser |-> call[q]]
  BY NowTyped DEF IInv, State, IsNow
<1>2. \A q \in MapUser : Noting(call[q], content) = call[q]
  <2> TAKE q \in MapUser
  <2>1. (call[q].pc = "pending" => IsPending(call[q])) /\ SeenNow(call[q], content)
    BY Zenon DEF IInv, State, UserOK
  <2> QED BY <2>1, <1>1, NotingAgain, NotingNothing, Zenon
<1>3. call' = [q \in MapUser |-> Noting(call[q], content)]
  BY Zenon DEF Settles
<1>4. content' = content
  BY Zenon DEF Settles
<1> QED BY <1>1, <1>2, <1>3, <1>4, Zenon DEF Implements

\* A call is answered that changes nothing.
LEMMA Answered ==
  ASSUME NEW o, NEW n, IInv(o), NEW g \in MapUser, call[g].pc = "pending",
         NEW res \in Linear!Answers(call[g]),
         Settles(n, g, [pc |-> "returning", res |-> res], content)
  PROVE  Implements
PROOF
<1> DEFINE c == [pc |-> "returning", res |-> res]
<1>1. IsNow(content) /\ call = [q \in MapUser |-> call[q]]
  BY NowTyped DEF IInv, State, IsNow
<1>2. \A q \in MapUser : Noting(call[q], content) = call[q]
  <2> TAKE q \in MapUser
  <2>1. (call[q].pc = "pending" => IsPending(call[q])) /\ SeenNow(call[q], content)
    BY Zenon DEF IInv, State, UserOK
  <2> QED BY <2>1, <1>1, NotingAgain, NotingNothing, Zenon
<1>3. c.pc = "returning" /\ Noting(c, content) = c
  BY NotingNothing, Zenon
<1>4. call' = [q \in MapUser |-> Noting(IF q = g THEN c ELSE call[q], content)] /\ content' = content
  BY Zenon DEF Settles
<1> HIDE DEF c
<1>5. call' = [call EXCEPT ![g] = c]
  BY <1>1, <1>2, <1>3, <1>4, Zenon
<1>6. call'[g] # call[g]
  BY <1>1, <1>3, <1>5, Zenon
<1>7. Linear!Answer(g)
  BY <1>4, <1>5, Zenon DEF Linear!Answer, Linear!Returning, c
<1> QED BY <1>6, <1>7, ZenonT(60) DEF Implements, Linear!Next

\* A call takes effect on one key.
LEMMA Changed ==
  ASSUME NEW o, NEW n, IInv(o), NEW g \in MapUser, NEW k \in MapKey,
         NEW v \in MapValue \cup {NoValue}, NEW res,
         Settles(n, g, [pc |-> "returning", res |-> res], [content EXCEPT ![k] = v])
  PROVE  Linear!Change(g, k, v, res)
PROOF
<1> DEFINE c == [pc |-> "returning", res |-> res]
           next == [content EXCEPT ![k] = v]
<1>1. IsNow(content)
  BY NowTyped DEF IInv, State, IsNow
<1>2. \A q \in MapUser : Noting(call[q], next) =
        IF call[q].pc = "pending" /\ k \in DOMAIN call[q].seen
        THEN [call[q] EXCEPT !.seen[k] = @ \cup {v}] ELSE call[q]
  <2> SUFFICES ASSUME NEW q \in MapUser
               PROVE  Noting(call[q], next) =
                        IF call[q].pc = "pending" /\ k \in DOMAIN call[q].seen
                        THEN [call[q] EXCEPT !.seen[k] = @ \cup {v}] ELSE call[q]
    BY Zenon
  <2>1. (call[q].pc = "pending" => IsPending(call[q])) /\ SeenNow(call[q], content)
    BY ZenonT(60) DEF IInv, State, UserOK
  <2>2. CASE call[q].pc = "pending"
    BY <2>1, <2>2, <1>1, NotingChange
  <2>3. CASE call[q].pc # "pending"
    BY <2>3, NotingNothing, Zenon
  <2> QED BY <2>2, <2>3, Zenon
<1>3. c.pc = "returning" /\ Noting(c, next) = c
  BY NotingNothing, Zenon
<1>4. call' = [q \in MapUser |-> Noting(IF q = g THEN c ELSE call[q], next)] /\ content' = next
  BY Zenon DEF Settles
<1> HIDE DEF c, next
<1>5. call' = [q \in MapUser |->
                 IF q = g THEN c
                 ELSE IF call[q].pc = "pending" /\ k \in DOMAIN call[q].seen
                      THEN [call[q] EXCEPT !.seen[k] = @ \cup {v}] ELSE call[q]]
  BY <1>2, <1>3, <1>4, Zenon
<1> QED BY <1>4, <1>5, Zenon DEF Linear!Change, Linear!Returning, c, next

=============================================================================
