------------------------------- MODULE IntMap -------------------------------
(***************************************************************************)
(* IntMap of utils/syncutil: a map with a read-only part that is used      *)
(* without a lock and a dirty part that is used under the mutex.  Both     *)
(* hold pointers to entries, which are read and written atomically.  A     *)
(* step is one atomic access of the read-only part or of an entry, or a    *)
(* section under the mutex that makes one; loops of load and compare and   *)
(* swap are one step, the one that succeeds.                               *)
(***************************************************************************)
EXTENDS Integers, FiniteSets, Functions

CONSTANTS MapUser,    \* the goroutines
          MapKey,     \* the keys
          MapValue,   \* the values, pointers that are not nil
          NoValue,    \* what Load of a key that is not in the map returns
          NilPtr,     \* the pointer of an entry that was deleted
          Expunged    \* the pointer expunged

\* Keys are of type int64, and expunged is a pointer of its own: not nil, and not one
\* a caller has.
ASSUME IntMapAssumption == /\ IsFiniteSet(MapKey)
                           /\ NoValue \notin MapKey \cup MapValue \cup MapUser
                           /\ NilPtr # Expunged /\ {NilPtr, Expunged} \cap MapValue = {}

VARIABLES mread,   \* read: the map m and amended
          dirty,   \* dirty; NoDirty stands for nil
          misses,  \* misses
          entry,   \* the pointer of each entry that is reachable
          mutex,   \* the goroutine in a section that takes several steps
          user,    \* where each goroutine is in its call, and its local variables
          call,    \* the call of each goroutine, with what its keys were mapped to meanwhile
          content  \* history: what every key is mapped to

imVars == <<mread, dirty, misses, entry, mutex, user, call, content>>

NoDirty == [k \in {NoValue} |-> 0]
NoKeys == [k \in {} |-> 0]
NoEntry == 0
Unlocked == NoValue
Result(how, what) == [how |-> how, what |-> what]
Resting == [pc |-> "rest", e |-> NoEntry, todo |-> NoKeys, found |-> NoKeys]
NoCall == [pc |-> "idle"]

IntMapInit == /\ mread = [m |-> NoKeys, amended |-> FALSE]
              /\ dirty = NoDirty /\ misses = 0
              /\ entry = NoKeys /\ mutex = Unlocked
              /\ user = [g \in MapUser |-> Resting] /\ call = [g \in MapUser |-> NoCall]
              /\ content = [k \in MapKey |-> NoValue]

-----------------------------------------------------------------------------
\* What the map holds, as the documentation of its fields says: the entry of the
\* read-only part counts, and the dirty part for the keys that one lacks.
EntryOf(k, r, d) == IF k \in DOMAIN r.m THEN r.m[k]
                    ELSE IF d # NoDirty /\ k \in DOMAIN d THEN d[k] ELSE NoEntry
PointsTo(p) == IF p \in MapValue THEN p ELSE NoValue
ContentOf(k, r, d, h) == IF EntryOf(k, r, d) = NoEntry THEN NoValue ELSE PointsTo(h[EntryOf(k, r, d)])

\* The end of every step: entries nobody points to are gone, and history: pending
\* calls note what their keys are mapped to now.
DirtyEntries(d) == IF d = NoDirty THEN {} ELSE Range(d)
Reachable(r, d, us) ==
  Range(r.m) \cup DirtyEntries(d) \cup {us[g].e : g \in MapUser}
             \cup UNION {Range(us[g].todo) : g \in MapUser}
Noting(c, now) ==
  IF c.pc = "pending"
  THEN [c EXCEPT !.seen = [k \in DOMAIN c.seen |-> c.seen[k] \cup {now[k]}]] ELSE c
Become(r, d, mi, h, mu, next) ==
  /\ mread' = r /\ dirty' = d /\ misses' = mi /\ mutex' = mu
  /\ entry' = Restrict(h, Reachable(r, d, next.user) \cap DOMAIN h)
  /\ user' = next.user
  /\ content' = [k \in MapKey |-> ContentOf(k, r, d, h)]
  /\ call' = [g \in MapUser |-> Noting(next.call[g], content')]

\* What a goroutine does next, and what it returns.
Goes(g, u) == [user |-> [user EXCEPT ![g] = u], call |-> call]
Continue(g, pc, e) == Goes(g, [user[g] EXCEPT !.pc = pc, !.e = e])
Returned(g, res) == [user |-> [user EXCEPT ![g] = Resting],
                     call |-> [call EXCEPT ![g] = [pc |-> "returning", res |-> res]]]
Only(next) == Become(mread, dirty, misses, entry, mutex, next)
Write(e, p, next) == Become(mread, dirty, misses, [entry EXCEPT ![e] = p], mutex, next)
NewEntry == CHOOSE e \in 1..Cardinality(DOMAIN entry) + 1 : e \notin DOMAIN entry
With(f, k, v) == [j \in DOMAIN f \cup {k} |-> IF j = k THEN v ELSE f[j]]
Found(g, v) == Returned(g, Result("loaded", [k \in {call[g].key} |-> v]))
Stored(g) == Returned(g, Result("stored", IF call[g].op = "Store" THEN NoKeys
                                          ELSE [k \in {call[g].key} |-> call[g].val]))
Deleted(g) == Returned(g, Result("deleted", NoKeys))

Watched(op, k) == CASE op = "Range" -> MapKey [] op = "Store" -> {} [] OTHER -> {k}
CallMap(g, op, k, v) ==
  /\ call[g].pc = "idle"
  /\ Only([user |-> [user EXCEPT ![g].pc = "read"],
           call |-> [call EXCEPT ![g] = [pc |-> "pending", op |-> op, key |-> k, val |-> v,
                                         seen |-> [j \in Watched(op, k) |-> {}]]]])
ReturnFromMap(g) == /\ call[g].pc = "returning"
                    /\ Only([user |-> user, call |-> [call EXCEPT ![g] = NoCall]])

\* getRead at the start of every operation: the entry, if the key is there.
\* Otherwise Load and Delete are done when nothing is in the dirty part only.
Hit(g) == call[g].key \in DOMAIN mread.m
NothingThere(g) == IF call[g].op = "Load" THEN Found(g, NoValue) ELSE Deleted(g)
ReadFirst(g) ==
  /\ user[g].pc = "read" /\ call[g].op # "Range"
  /\ Only(IF Hit(g) THEN Continue(g, "entry", mread.m[call[g].key])
          ELSE IF call[g].op \in {"Load", "Delete"} /\ ~mread.amended THEN NothingThere(g)
          ELSE Continue(g, "lock", NoEntry))

\* entry.load and entry.delete
LoadEntry(g, p) ==
  call[g].op = "Load" /\ Only(Found(g, PointsTo(p)))
DeleteEntry(g, p) ==
  /\ call[g].op = "Delete"
  /\ IF p \in {NilPtr, Expunged} THEN Only(Deleted(g))
     ELSE Write(user[g].e, NilPtr, Deleted(g))

\* tryStore: not to an entry that is not in the dirty part.  The mutant does not
\* look.
StoresAnywhere(p) == TRUE
MayStore(p) == p # Expunged
TryStore(g, p) ==
  /\ call[g].op = "Store"
  /\ IF MayStore(p) THEN Write(user[g].e, call[g].val, Stored(g))
     ELSE Only(Continue(g, "lock", NoEntry))

\* tryLoadOrStore
TryLoadOrStore(g, p) ==
  /\ call[g].op = "LoadOrStore"
  /\ CASE p = Expunged -> Only(Continue(g, "lock", NoEntry))
       [] p = NilPtr -> Write(user[g].e, call[g].val, Stored(g))
       [] OTHER -> Only(Found(g, p))
UseEntry(g) ==
  /\ user[g].pc = "entry"
  /\ \/ LoadEntry(g, entry[user[g].e]) \/ DeleteEntry(g, entry[user[g].e])
     \/ TryStore(g, entry[user[g].e]) \/ TryLoadOrStore(g, entry[user[g].e])

-----------------------------------------------------------------------------
\* missLocked: after enough misses the dirty part becomes the read-only one.
Miss(next, h) ==
  IF misses + 1 < Cardinality(DOMAIN dirty)
  THEN Become(mread, dirty, misses + 1, h, mutex, next)
  ELSE Become([m |-> dirty, amended |-> FALSE], NoDirty, 0, h, mutex, next)

InDirty(k) == dirty # NoDirty /\ k \in DOMAIN dirty

\* The section of Load, which looks at the read-only part again.
LoadLocked(g) ==
  /\ call[g].op = "Load"
  /\ IF Hit(g) THEN Only(Continue(g, "entry", mread.m[call[g].key]))
     ELSE IF ~mread.amended THEN Only(NothingThere(g))
     ELSE Miss(IF InDirty(call[g].key) THEN Continue(g, "entry", dirty[call[g].key])
               ELSE NothingThere(g), entry)

\* The section of Delete
DeleteLocked(g) ==
  /\ call[g].op = "Delete"
  /\ IF Hit(g) THEN Only(Continue(g, "entry", mread.m[call[g].key]))
     ELSE IF ~mread.amended THEN Only(NothingThere(g))
     ELSE Become(mread, Restrict(dirty, DOMAIN dirty \ {call[g].key}), misses, entry, mutex,
                 NothingThere(g))

\* The section of Store and LoadOrStore.  An entry of the read-only part that was
\* expunged is put back in the dirty part first; it is written in a later step.
\* The mutant does not put it back.
NotPutBack(k, e) == dirty
PutBack(k, e) == IF entry[e] = Expunged THEN With(dirty, k, e) ELSE dirty
Unexpunge(g, k, e) ==
  /\ Hit(g) /\ e = mread.m[k]
  /\ Become(mread, PutBack(k, e), misses,
            [entry EXCEPT ![e] = IF @ = Expunged THEN NilPtr ELSE @], g, Continue(g, "write", e))
WriteLocked(g) ==
  /\ user[g].pc = "write"
  /\ IF call[g].op = "Store" \/ entry[user[g].e] = NilPtr
     THEN Become(mread, dirty, misses, [entry EXCEPT ![user[g].e] = call[g].val], Unlocked, Stored(g))
     ELSE Become(mread, dirty, misses, entry, Unlocked, Found(g, entry[user[g].e]))

\* The key is in the dirty part only; LoadOrStore counts a miss.
WriteDirty(g, k, v) ==
  /\ ~Hit(g) /\ InDirty(k)
  /\ IF call[g].op = "Store"
     THEN Become(mread, dirty, misses, [entry EXCEPT ![dirty[k]] = v], mutex, Stored(g))
     ELSE IF entry[dirty[k]] = NilPtr
     THEN Miss(Stored(g), [entry EXCEPT ![dirty[k]] = v])
     ELSE Miss(Found(g, entry[dirty[k]]), entry)

\* A new key.  If there is no dirty part, dirtyLocked copies the read-only part to
\* it entry by entry, in any order, and expunges the entries that are deleted.
\* The mutant copies those too.
AddKey(g, k, v, e, mu) ==
  Become([m |-> mread.m, amended |-> TRUE], With(dirty, k, e), misses, With(entry, e, v), mu,
         Stored(g))
AddToDirty(g, k, v) ==
  /\ ~Hit(g) /\ ~InDirty(k) /\ mread.amended
  /\ AddKey(g, k, v, NewEntry, mutex)
StartDirty(g, k, v) ==
  /\ ~Hit(g) /\ ~mread.amended
  /\ Become(mread, NoKeys, misses, entry, g, Goes(g, [user[g] EXCEPT !.pc = "copy", !.todo = mread.m]))
Copies(p) == p \notin {NilPtr, Expunged}
CopyEntry(g, k, e) ==
  /\ user[g].pc = "copy"
  /\ Become(mread, IF Copies(entry[e]) THEN With(dirty, k, e) ELSE dirty, misses,
            [entry EXCEPT ![e] = IF @ = NilPtr THEN Expunged ELSE @], mutex,
            Goes(g, [user[g] EXCEPT !.todo = Restrict(@, DOMAIN @ \ {k})]))
EndDirty(g) ==
  /\ user[g].pc = "copy" /\ user[g].todo = NoKeys
  /\ AddKey(g, call[g].key, call[g].val, NewEntry, Unlocked)

MapLocked(g) ==
  /\ user[g].pc = "lock" /\ mutex = Unlocked
  /\ \/ LoadLocked(g) \/ DeleteLocked(g)
     \/ /\ call[g].op \in {"Store", "LoadOrStore"}
        /\ \/ Hit(g) /\ Unexpunge(g, call[g].key, mread.m[call[g].key])
           \/ WriteDirty(g, call[g].key, call[g].val)
           \/ AddToDirty(g, call[g].key, call[g].val)
           \/ StartDirty(g, call[g].key, call[g].val)

-----------------------------------------------------------------------------
\* Range: the dirty part is promoted if it has keys of its own, and the entries of
\* the read-only part are loaded one by one, in any order.
StartRange(g) ==
  /\ user[g].pc \in {"read", "lock"} /\ call[g].op = "Range"
  /\ \/ /\ user[g].pc = "read"
        /\ Only(IF mread.amended THEN Continue(g, "lock", NoEntry)
                ELSE Goes(g, [user[g] EXCEPT !.pc = "range", !.todo = mread.m]))
     \/ /\ user[g].pc = "lock" /\ mutex = Unlocked
        /\ IF mread.amended
           THEN Become([m |-> dirty, amended |-> FALSE], NoDirty, 0, entry, mutex,
                       Goes(g, [user[g] EXCEPT !.pc = "range", !.todo = dirty]))
           ELSE Only(Goes(g, [user[g] EXCEPT !.pc = "range", !.todo = mread.m]))
RangeEntry(g, k) ==
  /\ user[g].pc = "range"
  /\ Only(Goes(g, [user[g] EXCEPT !.todo = Restrict(@, DOMAIN @ \ {k}),
                                  !.found = With(@, k, PointsTo(entry[user[g].todo[k]]))]))
EndRange(g) ==
  /\ user[g].pc = "range" /\ user[g].todo = NoKeys
  /\ Only(Returned(g, Result("ranged", [k \in MapKey |->
               IF k \in DOMAIN user[g].found THEN user[g].found[k] ELSE NoValue])))

MapRequests == {"Load", "Delete"} \X MapKey \X {NoValue}
               \cup {"Store", "LoadOrStore"} \X MapKey \X MapValue
               \cup {<<"Range", NoValue, NoValue>>}
IntMapNext == \E g \in MapUser :
  \/ \E r \in MapRequests : CallMap(g, r[1], r[2], r[3])
  \/ ReadFirst(g) \/ UseEntry(g) \/ MapLocked(g) \/ WriteLocked(g)
  \/ \E k \in DOMAIN user[g].todo : CopyEntry(g, k, user[g].todo[k]) \/ RangeEntry(g, k)
  \/ EndDirty(g) \/ StartRange(g) \/ EndRange(g) \/ ReturnFromMap(g)
IntMapSpec == IntMapInit /\ [][IntMapNext]_imVars

-----------------------------------------------------------------------------
\* What every path relies on of the two parts.  The dirty part has all entries of
\* the read-only part but the expunged ones, and only those are missing ("If p ==
\* expunged, the entry has been deleted, m.dirty != nil, and the entry is missing
\* from m.dirty"): promoting it or losing it would lose a key otherwise.  amended
\* says that there is a dirty part, whatever keys it has, which becomes the
\* read-only part before there are more misses than keys.
PartsAgree ==
  mutex = Unlocked =>
    /\ misses \in 0..Cardinality(MapKey)
    /\ mread.amended <=> dirty # NoDirty
    /\ \A k \in DOMAIN mread.m :
         IF dirty = NoDirty THEN entry[mread.m[k]] # Expunged
         ELSE IF entry[mread.m[k]] = Expunged THEN k \notin DOMAIN dirty
         ELSE k \in DOMAIN dirty /\ dirty[k] = mread.m[k]

\* "It is safe for multiple goroutines to call a Map's methods concurrently": every
\* call takes effect at one instant between its start and its return, also when it
\* works on an entry it found in a read-only part that was replaced meanwhile.
Linear == INSTANCE LinearMap WITH
  Goroutine <- MapUser, Key <- MapKey, Value <- MapValue, Absent <- NoValue, map <- content
Linearizable == Linear!Spec
=============================================================================
