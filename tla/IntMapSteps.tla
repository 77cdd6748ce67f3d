---------------------------- MODULE IntMapSteps -----------------------------
(***************************************************************************)
(* The steps of IntMap that keep its invariant (IntMapState) without a look *)
(* at the number of keys or of entries: all steps without the mutex, and   *)
(* the sections under it that neither count a miss nor allocate an entry.  *)
(***************************************************************************)
EXTENDS IntMapState, TLAPS

-----------------------------------------------------------------------------
\* What the invariant says of a goroutine.
IntMapInv == \E n \in [Nat -> MapKey \cup {NoValue}] : IInv(n)
\* What the invariant says of the tables and of the goroutine g.
LEMMA Facts ==
  ASSUME NEW o, IInv(o), NEW g \in MapUser
  PROVE  /\ o \in [Nat -> MapKey \cup {NoValue}]
         /\ Table(o, mread, dirty, entry, ToCopy(mutex, user))
         /\ UserOK(o, user[g], call[g], mread, dirty, entry)
         /\ mutex = g <=> user[g].pc \in {"write", "copy"}
         /\ user[g].pc # "rest" => call[g].pc = "pending" /\ IsPending(call[g])
         /\ user = [q \in MapUser |-> user[q]] /\ call = [q \in MapUser |-> call[q]]
         /\ content = Now(mread, dirty, entry) /\ IsNow(content) /\ SeenNow(call[g], content)
         /\ g # Unlocked
PROOF
<1>1. IsNow(content)
  BY NowTyped DEF IInv, IsNow
<1> QED BY <1>1, IntMapAssumption, Zenon DEF IInv, State, UserOK, Unlocked

\* While the mutex is free, nothing is being copied.
LEMMA FreeFacts ==
  ASSUME NEW o, IInv(o), mutex = Unlocked
  PROVE  /\ Table(o, mread, dirty, entry, {}) /\ (mread.amended <=> dirty # NoDirty)
         /\ mread = [m |-> mread.m, amended |-> mread.amended] /\ mread.amended \in BOOLEAN
         /\ misses \in 0..Cardinality(MapKey)
PROOF BY Zenon DEF IInv, State, ToCopy, Copier

\* The state after a step.
LEMMA SettlesInv ==
  ASSUME NEW n, NEW g, NEW c, NEW now, Settles(n, g, c, now)
  PROVE  IntMapInv'
PROOF
<1>1. IInv(n)' /\ n \in [Nat -> MapKey \cup {NoValue}]
  BY Zenon DEF Settles, IInv
<1> QED BY <1>1, Zenon DEF IntMapInv

\* A goroutine that returns, and one that only changes its local variables.
LEMMA GoesSteps ==
  ASSUME NEW o, IInv(o), NEW g \in MapUser, NEW u, NEW r, NEW d, NEW mi, NEW h, NEW mu,
         Become(r, d, mi, h, mu, Goes(g, u))
  PROVE  Steps(g, u, call[g], r, d, mi, h, mu)
PROOF
<1>1. [call EXCEPT ![g] = call[g]] = call
  BY Facts, Zenon
<1> QED BY <1>1, Zenon DEF Goes, Steps

\* A goroutine that has its result rests.
LEMMA ReturnedSteps ==
  ASSUME NEW g, NEW res, NEW r, NEW d, NEW mi, NEW h, NEW mu,
         Become(r, d, mi, h, mu, Returned(g, res))
  PROVE  Steps(g, Resting, [pc |-> "returning", res |-> res], r, d, mi, h, mu)
PROOF BY Zenon DEF Returned, Steps

\* Nothing is asked of a goroutine that rests.
LEMMA RestingOK ==
  ASSUME NEW n, NEW res, NEW now, NEW r, NEW d, NEW h
  PROVE  /\ UserOK(n, Resting, Noting([pc |-> "returning", res |-> res], now), r, d, h)
         /\ Resting.pc = "rest" /\ [pc |-> "returning", res |-> res].pc # "pending"
PROOF
<1> DEFINE c == [pc |-> "returning", res |-> res]
<1>1. c.pc = "returning"
  BY Zenon
<1> HIDE DEF c
<1>2. Noting(c, now) = c
  BY <1>1, NotingNothing, Zenon
<1>3. /\ Resting.pc = "rest" /\ Resting.e = NoEntry /\ Resting.todo = NoKeys /\ Resting.found = NoKeys
      /\ DOMAIN Resting = {"pc", "e", "todo", "found"}
  BY Zenon DEF Resting
<1>4. UserOK(n, Resting, c, r, d, h)
  BY <1>1, <1>3, Zenon DEF UserOK
<1> QED BY <1>1, <1>2, <1>3, <1>4, Zenon DEF c

\* A step outside the sections of several steps that leaves the tables alone: the
\* goroutine goes on, or its call is answered.
LEMMA GoesOn ==
  ASSUME NEW o, IInv(o), NEW g \in MapUser, mutex # g, call[g].pc = "pending",
         NEW u, Only(Goes(g, u)),
         u.pc \notin {"write", "copy"}, UserOK(o, u, call[g], mread, dirty, entry)
  PROVE  IntMapInv' /\ Implements
PROOF
<1>1. Steps(g, u, call[g], mread, dirty, misses, entry, mutex)
  BY GoesSteps, Zenon DEF Only
<1>2. IsPending(call[g]) /\ Noting(call[g], content) = call[g]
  BY Facts, NotingAgain, Zenon DEF UserOK
<1>3. FreeOK(o, g, u, call[g], entry)
  BY <1>2, Facts, MovesNothing, Zenon DEF FreeOK
<1>4. Settles(o, g, call[g], content)
  BY <1>1, <1>3, FreeStep, Facts
<1> QED BY <1>4, SettlesInv, Idle, Zenon

\* A call that gets one of the answers LinearMap allows, with the tables unchanged.
LEMMA IsAnswered ==
  ASSUME NEW o, IInv(o), NEW g \in MapUser, mutex # g, call[g].pc = "pending",
         NEW res \in Linear!Answers(call[g]), Only(Returned(g, res))
  PROVE  IntMapInv' /\ Implements
PROOF
<1> DEFINE c == [pc |-> "returning", res |-> res]
<1>1. Steps(g, Resting, c, mread, dirty, misses, entry, mutex)
  BY ReturnedSteps, Zenon DEF Only
<1>2. FreeOK(o, g, Resting, c, entry)
  BY Facts, MovesNothing, RestingOK, Zenon DEF FreeOK
<1>3. Settles(o, g, c, content)
  BY <1>1, <1>2, FreeStep, Facts
<1> QED BY <1>3, SettlesInv, Answered, Zenon

\* A step that writes the entry of the goroutine's key and returns.
LEMMA WritesEntry ==
  ASSUME NEW o, IInv(o), NEW g \in MapUser, mutex # g, NEW k \in MapKey,
         NEW e, e = EntryOf(k, mread, dirty), e # NoEntry, entry[e] # Expunged,
         NEW p \in Pointers, p # Expunged, NEW res, Write(e, p, Returned(g, res))
  PROVE  IntMapInv' /\ Linear!Change(g, k, PointsTo(p), res)
PROOF
<1> DEFINE c == [pc |-> "returning", res |-> res]
           w == [entry EXCEPT ![e] = p]
<1>1. Steps(g, Resting, c, mread, dirty, misses, w, mutex)
  BY ReturnedSteps, Zenon DEF Write
<1>2. Table(o, mread, dirty, entry, ToCopy(mutex, user)) /\ content = Now(mread, dirty, entry)
  BY Facts, Zenon
<1>3. /\ Table(o, mread, dirty, w, ToCopy(mutex, user))
      /\ Now(mread, dirty, w) = [content EXCEPT ![k] = PointsTo(p)]
      /\ Moves(o, mread, entry, mread, w, Now(mread, dirty, w))
      /\ \A x \in DOMAIN entry : w[x] = Expunged <=> entry[x] = Expunged
  BY <1>2, WriteTable
<1> HIDE DEF w
<1>4. FreeOK(o, g, Resting, c, w)
  BY <1>3, RestingOK, Zenon DEF FreeOK
<1> HIDE DEF c
<1>5. Settles(o, g, c, [content EXCEPT ![k] = PointsTo(p)])
  <2>1. Settles(o, g, c, Now(mread, dirty, w))
    BY <1>1, <1>4, FreeStep, Zenon
  <2>2. Now(mread, dirty, w) = [content EXCEPT ![k] = PointsTo(p)]
    BY <1>3, Zenon
  <2> QED BY <2>1, <2>2, Zenon
<1>6. PointsTo(p) \in MapValue \cup {NoValue}
  BY Pointing, Zenon
<1> QED BY <1>5, <1>6, SettlesInv, Changed, Zenon DEF c

-----------------------------------------------------------------------------
\* The local variables of a goroutine after an assignment to some.
IsLocal(u, pc, e, todo, found) ==
  /\ DOMAIN u = {"pc", "e", "todo", "found"}
  /\ u.pc = pc /\ u.e = e /\ u.todo = todo /\ u.found = found
\* A goroutine assigns some of its local variables.
LEMMA Locals ==
  ASSUME NEW u, DOMAIN u = {"pc", "e", "todo", "found"}, NEW p, NEW e, NEW t, NEW f
  PROVE  /\ IsLocal([u EXCEPT !.pc = p], p, u.e, u.todo, u.found)
         /\ IsLocal([u EXCEPT !.pc = p, !.e = e], p, e, u.todo, u.found)
         /\ IsLocal([u EXCEPT !.pc = p, !.todo = t], p, u.e, t, u.found)
         /\ IsLocal([u EXCEPT !.todo = t], u.pc, u.e, t, u.found)
         /\ IsLocal([u EXCEPT !.todo = t, !.found = f], u.pc, u.e, t, f)
PROOF
<1>1. IsLocal([u EXCEPT !.pc = p], p, u.e, u.todo, u.found)
  BY Zenon DEF IsLocal
<1>2. IsLocal([u EXCEPT !.pc = p, !.e = e], p, e, u.todo, u.found)
  BY Zenon DEF IsLocal
<1>3. IsLocal([u EXCEPT !.pc = p, !.todo = t], p, u.e, t, u.found)
  BY Zenon DEF IsLocal
<1>4. IsLocal([u EXCEPT !.todo = t], u.pc, u.e, t, u.found)
  BY Zenon DEF IsLocal
<1>5. IsLocal([u EXCEPT !.todo = t, !.found = f], u.pc, u.e, t, f)
  BY Zenon DEF IsLocal
<1> QED BY <1>1, <1>2, <1>3, <1>4, <1>5, Zenon

\* A goroutine that is about to read, to lock, or to use an entry, and one in Range.
LEMMA WaitingOK ==
  ASSUME NEW u, NEW pc \in {"read", "lock"}, IsLocal(u, pc, NoEntry, NoKeys, NoKeys), NEW c, IsPending(c),
         NEW o, NEW r, NEW d, NEW h
  PROVE  UserOK(o, u, c, r, d, h)
PROOF BY PendingCall, Zenon DEF IsLocal, UserOK

\* UserOK of a goroutine that is at an entry.
LEMMA EntryOK ==
  ASSUME NEW u, NEW e, IsLocal(u, "entry", e, NoKeys, NoKeys), NEW c, IsPending(c),
         NEW o, NEW r, NEW d, NEW h, AtEntry(o, u, c, r, h)
  PROVE  UserOK(o, u, c, r, d, h)
PROOF BY PendingCall, Zenon DEF IsLocal, UserOK

\* UserOK of a goroutine that is in Range.
LEMMA RangeOK ==
  ASSUME NEW u, NEW t, NEW f, IsLocal(u, "range", NoEntry, t, f), NEW c, IsPending(c),
         NEW o, NEW r, NEW d, NEW h, Ranging(o, u, c, h)
  PROVE  UserOK(o, u, c, r, d, h)
PROOF BY PendingCall, Zenon DEF IsLocal, UserOK

\* A call begins.
LEMMA CallMapInv ==
  ASSUME NEW o, IInv(o), NEW g \in MapUser, NEW op, NEW k, NEW v, <<op, k, v>> \in MapRequests,
         CallMap(g, op, k, v)
  PROVE  IntMapInv' /\ Implements
PROOF
<1> DEFINE s == [j \in Watched(op, k) |-> {}]
           c == [pc |-> "pending", op |-> op, key |-> k, val |-> v, seen |-> s]
           u == [user[g] EXCEPT !.pc = "read"]
<1>1. user[g].pc = "rest" /\ mutex # g /\ call[g].pc = "idle"
  BY Facts, Zenon DEF CallMap, UserOK
<1>2. IsLocal(u, "read", NoEntry, NoKeys, NoKeys)
  <2>1. UserOK(o, user[g], call[g], mread, dirty, entry)
    BY Facts, Zenon
  <2>2. IsLocal(u, "read", user[g].e, user[g].todo, user[g].found)
    BY <2>1, Locals, Zenon DEF UserOK
  <2> QED BY <2>1, <2>2, <1>1, Zenon DEF UserOK
<1>3. Steps(g, u, c, mread, dirty, misses, entry, mutex)
  BY Facts, Zenon DEF CallMap, Only, Steps
<1>4. c.pc = "pending" /\ c.op = op /\ c.key = k /\ c.val = v /\ c.seen = s
  BY Zenon
<1>5. IsPending(c)
  BY <1>4, Zenon DEF IsPending
<1> HIDE DEF c, s, u
<1>6. Noted(Noting(c, content), c, content)
  BY <1>5, Facts, NotingCall, Zenon
<1>7. UserOK(o, u, Noting(c, content), mread, dirty, entry) /\ u.pc = "read"
  BY <1>2, <1>6, WaitingOK, Zenon DEF Noted, IsLocal
<1>8. FreeOK(o, g, u, c, entry)
  BY <1>1, <1>5, <1>7, Facts, MovesNothing, Zenon DEF FreeOK
<1>9. Settles(o, g, c, content)
  BY <1>3, <1>8, FreeStep, Facts
<1>10. Noting(c, content) = [pc |-> "pending", op |-> op, key |-> k, val |-> v,
                             seen |-> [j \in Watched(op, k) |-> {content[j]}]]
  <2> DEFINE n == Noting(c, content)
  <2> HIDE DEF n
  <2>1. n = [pc |-> "pending", op |-> op, key |-> k, val |-> v, seen |-> n.seen]
        /\ DOMAIN n.seen = Watched(op, k) /\ n.seen = [j \in DOMAIN n.seen |-> n.seen[j]]
    BY <1>4, <1>6, PendingCall, Zenon DEF Noted, IsPending, n
  <2>2. DOMAIN s = Watched(op, k) /\ \A j \in Watched(op, k) : s[j] = {}
    BY Zenon DEF s
  <2>3. \A j \in Watched(op, k) : n.seen[j] = {content[j]}
    BY <1>4, <1>6, <2>2, Zenon DEF Noted, n
  <2>4. n.seen = [j \in Watched(op, k) |-> {content[j]}]
    BY <2>1, <2>3, Zenon
  <2> QED BY <2>1, <2>4, Zenon DEF n
<1>11. \A q \in MapUser : Noting(call[q], content) = call[q]
  <2> TAKE q \in MapUser
  <2>1. (call[q].pc = "pending" => IsPending(call[q])) /\ SeenNow(call[q], content) /\ IsNow(content)
    BY Facts, Zenon DEF UserOK
  <2> QED BY <2>1, NotingAgain, NotingNothing, Zenon
<1>12. call' = [call EXCEPT ![g] = Noting(c, content)] /\ content' = content
  <2>1. call = [q \in MapUser |-> call[q]]
    BY Facts, Zenon
  <2>2. call' = [q \in MapUser |-> Noting(IF q = g THEN c ELSE call[q], content)] /\ content' = content
    BY <1>9, Zenon DEF Settles
  <2> QED BY <2>1, <2>2, <1>11, Zenon
<1>13. Linear!Invoke(g, op, k, v)
  BY <1>1, <1>10, <1>12, Zenon DEF Linear!Invoke, Linear!KeysOf, Watched
<1>14. call'[g] # call[g]
  <2>1. call'[g] = Noting(c, content) /\ Noting(c, content).pc = "pending"
    BY <1>6, <1>12, Facts, PendingCall, Zenon DEF Noted
  <2> QED BY <2>1, <1>1, Zenon
<1>15. Linear!Next
  <2>1. <<op, k, v>> \in Linear!Requests
    BY Zenon DEF Linear!Requests, MapRequests
  <2>2. Linear!Invoke(g, <<op, k, v>>[1], <<op, k, v>>[2], <<op, k, v>>[3])
    BY <1>13, Zenon
  <2> QED BY <2>1, <2>2, <1>14, Zenon DEF Linear!Next
<1> QED BY <1>9, <1>15, SettlesInv, Zenon DEF Implements

\* A call returns.
LEMMA ReturnFromMapInv ==
  ASSUME NEW o, IInv(o), NEW g \in MapUser, ReturnFromMap(g)
  PROVE  IntMapInv' /\ Implements
PROOF
<1>1. call[g].pc = "returning" /\ user[g].pc = "rest" /\ mutex # g
  BY Facts, Zenon DEF ReturnFromMap, UserOK
<1>2. Steps(g, user[g], NoCall, mread, dirty, misses, entry, mutex)
  <2>1. [user EXCEPT ![g] = user[g]] = user
    BY Facts, Zenon
  <2> QED BY <2>1, Zenon DEF ReturnFromMap, Only, Steps
<1>3. NoCall.pc = "idle" /\ Noting(NoCall, content) = NoCall
  BY NotingNothing, Zenon DEF NoCall
<1>4. UserOK(o, user[g], NoCall, mread, dirty, entry)
  <2>1. UserOK(o, user[g], call[g], mread, dirty, entry)
    BY Facts, Zenon
  <2> QED BY <2>1, <1>1, <1>3, Zenon DEF UserOK
<1>5. FreeOK(o, g, user[g], NoCall, entry)
  BY <1>1, <1>3, <1>4, Facts, MovesNothing, Zenon DEF FreeOK
<1>6. Settles(o, g, NoCall, content)
  BY <1>2, <1>5, FreeStep, Facts
<1>7. \A q \in MapUser : Noting(call[q], content) = call[q]
  <2> TAKE q \in MapUser
  <2>1. (call[q].pc = "pending" => IsPending(call[q])) /\ SeenNow(call[q], content) /\ IsNow(content)
    BY Facts, Zenon DEF UserOK
  <2> QED BY <2>1, NotingAgain, NotingNothing, Zenon
<1>8. call' = [call EXCEPT ![g] = NoCall] /\ content' = content
  <2>1. call = [q \in MapUser |-> call[q]]
    BY Facts, Zenon
  <2>2. call' = [q \in MapUser |-> Noting(IF q = g THEN NoCall ELSE call[q], content)] /\ content' = content
    BY <1>6, Zenon DEF Settles
  <2> QED BY <2>1, <2>2, <1>3, <1>7, Zenon
<1>9. Linear!Return(g) /\ call'[g] # call[g]
  <2>1. call'[g] = NoCall
    BY <1>8, Facts, Zenon
  <2> QED BY <2>1, <1>1, <1>3, <1>8, Zenon DEF Linear!Return, Linear!NoCall, NoCall
<1> QED BY <1>6, <1>9, SettlesInv, Zenon DEF Implements, Linear!Next

\* The answers LinearMap allows.
LEMMA AnswersAre ==
  ASSUME NEW c, IsPending(c)
  PROVE  /\ c.op = "Load" => \A v \in c.seen[c.key] :
              Result("loaded", [k \in {c.key} |-> v]) \in Linear!Answers(c)
         /\ c.op = "Delete" /\ NoValue \in c.seen[c.key] =>
              Result("deleted", NoKeys) \in Linear!Answers(c)
         /\ c.op = "LoadOrStore" => \A v \in c.seen[c.key] :
              v # NoValue => Result("loaded", [k \in {c.key} |-> v]) \in Linear!Answers(c)
         /\ c.op = "Range" => \A f \in [MapKey -> MapValue \cup {NoValue}] :
              (\A k \in MapKey : f[k] \in c.seen[k]) => Result("ranged", f) \in Linear!Answers(c)
PROOF
<1>1. /\ \A how, what : Linear!Result(how, what) = Result(how, what)
      /\ \A k, v : Linear!Just(k, v) = [j \in {k} |-> v]
  BY Zenon DEF Linear!Result, Result, Linear!Just
<1>2. Linear!Nothing = NoKeys
  BY Zenon DEF Linear!Nothing, NoKeys
<1>3. c.op = "Load" => Linear!Answers(c) = {Linear!Result("loaded", Linear!Just(c.key, v)) : v \in c.seen[c.key]}
  BY Zenon DEF Linear!Answers
<1>4. c.op = "Delete" => Linear!Answers(c) =
        {Linear!Result("deleted", Linear!Nothing) : v \in c.seen[c.key] \cap {NoValue}}
  BY Zenon DEF Linear!Answers
<1>5. c.op = "LoadOrStore" => Linear!Answers(c) =
        {Linear!Result("loaded", Linear!Just(c.key, v)) : v \in c.seen[c.key] \ {NoValue}}
  BY Zenon DEF Linear!Answers
<1>6. c.op = "Range" => Linear!Answers(c) =
        {Linear!Result("ranged", f) : f \in {f \in [MapKey -> MapValue \cup {NoValue}] :
                                               \A k \in MapKey : f[k] \in c.seen[k]}}
  BY Zenon DEF Linear!Answers
<1>7. c.op = "Load" => \A v \in c.seen[c.key] :
        Result("loaded", [k \in {c.key} |-> v]) \in Linear!Answers(c)
  BY <1>1, <1>3, Zenon
<1>8. c.op = "Delete" /\ NoValue \in c.seen[c.key] => Result("deleted", NoKeys) \in Linear!Answers(c)
  BY <1>1, <1>2, <1>4, Zenon
<1>9. c.op = "LoadOrStore" => \A v \in c.seen[c.key] :
        v # NoValue => Result("loaded", [k \in {c.key} |-> v]) \in Linear!Answers(c)
  BY <1>1, <1>5, Zenon
<1>10. c.op = "Range" => \A f \in [MapKey -> MapValue \cup {NoValue}] :
         (\A k \in MapKey : f[k] \in c.seen[k]) => Result("ranged", f) \in Linear!Answers(c)
  BY <1>1, <1>6, Zenon
<1> QED BY <1>7, <1>8, <1>9, <1>10, Zenon

\* A call that takes effect.
LEMMA TakesEffect ==
  ASSUME NEW o, IInv(o), NEW g \in MapUser, call[g].pc = "pending", NEW v, NEW res,
         Linear!Change(g, call[g].key, v, res),
         \/ call[g].op = "Store" /\ v = call[g].val /\ res = Result("stored", NoKeys)
         \/ call[g].op = "Delete" /\ v = NoValue /\ res = Result("deleted", NoKeys)
         \/ /\ call[g].op = "LoadOrStore" /\ v = call[g].val /\ content[call[g].key] = NoValue
            /\ res = Result("stored", [k \in {call[g].key} |-> call[g].val])
  PROVE  Implements
PROOF
<1>1. /\ \A how, what : Linear!Result(how, what) = Result(how, what)
      /\ \A k, w : Linear!Just(k, w) = [j \in {k} |-> w]
      /\ Linear!Nothing = NoKeys
  BY Zenon DEF Linear!Result, Result, Linear!Just, Linear!Nothing, NoKeys
<1>2. Linear!Effect(g)
  BY <1>1, Zenon DEF Linear!Effect
<1>3. call'[g] # call[g]
  <2>1. call'[g] = Linear!Returning(res) /\ Linear!Returning(res).pc = "returning"
    BY Zenon DEF Linear!Change, Linear!Returning
  <2> QED BY <2>1, Zenon
<1> QED BY <1>2, <1>3, Zenon DEF Implements, Linear!Next

\* A goroutine that finds its key in the read-only part goes on with the entry.
LEMMA HitEntry ==
  ASSUME NEW o, IInv(o), NEW g \in MapUser, user[g].pc \in {"read", "lock"}, call[g].op # "Range", Hit(g),
         Only(Continue(g, "entry", mread.m[call[g].key]))
  PROVE  IntMapInv' /\ Implements
PROOF
<1> DEFINE k == call[g].key
           e == mread.m[k]
           u == [user[g] EXCEPT !.pc = "entry", !.e = e]
<1>1. UserOK(o, user[g], call[g], mread, dirty, entry) /\ mutex # g
      /\ call[g].pc = "pending" /\ IsPending(call[g])
  BY Facts, Zenon
<1>2. IsLocal(u, "entry", e, NoKeys, NoKeys)
  <2>1. IsLocal(u, "entry", e, user[g].todo, user[g].found)
    BY <1>1, Locals, Zenon DEF UserOK
  <2> QED BY <2>1, <1>1, Zenon DEF UserOK
<1>3. Only(Goes(g, u))
  BY Zenon DEF Continue
<1> HIDE DEF u
<1>4. k \in DOMAIN mread.m /\ k \in MapKey
  BY <1>1, PendingCall, Zenon DEF Hit
<1>5. Table(o, mread, dirty, entry, ToCopy(mutex, user)) /\ content = Now(mread, dirty, entry)
      /\ SeenNow(call[g], content)
  BY Facts, Zenon
<1>6. e \in DOMAIN entry /\ o[e] = k /\ content[k] = PointsTo(entry[e])
  BY <1>4, <1>5, InTable, NowIs, SMTT(30)
<1>7. call[g].op # "Store" => PointsTo(entry[e]) \in call[g].seen[k]
  BY <1>1, <1>5, <1>6, PendingCall, SMTT(30) DEF SeenNow
<1>8. AtEntry(o, u, call[g], mread, entry)
  BY <1>2, <1>4, <1>6, <1>7, Zenon DEF AtEntry, Live, IsLocal
<1>9. UserOK(o, u, call[g], mread, dirty, entry) /\ u.pc = "entry"
  BY <1>1, <1>2, <1>8, EntryOK, Zenon DEF IsLocal
<1> QED BY <1>1, <1>3, <1>9, GoesOn, Zenon

\* A goroutine that has to take the mutex.
LEMMA GoesToLock ==
  ASSUME NEW o, IInv(o), NEW g \in MapUser, user[g].pc \in {"read", "lock", "entry"},
         Only(Continue(g, "lock", NoEntry))
  PROVE  IntMapInv' /\ Implements
PROOF
<1> DEFINE u == [user[g] EXCEPT !.pc = "lock", !.e = NoEntry]
<1>1. UserOK(o, user[g], call[g], mread, dirty, entry) /\ mutex # g
      /\ call[g].pc = "pending" /\ IsPending(call[g])
  BY Facts, Zenon
<1>2. IsLocal(u, "lock", NoEntry, NoKeys, NoKeys)
  <2>1. IsLocal(u, "lock", NoEntry, user[g].todo, user[g].found)
    BY <1>1, Locals, Zenon DEF UserOK
  <2> QED BY <2>1, <1>1, Zenon DEF UserOK
<1>3. Only(Goes(g, u))
  BY Zenon DEF Continue
<1> HIDE DEF u
<1>4. UserOK(o, u, call[g], mread, dirty, entry) /\ u.pc = "lock"
  BY <1>1, <1>2, WaitingOK, Zenon DEF IsLocal
<1> QED BY <1>1, <1>3, <1>4, GoesOn, Zenon

\* A key that is not in the read-only part while nothing is in the dirty part only.
LEMMA NotThere ==
  ASSUME NEW o, IInv(o), ~mread.amended, NEW k \in MapKey, k \notin DOMAIN mread.m
  PROVE  content[k] = NoValue
PROOF
<1>1. State(o, mread, dirty, misses, entry, mutex, user, call) /\ content = Now(mread, dirty, entry)
  BY Zenon DEF IInv
<1>2. Table(o, mread, dirty, entry, ToCopy(mutex, user))
  BY <1>1, Zenon DEF State
<1>3. k \notin DirtyKeys(dirty)
  <2>1. CASE ~Copier(mutex, user)
    <3>1. dirty = NoDirty
      BY <1>1, <2>1, Zenon DEF State
    <3> QED BY <3>1, Zenon DEF DirtyKeys
  <2>2. CASE Copier(mutex, user)
    <3>1. mutex \in MapUser /\ user[mutex].pc = "copy"
      BY <2>2, <1>1, Zenon DEF State, Copier
    <3>2. UserOK(o, user[mutex], call[mutex], mread, dirty, entry)
      BY <3>1, <1>1, Zenon DEF State
    <3>3. Copying(user[mutex], call[mutex], mread, dirty)
      BY <3>1, <3>2, Zenon DEF UserOK
    <3> QED BY <3>3, Zenon DEF Copying, DirtyKeys
  <2> QED BY <2>1, <2>2, Zenon
<1> QED BY <1>1, <1>2, <1>3, NowIs, Zenon

\* The answer of Load and Delete when the key is nowhere.
LEMMA NothingIsThere ==
  ASSUME NEW o, IInv(o), NEW g \in MapUser, call[g].pc = "pending", call[g].op \in {"Load", "Delete"},
         content[call[g].key] = NoValue
  PROVE  \E res \in Linear!Answers(call[g]) : NothingThere(g) = Returned(g, res)
PROOF
<1>1. IsPending(call[g]) /\ SeenNow(call[g], content)
  BY Facts, Zenon DEF UserOK
<1>2. NoValue \in call[g].seen[call[g].key]
  BY <1>1, PendingCall, Zenon DEF SeenNow
<1>3. CASE call[g].op = "Load"
  <2>1. Result("loaded", [k \in {call[g].key} |-> NoValue]) \in Linear!Answers(call[g])
    BY <1>1, <1>2, <1>3, AnswersAre, Zenon
  <2>2. NothingThere(g) = Returned(g, Result("loaded", [k \in {call[g].key} |-> NoValue]))
    BY <1>3, Zenon DEF NothingThere, Found
  <2> QED BY <2>1, <2>2, Zenon
<1>4. CASE call[g].op = "Delete"
  <2>1. Result("deleted", NoKeys) \in Linear!Answers(call[g])
    BY <1>1, <1>2, <1>4, AnswersAre, Zenon
  <2>2. NothingThere(g) = Returned(g, Result("deleted", NoKeys))
    BY <1>4, Zenon DEF NothingThere, Deleted
  <2> QED BY <2>1, <2>2, Zenon
<1> QED BY <1>3, <1>4, Zenon

\* getRead at the start of an operation.
LEMMA ReadFirstInv ==
  ASSUME NEW o, IInv(o), NEW g \in MapUser, ReadFirst(g)
  PROVE  IntMapInv' /\ Implements
PROOF
<1>1. user[g].pc = "read" /\ call[g].op # "Range"
  BY Zenon DEF ReadFirst
<1>2. call[g].pc = "pending" /\ IsPending(call[g]) /\ mutex # g
  BY <1>1, Facts, Zenon
<1>3. CASE Hit(g)
  <2>1. Only(Continue(g, "entry", mread.m[call[g].key]))
    BY <1>3, Zenon DEF ReadFirst
  <2> QED BY <2>1, <1>1, <1>3, HitEntry, Zenon
<1>4. CASE ~Hit(g) /\ call[g].op \in {"Load", "Delete"} /\ ~mread.amended
  <2>1. Only(NothingThere(g))
    BY <1>4, Zenon DEF ReadFirst
  <2>2. content[call[g].key] = NoValue
    BY <1>1, <1>2, <1>4, NotThere, PendingCall, Zenon DEF Hit
  <2>3. PICK res \in Linear!Answers(call[g]) : NothingThere(g) = Returned(g, res)
    BY <1>2, <1>4, <2>2, NothingIsThere, Zenon
  <2> QED BY <1>2, <2>1, <2>3, IsAnswered, Zenon
<1>5. CASE ~Hit(g) /\ ~(call[g].op \in {"Load", "Delete"} /\ ~mread.amended)
  <2>1. Only(Continue(g, "lock", NoEntry))
    BY <1>5, Zenon DEF ReadFirst
  <2> QED BY <2>1, <1>1, GoesToLock, Zenon
<1> QED BY <1>3, <1>4, <1>5, Zenon

\* The atomic access of the entry a goroutine holds.
LEMMA UseEntryInv ==
  ASSUME NEW o, IInv(o), NEW g \in MapUser, UseEntry(g)
  PROVE  IntMapInv' /\ Implements
PROOF
<1> DEFINE c == call[g]
           e == user[g].e
           p == entry[e]
<1>1. user[g].pc = "entry"
  BY Zenon DEF UseEntry
<1>2. c.pc = "pending" /\ IsPending(c) /\ mutex # g /\ AtEntry(o, user[g], c, mread, entry)
  BY <1>1, Facts, Zenon DEF UserOK
<1>3. e \in DOMAIN entry /\ o[e] = c.key /\ c.op # "Range" /\ c.key \in MapKey
  BY <1>2, PendingCall, Zenon DEF AtEntry
<1>4. Table(o, mread, dirty, entry, ToCopy(mutex, user)) /\ content = Now(mread, dirty, entry)
  BY Facts, Zenon
<1>5. p \in Pointers /\ e # NoEntry
  BY <1>3, <1>4, InTable
<1>6. c.op # "Load" /\ p # Expunged => e = EntryOf(c.key, mread, dirty) /\ content[c.key] = PointsTo(p)
  <2> HAVE c.op # "Load" /\ p # Expunged
  <2>1. c.key \in DOMAIN mread.m /\ mread.m[c.key] = e
    BY <1>2, Zenon DEF AtEntry, Live
  <2> QED BY <2>1, <1>3, <1>4, EntryOfKey, NowIs, SMTT(30)
<1>7. c.op # "Store" => PointsTo(p) \in c.seen[c.key]
  BY <1>2, Zenon DEF AtEntry
<1>8. CASE LoadEntry(g, p)
  <2>1. c.op = "Load" /\ Only(Returned(g, Result("loaded", [k \in {c.key} |-> PointsTo(p)])))
    BY <1>8, Zenon DEF LoadEntry, Found
  <2>2. Result("loaded", [k \in {c.key} |-> PointsTo(p)]) \in Linear!Answers(c)
    BY <2>1, <1>2, <1>7, AnswersAre, Zenon
  <2> QED BY <2>1, <2>2, <1>2, IsAnswered, Zenon
<1>9. CASE DeleteEntry(g, p)
  <2>1. c.op = "Delete"
    BY <1>9, Zenon DEF DeleteEntry
  <2>2. CASE p \in {NilPtr, Expunged}
    <3>1. Only(Returned(g, Result("deleted", NoKeys)))
      BY <2>2, <1>9, Zenon DEF DeleteEntry, Deleted
    <3>2. Result("deleted", NoKeys) \in Linear!Answers(c)
      <4>1. NoValue \in c.seen[c.key]
        BY <2>1, <2>2, <1>7, Pointing, Zenon
      <4> QED BY <4>1, <2>1, <1>2, AnswersAre, Zenon
    <3> QED BY <3>1, <3>2, <1>2, IsAnswered, Zenon
  <2>3. CASE p \notin {NilPtr, Expunged}
    <3>1. Write(e, NilPtr, Returned(g, Result("deleted", NoKeys)))
      BY <2>3, <1>9, Zenon DEF DeleteEntry, Deleted
    <3>2. e = EntryOf(c.key, mread, dirty) /\ p # Expunged
      BY <2>1, <2>3, <1>6, Zenon
    <3>3. NilPtr \in Pointers /\ NilPtr # Expunged /\ PointsTo(NilPtr) = NoValue
      BY Pointing, Zenon DEF Pointers
    <3>4. IntMapInv' /\ Linear!Change(g, c.key, NoValue, Result("deleted", NoKeys))
      BY <3>1, <3>2, <3>3, <1>2, <1>3, <1>5, WritesEntry, Zenon
    <3> QED BY <3>4, <2>1, <1>2, TakesEffect, Zenon
  <2> QED BY <2>2, <2>3, Zenon
<1>10. CASE TryStore(g, p)
  <2>1. c.op = "Store" /\ c.val \in MapValue
    BY <1>10, <1>2, PendingCall, Zenon DEF TryStore
  <2>2. CASE p = Expunged
    <3>1. Only(Continue(g, "lock", NoEntry))
      BY <2>2, <1>10, Zenon DEF TryStore, MayStore
    <3> QED BY <3>1, <1>1, GoesToLock, Zenon
  <2>3. CASE p # Expunged
    <3>1. Write(e, c.val, Returned(g, Result("stored", NoKeys)))
      BY <2>1, <2>3, <1>10, Zenon DEF TryStore, MayStore, Stored
    <3>2. e = EntryOf(c.key, mread, dirty)
      BY <2>1, <2>3, <1>6, Zenon
    <3>3. c.val \in Pointers /\ c.val # Expunged /\ PointsTo(c.val) = c.val
      BY <2>1, Pointing, Zenon DEF Pointers
    <3>4. IntMapInv' /\ Linear!Change(g, c.key, c.val, Result("stored", NoKeys))
      BY <3>1, <3>2, <3>3, <2>3, <1>2, <1>3, <1>5, WritesEntry, Zenon
    <3> QED BY <3>4, <2>1, <1>2, TakesEffect, Zenon
  <2> QED BY <2>2, <2>3, Zenon
<1>11. CASE TryLoadOrStore(g, p)
  <2>1. c.op = "LoadOrStore" /\ c.val \in MapValue
    BY <1>11, <1>2, PendingCall, Zenon DEF TryLoadOrStore
  <2>2. CASE p = Expunged
    <3>1. Only(Continue(g, "lock", NoEntry))
      BY <2>2, <1>11, Pointing, Zenon DEF TryLoadOrStore
    <3> QED BY <3>1, <1>1, GoesToLock, Zenon
  <2>3. CASE p = NilPtr
    <3>1. Write(e, c.val, Returned(g, Result("stored", [k \in {c.key} |-> c.val])))
      BY <2>1, <2>3, <1>11, Pointing, Zenon DEF TryLoadOrStore, Stored
    <3>2. e = EntryOf(c.key, mread, dirty) /\ p # Expunged /\ content[c.key] = NoValue
      BY <2>1, <2>3, <1>6, Pointing, Zenon
    <3>3. c.val \in Pointers /\ c.val # Expunged /\ PointsTo(c.val) = c.val
      BY <2>1, Pointing, Zenon DEF Pointers
    <3>4. IntMapInv' /\ Linear!Change(g, c.key, c.val, Result("stored", [k \in {c.key} |-> c.val]))
      BY <3>1, <3>2, <3>3, <1>2, <1>3, <1>5, WritesEntry, Zenon
    <3> QED BY <3>4, <3>2, <2>1, <1>2, TakesEffect, Zenon
  <2>4. CASE p # Expunged /\ p # NilPtr
    <3>1. Only(Returned(g, Result("loaded", [k \in {c.key} |-> p])))
      BY <2>4, <1>11, Zenon DEF TryLoadOrStore, Found
    <3>2. p \in MapValue /\ PointsTo(p) = p /\ p # NoValue
      BY <2>4, <1>5, Pointing, Zenon
    <3>3. Result("loaded", [k \in {c.key} |-> p]) \in Linear!Answers(c)
      BY <3>2, <2>1, <1>2, <1>7, AnswersAre, Zenon
    <3> QED BY <3>1, <3>3, <1>2, IsAnswered, Zenon
  <2> QED BY <2>2, <2>3, <2>4, Zenon
<1> QED BY <1>8, <1>9, <1>10, <1>11, Zenon DEF UseEntry

\* Range has the entries of the read-only part to load, which has every key.
LEMMA BeginsRange ==
  ASSUME NEW o, IInv(o), NEW g \in MapUser, user[g].pc \in {"read", "lock"}, call[g].op = "Range",
         ~mread.amended, Only(Goes(g, [user[g] EXCEPT !.pc = "range", !.todo = mread.m]))
  PROVE  IntMapInv' /\ Implements
PROOF
<1> DEFINE c == call[g]
           u == [user[g] EXCEPT !.pc = "range", !.todo = mread.m]
<1>1. c.pc = "pending" /\ IsPending(c) /\ mutex # g /\ SeenNow(c, content)
      /\ UserOK(o, user[g], c, mread, dirty, entry)
  BY Facts, Zenon
<1>2. IsLocal(u, "range", NoEntry, mread.m, NoKeys)
  <2>1. IsLocal(u, "range", user[g].e, mread.m, user[g].found)
    BY <1>1, Locals, Zenon DEF UserOK
  <2> QED BY <2>1, <1>1, Zenon DEF UserOK
<1>3. Only(Goes(g, u))
  BY Zenon
<1> HIDE DEF u
<1>4. Table(o, mread, dirty, entry, ToCopy(mutex, user)) /\ content = Now(mread, dirty, entry)
  BY Facts, Zenon
<1>5. IsEntryMap(mread.m) /\ \A k \in DOMAIN mread.m : mread.m[k] \in DOMAIN entry /\ o[mread.m[k]] = k
  BY <1>4, Zenon DEF Table
<1>6. \A k \in MapKey : (IF k \in DOMAIN mread.m THEN PointsTo(entry[mread.m[k]]) ELSE NoValue) \in c.seen[k]
  <2> TAKE k \in MapKey
  <2>1. content[k] \in c.seen[k]
    BY <1>1, PendingCall, Zenon DEF SeenNow
  <2>2. CASE k \in DOMAIN mread.m
    BY <2>1, <2>2, <1>4, NowIs
  <2>3. CASE k \notin DOMAIN mread.m
    BY <2>1, <2>3, NotThere, Zenon
  <2> QED BY <2>2, <2>3, Zenon
<1>7. Ranging(o, u, c, entry)
  BY <1>2, <1>5, <1>6, EntryMaps, Zenon DEF Ranging, IsLocal
<1>8. UserOK(o, u, c, mread, dirty, entry) /\ u.pc = "range"
  BY <1>1, <1>2, <1>7, RangeOK, Zenon DEF IsLocal
<1> QED BY <1>1, <1>3, <1>8, GoesOn, Zenon

\* Range loads one entry.
LEMMA RangeEntryInv ==
  ASSUME NEW o, IInv(o), NEW g \in MapUser, NEW k \in DOMAIN user[g].todo, RangeEntry(g, k)
  PROVE  IntMapInv' /\ Implements
PROOF
<1> DEFINE c == call[g]
           t == user[g].todo
           f == user[g].found
           s == Restrict(t, DOMAIN t \ {k})
           b == With(f, k, PointsTo(entry[t[k]]))
           u == [user[g] EXCEPT !.todo = s, !.found = b]
<1>1. user[g].pc = "range"
  BY Zenon DEF RangeEntry
<1>2. c.pc = "pending" /\ IsPending(c) /\ mutex # g /\ UserOK(o, user[g], c, mread, dirty, entry)
  BY <1>1, Facts, Zenon
<1>3. Ranging(o, user[g], c, entry) /\ user[g].e = NoEntry
  BY <1>1, <1>2, Zenon DEF UserOK
<1>4. Only(Goes(g, u))
  BY Zenon DEF RangeEntry
<1> HIDE DEF s, b
<1>5. IsLocal(u, "range", NoEntry, s, b)
  <2>1. IsLocal(u, user[g].pc, user[g].e, s, b)
    BY <1>2, Locals, Zenon DEF UserOK
  <2> QED BY <2>1, <1>1, <1>3, Zenon
<1> HIDE DEF u
<1>6. /\ IsEntryMap(s) /\ DOMAIN s = DOMAIN t \ {k} /\ \A j \in DOMAIN t \ {k} : s[j] = t[j]
  BY <1>3, WithoutKey, Zenon DEF Ranging, s
<1>7. /\ DOMAIN b = DOMAIN f \cup {k} /\ b[k] = PointsTo(entry[t[k]])
      /\ \A j \in DOMAIN f : j # k => b[j] = f[j]
  BY Zenon DEF b, With
<1>8. \A j \in MapKey : (IF j \in DOMAIN s THEN PointsTo(entry[s[j]])
                         ELSE IF j \in DOMAIN b THEN b[j] ELSE NoValue) \in c.seen[j]
  <2> TAKE j \in MapKey
  <2>1. (IF j \in DOMAIN t THEN PointsTo(entry[t[j]])
         ELSE IF j \in DOMAIN f THEN f[j] ELSE NoValue) \in c.seen[j]
    BY <1>3, Zenon DEF Ranging
  <2>2. CASE j = k
    BY <2>1, <2>2, <1>6, <1>7, Zenon
  <2>3. CASE j # k
    BY <2>1, <2>3, <1>6, <1>7, Zenon
  <2> QED BY <2>2, <2>3, Zenon
<1>9. \A j \in DOMAIN s : s[j] \in DOMAIN entry /\ o[s[j]] = j
  BY <1>3, <1>6, Zenon DEF Ranging
<1>10. Ranging(o, u, c, entry)
  BY <1>3, <1>5, <1>6, <1>8, <1>9, Zenon DEF Ranging, IsLocal
<1>11. UserOK(o, u, c, mread, dirty, entry) /\ u.pc = "range"
  BY <1>2, <1>5, <1>10, RangeOK, Zenon DEF IsLocal
<1> QED BY <1>2, <1>4, <1>11, GoesOn, Zenon

\* Range is done when it has loaded every entry.
LEMMA EndRangeInv ==
  ASSUME NEW o, IInv(o), NEW g \in MapUser, EndRange(g)
  PROVE  IntMapInv' /\ Implements
PROOF
<1> DEFINE c == call[g]
           f == user[g].found
           a == [k \in MapKey |-> IF k \in DOMAIN f THEN f[k] ELSE NoValue]
<1>1. user[g].pc = "range" /\ user[g].todo = NoKeys /\ Only(Returned(g, Result("ranged", a)))
  BY Zenon DEF EndRange
<1>2. c.pc = "pending" /\ IsPending(c) /\ mutex # g /\ Ranging(o, user[g], c, entry)
  BY <1>1, Facts, Zenon DEF UserOK
<1>3. \A k \in MapKey : a[k] \in c.seen[k]
  BY <1>1, <1>2, EntryMaps, Zenon DEF Ranging
<1>4. c.op = "Range" /\ \A k \in MapKey : c.seen[k] \subseteq MapValue \cup {NoValue}
  BY <1>2, PendingCall DEF Ranging
<1>5. a = [k \in MapKey |-> a[k]]
  BY Zenon
<1> HIDE DEF a
<1>6. a \in [MapKey -> MapValue \cup {NoValue}]
  BY <1>3, <1>4, <1>5, Zenon
<1>7. Result("ranged", a) \in Linear!Answers(c)
  BY <1>2, <1>3, <1>4, <1>6, AnswersAre, Zenon
<1> QED BY <1>1, <1>2, <1>7, IsAnswered, Zenon

-----------------------------------------------------------------------------
\* The section of Delete.
LEMMA DeleteLockedInv ==
  ASSUME NEW o, IInv(o), NEW g \in MapUser, user[g].pc = "lock", mutex = Unlocked, DeleteLocked(g)
  PROVE  IntMapInv' /\ Implements
PROOF
<1> DEFINE c == call[g]
           k == c.key
<1>1. c.op = "Delete"
  BY Zenon DEF DeleteLocked
<1>2. c.pc = "pending" /\ IsPending(c) /\ mutex # g /\ content = Now(mread, dirty, entry)
      /\ o \in [Nat -> MapKey \cup {NoValue}] /\ g # Unlocked
  BY Facts, Zenon
<1>3. k \in MapKey
  BY <1>1, <1>2, PendingCall, Zenon
<1>4. /\ Table(o, mread, dirty, entry, {}) /\ (mread.amended <=> dirty # NoDirty)
      /\ mread = [m |-> mread.m, amended |-> mread.amended] /\ mread.amended \in BOOLEAN
      /\ misses \in 0..Cardinality(MapKey)
  BY FreeFacts, Zenon
<1>5. CASE Hit(g)
  <2>1. Only(Continue(g, "entry", mread.m[k]))
    BY <1>5, Zenon DEF DeleteLocked
  <2> QED BY <2>1, <1>1, <1>5, HitEntry, Zenon
<1>6. CASE ~Hit(g) /\ ~mread.amended
  <2>1. Only(NothingThere(g))
    BY <1>6, Zenon DEF DeleteLocked
  <2>2. content[k] = NoValue
    BY <1>3, <1>6, NotThere, Zenon DEF Hit
  <2>3. PICK res \in Linear!Answers(c) : NothingThere(g) = Returned(g, res)
    BY <1>1, <1>2, <2>2, NothingIsThere, Zenon
  <2> QED BY <1>2, <2>1, <2>3, IsAnswered, Zenon
<1>7. CASE ~Hit(g) /\ mread.amended
  <2> DEFINE res == Result("deleted", NoKeys)
             t == [pc |-> "returning", res |-> res]
             b == Restrict(dirty, DOMAIN dirty \ {k})
  <2>1. Become(mread, b, misses, entry, mutex, Returned(g, res))
    BY <1>1, <1>7, Zenon DEF DeleteLocked, NothingThere, Deleted
  <2>2. Steps(g, Resting, t, mread, b, misses, entry, mutex)
    BY <2>1, ReturnedSteps, Zenon
  <2>3. /\ Table(o, mread, b, entry, {}) /\ b # NoDirty
        /\ Now(mread, b, entry) = [content EXCEPT ![k] = NoValue]
    BY <1>2, <1>3, <1>4, <1>7, RemoveTable DEF Hit
  <2> HIDE DEF b, res
  <2>4. /\ Resting.pc = "rest" /\ t.pc # "pending"
        /\ UserOK(o, Resting, Noting(t, Now(mread, b, entry)), mread, b, entry)
    BY RestingOK, Zenon
  <2> HIDE DEF t
  <2>5. LockOK(o, o, g, Resting, t, mread, b, misses, entry, mutex)
    BY <1>2, <1>4, <1>7, <2>3, <2>4, MovesNothing, Zenon DEF LockOK
  <2>6. Settles(o, g, t, Now(mread, b, entry))
    BY <2>2, <2>5, LockStep, Zenon
  <2>7. Settles(o, g, t, [content EXCEPT ![k] = NoValue])
    BY <2>3, <2>6, Zenon
  <2>8. Linear!Change(g, k, NoValue, res)
    BY <1>3, <2>7, Changed, Zenon DEF t
  <2> QED BY <1>1, <1>2, <2>6, <2>8, SettlesInv, TakesEffect, Zenon DEF res
<1> QED BY <1>5, <1>6, <1>7, Zenon

\* Store and LoadOrStore under the mutex, for a key of the read-only part: the entry
\* is not expunged when it is written.
LEMMA UnexpungeInv ==
  ASSUME NEW o, IInv(o), NEW g \in MapUser, user[g].pc = "lock", mutex = Unlocked,
         call[g].op \in {"Store", "LoadOrStore"}, Hit(g), Unexpunge(g, call[g].key, mread.m[call[g].key])
  PROVE  IntMapInv' /\ Implements
PROOF
<1> DEFINE c == call[g]
           k == c.key
           e == mread.m[k]
           b == IF entry[e] = Expunged THEN With(dirty, k, e) ELSE dirty
           w == [entry EXCEPT ![e] = IF entry[e] = Expunged THEN NilPtr ELSE entry[e]]
           u == [user[g] EXCEPT !.pc = "write", !.e = e]
<1>1. c.pc = "pending" /\ IsPending(c) /\ mutex # g /\ SeenNow(c, content) /\ IsNow(content)
      /\ UserOK(o, user[g], c, mread, dirty, entry) /\ content = Now(mread, dirty, entry)
      /\ o \in [Nat -> MapKey \cup {NoValue}] /\ g # Unlocked
  BY Facts, Zenon
<1>2. k \in DOMAIN mread.m
  BY Zenon DEF Hit
<1>3. /\ Table(o, mread, dirty, entry, {}) /\ (mread.amended <=> dirty # NoDirty)
      /\ mread = [m |-> mread.m, amended |-> mread.amended] /\ mread.amended \in BOOLEAN
      /\ misses \in 0..Cardinality(MapKey)
  BY FreeFacts, Zenon
<1>4. Become(mread, b, misses, w, g, Goes(g, u))
  BY Zenon DEF Unexpunge, PutBack, Continue
<1>5. /\ Table(o, mread, b, w, {}) /\ Now(mread, b, w) = Now(mread, dirty, entry) /\ w[e] # Expunged
      /\ b = NoDirty <=> dirty = NoDirty
      /\ \A now : Moves(o, mread, entry, mread, w, now)
  BY <1>2, <1>3, UnexpungeTable, Zenon
<1>6. IsLocal(u, "write", e, NoKeys, NoKeys)
  <2>1. IsLocal(u, "write", e, user[g].todo, user[g].found)
    BY <1>1, Locals, Zenon DEF UserOK
  <2> QED BY <2>1, <1>1, Zenon DEF UserOK
<1> HIDE DEF b, w, u
<1>7. Steps(g, u, c, mread, b, misses, w, g)
  BY <1>4, GoesSteps, Zenon
<1>8. e \in DOMAIN w /\ o[e] = k
  BY <1>2, <1>5, InTable, SMTT(30)
<1>9. Writing(o, u, c, mread, w)
  BY <1>2, <1>5, <1>6, <1>8, Zenon DEF Writing, IsLocal
<1>10. UserOK(o, u, c, mread, b, w) /\ u.pc = "write" /\ DOMAIN u.todo = {}
  BY <1>1, <1>6, <1>9, EntryMaps, ZenonT(60) DEF UserOK, IsLocal
<1>11. Noting(c, content) = c
  BY <1>1, NotingAgain, ZenonT(60)
<1>12. LockOK(o, o, g, u, c, mread, b, misses, w, g)
  BY <1>1, <1>3, <1>5, <1>10, <1>11, Zenon DEF LockOK
<1>13. Settles(o, g, c, content)
  BY <1>1, <1>5, <1>7, <1>12, LockStep, ZenonT(60)
<1> QED BY <1>13, SettlesInv, Idle, Zenon

\* A new key when there is no dirty part: dirtyLocked starts to copy.
LEMMA StartDirtyInv ==
  ASSUME NEW o, IInv(o), NEW g \in MapUser, user[g].pc = "lock", mutex = Unlocked,
         call[g].op \in {"Store", "LoadOrStore"}, StartDirty(g, call[g].key, call[g].val)
  PROVE  IntMapInv' /\ Implements
PROOF
<1> DEFINE c == call[g]
           u == [user[g] EXCEPT !.pc = "copy", !.todo = mread.m]
<1>1. c.pc = "pending" /\ IsPending(c) /\ SeenNow(c, content) /\ IsNow(content)
      /\ UserOK(o, user[g], c, mread, dirty, entry) /\ content = Now(mread, dirty, entry)
      /\ o \in [Nat -> MapKey \cup {NoValue}] /\ g # Unlocked
  BY Facts, Zenon
<1>2. c.key \notin DOMAIN mread.m /\ ~mread.amended
  BY Zenon DEF StartDirty, Hit
<1>3. /\ Table(o, mread, dirty, entry, {}) /\ dirty = NoDirty
      /\ mread = [m |-> mread.m, amended |-> mread.amended] /\ mread.amended \in BOOLEAN
      /\ misses \in 0..Cardinality(MapKey)
  BY <1>2, FreeFacts, Zenon
<1>4. Become(mread, NoKeys, misses, entry, g, Goes(g, u))
  BY Zenon DEF StartDirty
<1>5. Table(o, mread, NoKeys, entry, DOMAIN mread.m) /\ Now(mread, NoKeys, entry) = content
  BY <1>1, <1>3, StartTable, Zenon
<1>6. IsLocal(u, "copy", NoEntry, mread.m, NoKeys)
  <2>1. IsLocal(u, "copy", user[g].e, mread.m, user[g].found)
    BY <1>1, Locals, Zenon DEF UserOK
  <2> QED BY <2>1, <1>1, Zenon DEF UserOK
<1> HIDE DEF u
<1>7. Steps(g, u, c, mread, NoKeys, misses, entry, g)
  BY <1>4, GoesSteps, Zenon
<1>8. IsEntryMap(mread.m)
  BY <1>3, Zenon DEF Table
<1>9. Copying(u, c, mread, NoKeys)
  BY <1>2, <1>6, <1>8, EntryMaps, Zenon DEF Copying, IsLocal
<1>10. UserOK(o, u, c, mread, NoKeys, entry) /\ u.pc = "copy" /\ u.todo = mread.m
  BY <1>1, <1>6, <1>9, ZenonT(60) DEF UserOK, IsLocal
<1>11. Noting(c, content) = c
  BY <1>1, NotingAgain, Zenon
<1>12. LockOK(o, o, g, u, c, mread, NoKeys, misses, entry, g)
  BY <1>1, <1>3, <1>5, <1>10, <1>11, MovesNothing, Zenon DEF LockOK
<1>13. Settles(o, g, c, content)
  BY <1>5, <1>7, <1>12, LockStep, Zenon
<1> QED BY <1>13, SettlesInv, Idle, ZenonT(60)

\* One entry of the read-only part is looked at by dirtyLocked.
LEMMA CopyEntryInv ==
  ASSUME NEW o, IInv(o), NEW g \in MapUser, NEW k \in DOMAIN user[g].todo,
         CopyEntry(g, k, user[g].todo[k])
  PROVE  IntMapInv' /\ Implements
PROOF
<1> DEFINE c == call[g]
           e == user[g].todo[k]
           t == Restrict(user[g].todo, DOMAIN user[g].todo \ {k})
           u == [user[g] EXCEPT !.todo = t]
           b == IF Copies(entry[e]) THEN With(dirty, k, e) ELSE dirty
           w == [entry EXCEPT ![e] = IF entry[e] = NilPtr THEN Expunged ELSE entry[e]]
           T == DOMAIN user[g].todo
<1>1. user[g].pc = "copy"
  BY Zenon DEF CopyEntry
<1>2. c.pc = "pending" /\ IsPending(c) /\ SeenNow(c, content) /\ IsNow(content) /\ mutex = g
      /\ UserOK(o, user[g], c, mread, dirty, entry) /\ content = Now(mread, dirty, entry)
      /\ o \in [Nat -> MapKey \cup {NoValue}] /\ g # Unlocked
  BY <1>1, Facts, Zenon
<1>3. Copying(user[g], c, mread, dirty)
  BY <1>1, <1>2, Zenon DEF UserOK
<1>4. /\ Table(o, mread, dirty, entry, T)
      /\ mread = [m |-> mread.m, amended |-> mread.amended] /\ mread.amended \in BOOLEAN
      /\ misses \in 0..Cardinality(MapKey)
  BY <1>2, Zenon DEF IInv, State, ToCopy
<1>5. /\ k \in DOMAIN mread.m /\ k \in T /\ k \notin DOMAIN dirty /\ dirty # NoDirty
      /\ e = mread.m[k] /\ IsEntryMap(user[g].todo)
  BY <1>3, Zenon DEF Copying
<1>6. Become(mread, b, misses, w, g, Goes(g, u))
  BY <1>2, Zenon DEF CopyEntry
<1>7. /\ Table(o, mread, b, w, T \ {k}) /\ Now(mread, b, w) = Now(mread, dirty, entry)
      /\ b # NoDirty /\ DOMAIN b \subseteq DOMAIN dirty \cup {k}
      /\ \A now : Moves(o, mread, entry, mread, w, now)
  <2> HIDE DEF e, T
  <2>1. Copied(o, mread, dirty, entry, T, k, e)
    BY <1>4, <1>5, CopyTable, Zenon
  <2> QED BY <2>1, Zenon DEF Copied
<1>8. IsEntryMap(t) /\ DOMAIN t = T \ {k} /\ \A j \in T \ {k} : t[j] = user[g].todo[j]
  BY <1>5, WithoutKey, Zenon
<1> HIDE DEF b, w, t
<1>9. IsLocal(u, "copy", NoEntry, t, NoKeys)
  <2>1. IsLocal(u, user[g].pc, user[g].e, t, user[g].found)
    BY <1>2, Locals, Zenon DEF UserOK
  <2> QED BY <2>1, <1>1, <1>2, Zenon DEF UserOK
<1> HIDE DEF u
<1>10. Steps(g, u, c, mread, b, misses, w, g)
  BY <1>6, GoesSteps, Zenon
<1>11. Copying(u, c, mread, b)
  BY <1>3, <1>5, <1>7, <1>8, <1>9, ZenonT(60) DEF Copying, IsLocal
<1>12. UserOK(o, u, c, mread, b, w) /\ u.pc = "copy" /\ u.todo = t
  BY <1>2, <1>9, <1>11, ZenonT(60) DEF UserOK, IsLocal
<1>13. Noting(c, content) = c
  BY <1>2, NotingAgain, ZenonT(60)
<1>14. LockOK(o, o, g, u, c, mread, b, misses, w, g)
  BY <1>2, <1>4, <1>7, <1>8, <1>12, <1>13, Zenon DEF LockOK
<1>15. Settles(o, g, c, content)
  BY <1>2, <1>7, <1>10, <1>14, LockStep, ZenonT(60)
<1> QED BY <1>15, SettlesInv, Idle, Zenon

\* Store and LoadOrStore write the entry of the read-only part under the lock, or
\* return what is in it.
LEMMA WriteLockedInv ==
  ASSUME NEW o, IInv(o), NEW g \in MapUser, WriteLocked(g)
  PROVE  IntMapInv' /\ Implements
PROOF
<1> DEFINE c == call[g]
           k == c.key
           v == c.val
           e == user[g].e
           p == entry[e]
<1>1. user[g].pc = "write"
  BY Zenon DEF WriteLocked
<1>2. c.pc = "pending" /\ IsPending(c) /\ SeenNow(c, content) /\ mutex = g
      /\ UserOK(o, user[g], c, mread, dirty, entry) /\ content = Now(mread, dirty, entry)
      /\ o \in [Nat -> MapKey \cup {NoValue}] /\ g # Unlocked
  BY <1>1, Facts, Zenon
<1>3. /\ e \in DOMAIN entry /\ c.op \in {"Store", "LoadOrStore"} /\ k \in DOMAIN mread.m
      /\ mread.m[k] = e /\ p # Expunged
  BY <1>1, <1>2, Zenon DEF UserOK, Writing
<1>4. k \in MapKey /\ v \in MapValue
  BY <1>2, <1>3, PendingCall, Zenon
<1>5. /\ Table(o, mread, dirty, entry, {}) /\ (mread.amended <=> dirty # NoDirty)
      /\ mread = [m |-> mread.m, amended |-> mread.amended] /\ mread.amended \in BOOLEAN
      /\ misses \in 0..Cardinality(MapKey)
  <2>1. ToCopy(mutex, user) = {} /\ ~Copier(mutex, user)
    BY <1>1, <1>2, EntryMaps, ZenonT(60) DEF ToCopy, Copier, UserOK
  <2> QED BY <2>1, Zenon DEF IInv, State
<1>6. e = EntryOf(k, mread, dirty) /\ e # NoEntry /\ p \in Pointers /\ content[k] = PointsTo(p)
  BY <1>2, <1>4, <1>3, <1>5, EntryOfKey, InTable, NowIs, SMTT(30)
<1>7. ASSUME NEW w, NEW res, Become(mread, dirty, misses, w, Unlocked, Returned(g, res)),
             Table(o, mread, dirty, w, {}), Moves(o, mread, entry, mread, w, Now(mread, dirty, w))
      PROVE  Settles(o, g, [pc |-> "returning", res |-> res], Now(mread, dirty, w))
  <2> DEFINE t == [pc |-> "returning", res |-> res]
  <2>1. Steps(g, Resting, t, mread, dirty, misses, w, Unlocked)
    BY <1>7, ReturnedSteps, Zenon
  <2>2. /\ Resting.pc = "rest" /\ t.pc # "pending"
        /\ UserOK(o, Resting, Noting(t, Now(mread, dirty, w)), mread, dirty, w)
    BY RestingOK, ZenonT(60)
  <2> HIDE DEF t
  <2>3. LockOK(o, o, g, Resting, t, mread, dirty, misses, w, Unlocked)
    BY <1>2, <1>5, <1>7, <2>2, Zenon DEF LockOK
  <2>4. Settles(o, g, t, Now(mread, dirty, w))
    BY <2>1, <2>3, LockStep, Zenon
  <2> QED BY <2>4, Zenon DEF t
<1>8. CASE c.op = "Store" \/ p = NilPtr
  <2> DEFINE w == [entry EXCEPT ![e] = v]
             res == Result("stored", IF c.op = "Store" THEN NoKeys ELSE [j \in {k} |-> v])
  <2>1. Become(mread, dirty, misses, w, Unlocked, Returned(g, res))
    BY <1>8, Zenon DEF WriteLocked, Stored
  <2>2. v \in Pointers /\ v # Expunged /\ PointsTo(v) = v
    BY <1>4, Pointing, Zenon DEF Pointers
  <2>3. /\ Table(o, mread, dirty, w, {})
        /\ Now(mread, dirty, w) = [content EXCEPT ![k] = v]
        /\ Moves(o, mread, entry, mread, w, Now(mread, dirty, w))
    BY <1>2, <1>4, <1>3, <1>5, <1>6, <2>2, WriteTable, SMTT(30)
  <2> HIDE DEF w, res
  <2>4. Settles(o, g, [pc |-> "returning", res |-> res], Now(mread, dirty, w))
    BY <1>7, <2>1, <2>3, Zenon
  <2>5. Settles(o, g, [pc |-> "returning", res |-> res], [content EXCEPT ![k] = v])
    BY <2>3, <2>4, Zenon
  <2>6. Linear!Change(g, k, v, res)
    BY <1>4, <2>5, Changed, Zenon
  <2>7. CASE c.op = "Store"
    <3>1. res = Result("stored", NoKeys)
      BY <2>7, Zenon DEF res
    <3> QED BY <1>2, <2>4, <2>6, <2>7, <3>1, SettlesInv, TakesEffect, Zenon
  <2>8. CASE c.op = "LoadOrStore"
    <3>1. res = Result("stored", [j \in {k} |-> v])
      BY <2>8, ZenonT(60) DEF res
    <3>2. content[k] = NoValue
      BY <1>6, <1>8, <2>8, Pointing, Zenon
    <3> QED BY <1>2, <2>4, <2>6, <2>8, <3>1, <3>2, SettlesInv, TakesEffect, ZenonT(60)
  <2> QED BY <1>3, <2>7, <2>8, Zenon
<1>9. CASE c.op # "Store" /\ p # NilPtr
  <2> DEFINE res == Result("loaded", [j \in {k} |-> p])
  <2>1. Become(mread, dirty, misses, entry, Unlocked, Returned(g, res))
    BY <1>9, Zenon DEF WriteLocked, Found
  <2>2. p \in MapValue /\ PointsTo(p) = p /\ p # NoValue
    BY <1>3, <1>6, <1>9, Pointing, Zenon
  <2>3. p \in c.seen[k]
    BY <1>2, <1>3, <1>6, <1>9, <2>2, PendingCall, SMTT(30) DEF SeenNow
  <2>4. res \in Linear!Answers(c)
    BY <1>2, <1>3, <1>9, <2>2, <2>3, AnswersAre, Zenon
  <2> HIDE DEF res
  <2>5. Settles(o, g, [pc |-> "returning", res |-> res], content)
    BY <1>2, <1>5, <1>7, <2>1, MovesNothing, Zenon
  <2> QED BY <1>2, <2>4, <2>5, SettlesInv, Answered, Zenon
<1> QED BY <1>8, <1>9, Zenon

=============================================================================
