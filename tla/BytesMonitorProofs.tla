------------------------- MODULE BytesMonitorProofs -------------------------
(***************************************************************************)
(* BytesMonitor keeps its accounts for any number of monitors and          *)
(* accounts, any chunk sizes and limits.                                   *)
(***************************************************************************)
EXTENDS BytesMonitor, Sequences, WellFoundedInduction, TLAPS

-----------------------------------------------------------------------------
(* Sums *)

\* Induction over the natural numbers, for a set of numbers.
LEMMA NumbersInduction ==
  ASSUME NEW G, 0 \in G, \A n \in Nat : n \in G => n + 1 \in G
  PROVE  Nat \subseteq G
<1> DEFINE T == Nat \ G
           R == OpToRel(<, Nat)
<1> SUFFICES ASSUME T # {} PROVE FALSE
  OBVIOUS
<1>1. IsWellFoundedOn(R, Nat)
  BY NatLessThanWellFounded, ZenonT(60)
<1>2. \A x, y \in Nat : x < y => <<x, y>> \in R
  BY DEF OpToRel
<1> HIDE DEF R, T
<1>3. T \subseteq Nat /\ \A n \in Nat : n \in T <=> n \notin G
  BY DEF T
<1>4. PICK x \in T : \A y \in T : ~ (<<y, x>> \in R)
  BY <1>1, <1>3, WFMin, ZenonT(60)
<1>5. x \in Nat /\ x # 0 /\ x - 1 \in Nat /\ x - 1 < x
  BY <1>3
<1>6. x - 1 \notin T
  BY <1>2, <1>4, <1>5, ZenonT(60)
<1>7. x - 1 \in G /\ (x - 1) + 1 = x
  BY <1>3, <1>5, <1>6
<1> QED BY <1>3, <1>5, <1>7

\* The subsets of S with n elements at most.
Small(S, n) == {s \in SUBSET S : s = {} \/ \E q \in [1 .. n -> S] : \A x \in s : \E i \in 1 .. n : q[i] = x}

\* An element less.
LEMMA Smaller ==
  ASSUME NEW S, NEW n \in Nat, NEW s \in Small(S, n + 1), NEW x \in s
  PROVE  s \ {x} \in Small(S, n)
<1>1. PICK q \in [1 .. n + 1 -> S] : \A y \in s : \E i \in 1 .. n + 1 : q[i] = y
  BY DEF Small
<1>2. PICK k \in 1 .. n + 1 : q[k] = x
  BY <1>1
<1> DEFINE r == [i \in 1 .. n |-> IF i < k THEN q[i] ELSE q[i + 1]]
<1>3. r \in [1 .. n -> S]
  OBVIOUS
<1>4. ASSUME NEW y \in s \ {x} PROVE \E i \in 1 .. n : r[i] = y
  <2>1. PICK i \in 1 .. n + 1 : q[i] = y
    BY <1>1
  <2>2. i # k
    BY <1>2, <2>1
  <2>3. CASE i < k
    BY <2>1, <2>3
  <2>4. CASE i > k
    BY <2>1, <2>4
  <2> QED BY <2>2, <2>3, <2>4
<1> QED BY <1>3, <1>4, ZenonT(60) DEF Small

LEMMA AllSmall ==
  ASSUME NEW S, IsFiniteSet(S)
  PROVE  \E n \in Nat : SUBSET S \subseteq Small(S, n)
<1>1. PICK q \in Seq(S) : \A x \in S : \E i \in 1 .. Len(q) : q[i] = x
  BY DEF IsFiniteSet
<1>2. Len(q) \in Nat /\ q \in [1 .. Len(q) -> S]
  OBVIOUS
<1> QED BY <1>1, <1>2, ZenonT(60) DEF Small

\* What SumFunctionOnSet iterates.
Pick(s) == CHOOSE x \in s : TRUE
Unfolds(g, h, D) == g = [s \in D |-> IF s = {} THEN 0 ELSE h[Pick(s)] + g[s \ {Pick(s)}]]
Iter(h, S) == CHOOSE g : Unfolds(g, h, SUBSET S)

LEMMA Picks == ASSUME NEW s, s # {} PROVE Pick(s) \in s
  BY DEF Pick

LEMMA IterUnfolds ==
  ASSUME NEW S, IsFiniteSet(S), NEW h
  PROVE  Unfolds(Iter(h, S), h, SUBSET S)
<1> DEFINE G == {n \in Nat : \E g : Unfolds(g, h, Small(S, n))}
<1>1. 0 \in G
  <2>1. Small(S, 0) = {{}}
    BY DEF Small
  <2> DEFINE g == [s \in {{}} |-> 0]
  <2>2. Unfolds(g, h, {{}})
    BY DEF Unfolds
  <2> QED BY <2>1, <2>2, ZenonT(60)
<1>2. ASSUME NEW n \in Nat, n \in G PROVE n + 1 \in G
  <2>1. PICK g : Unfolds(g, h, Small(S, n))
    BY <1>2
  <2> DEFINE f == [s \in Small(S, n + 1) |-> IF s = {} THEN 0 ELSE h[Pick(s)] + g[s \ {Pick(s)}]]
  <2>2. ASSUME NEW s \in Small(S, n + 1), s # {} PROVE f[s \ {Pick(s)}] = g[s \ {Pick(s)}]
    <3> DEFINE t == s \ {Pick(s)}
    <3>1. t \in Small(S, n)
      BY <2>2, Picks, Smaller
    <3>2. t \in Small(S, n + 1)
      BY DEF Small
    <3>3. g[t] = IF t = {} THEN 0 ELSE h[Pick(t)] + g[t \ {Pick(t)}]
      BY <2>1, <3>1, ZenonT(60) DEF Unfolds
    <3>4. f[t] = IF t = {} THEN 0 ELSE h[Pick(t)] + g[t \ {Pick(t)}]
      BY <3>2
    <3> QED BY <3>3, <3>4
  <2>3. Unfolds(f, h, Small(S, n + 1))
    BY <2>2, Zenon DEF Unfolds
  <2> QED BY <2>3
<1>3. PICK n \in Nat : SUBSET S \subseteq Small(S, n)
  BY AllSmall, ZenonT(60)
<1>4. n \in G
  <2> HIDE DEF G
  <2>1. Nat \subseteq G
    BY <1>1, <1>2, NumbersInduction
  <2> QED BY <2>1
<1>5. Small(S, n) = SUBSET S
  BY <1>3, ZenonT(60) DEF Small
<1>6. \E g : Unfolds(g, h, SUBSET S)
  BY <1>4, <1>5, ZenonT(60)
<1> QED BY <1>6, Zenon DEF Iter

LEMMA UnfoldsAt ==
  ASSUME NEW g, NEW h, NEW D, Unfolds(g, h, D), NEW s \in D
  PROVE  g[s] = IF s = {} THEN 0 ELSE h[Pick(s)] + g[s \ {Pick(s)}]
BY DEF Unfolds

LEMMA SumIsIter ==
  ASSUME NEW S, NEW h
  PROVE  SumFunctionOnSet(h, S) = Iter(h, S)[S]
BY Zenon DEF SumFunctionOnSet, FoldFunctionOnSet, MapThenFoldSet, Iter, Unfolds, Pick

\* Induction over the subsets of a finite set.
LEMMA SubsetsInduction ==
  ASSUME NEW S, IsFiniteSet(S), NEW G, {} \in G,
         \A s \in SUBSET S : s # {} /\ s \ {Pick(s)} \in G => s \in G
  PROVE  S \in G
<1> DEFINE N == {n \in Nat : Small(S, n) \subseteq G}
<1>1. 0 \in N
  <2>1. Small(S, 0) = {{}}
    BY DEF Small
  <2> QED BY <2>1, ZenonT(60)
<1>2. ASSUME NEW n \in Nat, n \in N PROVE n + 1 \in N
  <2> SUFFICES ASSUME NEW s \in Small(S, n + 1), s # {} PROVE s \in G
    OBVIOUS
  <2>1. s \ {Pick(s)} \in Small(S, n)
    BY Picks, Smaller
  <2>2. s \in SUBSET S
    BY DEF Small
  <2> QED BY <1>2, <2>1, <2>2
<1> HIDE DEF N
<1>3. Nat \subseteq N
  BY <1>1, <1>2, NumbersInduction
<1>4. PICK n \in Nat : SUBSET S \subseteq Small(S, n)
  BY AllSmall
<1> QED BY <1>3, <1>4 DEF N

LEMMA SumZero ==
  ASSUME NEW S, IsFiniteSet(S), NEW h, \A x \in S : h[x] = 0
  PROVE  SumFunctionOnSet(h, S) = 0
<1> DEFINE g == Iter(h, S)
           G == {s \in SUBSET S : g[s] = 0}
<1>1. \A s \in SUBSET S : g[s] = IF s = {} THEN 0 ELSE h[Pick(s)] + g[s \ {Pick(s)}]
  BY IterUnfolds, UnfoldsAt, ZenonT(60)
<1> HIDE DEF g
<1>2. {} \in G
  BY <1>1
<1>3. ASSUME NEW s \in SUBSET S, s # {}, s \ {Pick(s)} \in G PROVE s \in G
  BY <1>1, <1>3, Picks
<1> HIDE DEF G
<1>4. S \in G
  BY <1>2, <1>3, SubsetsInduction
<1> QED BY <1>4, SumIsIter DEF g, G

LEMMA SumType ==
  ASSUME NEW S, IsFiniteSet(S), NEW h \in [S -> Nat]
  PROVE  SumFunctionOnSet(h, S) \in Nat /\ \A x \in S : h[x] <= SumFunctionOnSet(h, S)
<1> DEFINE g == Iter(h, S)
           Good(s) == g[s] \in Nat /\ \A x \in s : h[x] <= g[s]
           G == {s \in SUBSET S : Good(s)}
<1>1. \A s \in SUBSET S : g[s] = IF s = {} THEN 0 ELSE h[Pick(s)] + g[s \ {Pick(s)}]
  BY IterUnfolds, UnfoldsAt, ZenonT(60)
<1> HIDE DEF g
<1>2. {} \in G
  <2>1. g[{}] = 0
    BY <1>1, ZenonT(60)
  <2>2. Good({})
    BY <2>1
  <2> HIDE DEF Good
  <2> QED BY <2>2
<1>3. ASSUME NEW s \in SUBSET S, s # {}, s \ {Pick(s)} \in G PROVE s \in G
  <2>1. Pick(s) \in s /\ g[s] = h[Pick(s)] + g[s \ {Pick(s)}]
    BY <1>1, <1>3, Picks
  <2>2. h[Pick(s)] \in Nat /\ g[s \ {Pick(s)}] \in Nat
    BY <1>3, <2>1
  <2>3. ASSUME NEW x \in s PROVE h[x] <= g[s]
    <3>1. CASE x = Pick(s)
      BY <2>1, <2>2, <3>1
    <3>2. CASE x # Pick(s)
      <4>1. h[x] <= g[s \ {Pick(s)}] /\ h[x] \in Nat
        BY <1>3, <3>2
      <4> QED BY <2>1, <2>2, <4>1
    <3> QED BY <3>1, <3>2
  <2>4. Good(s)
    BY <2>1, <2>2, <2>3
  <2> HIDE DEF Good
  <2> QED BY <2>4
<1> HIDE DEF G
<1>4. S \in G
  BY <1>2, <1>3, SubsetsInduction
<1> QED BY <1>4, SumIsIter DEF g, G

LEMMA SumUpdate ==
  ASSUME NEW S, IsFiniteSet(S), NEW h \in [S -> Nat], NEW x \in S, NEW v \in Nat
  PROVE  SumFunctionOnSet([h EXCEPT ![x] = v], S) = SumFunctionOnSet(h, S) + v - h[x]
<1> DEFINE u == [h EXCEPT ![x] = v]
           g == Iter(h, S)
           f == Iter(u, S)
           G == {s \in SUBSET S : g[s] \in Int /\ f[s] = IF x \in s THEN g[s] + v - h[x] ELSE g[s]}
<1>1. \A y \in S : h[y] \in Nat /\ u[y] = IF y = x THEN v ELSE h[y]
  OBVIOUS
<1> HIDE DEF u
<1>2. \A s \in SUBSET S : /\ g[s] = IF s = {} THEN 0 ELSE h[Pick(s)] + g[s \ {Pick(s)}]
                          /\ f[s] = IF s = {} THEN 0 ELSE u[Pick(s)] + f[s \ {Pick(s)}]
  BY IterUnfolds, UnfoldsAt, ZenonT(60)
<1> HIDE DEF g, f
<1>3. {} \in G
  BY <1>2
<1>4. ASSUME NEW s \in SUBSET S, s # {}, s \ {Pick(s)} \in G PROVE s \in G
  <2> DEFINE y == Pick(s)
             t == s \ {y}
  <2>1. y \in s /\ y \in S
    BY <1>4, Picks
  <2>2. g[s] = h[y] + g[t] /\ f[s] = u[y] + f[t]
    BY <1>2, <1>4
  <2>3. g[t] \in Int /\ f[t] = IF x \in t THEN g[t] + v - h[x] ELSE g[t]
    BY <1>4
  <2>4. x \in t <=> x \in s /\ x # y
    OBVIOUS
  <2> HIDE DEF y, t
  <2>5. g[s] \in Int /\ f[s] = IF x \in s THEN g[s] + v - h[x] ELSE g[s]
    BY <1>1, <2>1, <2>2, <2>3, <2>4
  <2> QED BY <2>5
<1> HIDE DEF G
<1>5. S \in G
  BY <1>3, <1>4, SubsetsInduction
<1>6. f[S] = g[S] + v - h[x]
  BY <1>5 DEF G
<1> QED BY <1>6, SumIsIter DEF g, f, u

-----------------------------------------------------------------------------
(* What is counted *)

\* The values h gives the elements of S add up to t.
AddsUpTo(h, S, t) == t = SumFunctionOnSet(h, S)

\* Nothing adds up to zero: the sums before the first call.
LEMMA AddsUpZero ==
  ASSUME NEW S, IsFiniteSet(S), NEW h, h = [x \in S |-> 0]
  PROVE  AddsUpTo(h, S, 0)
<1>1. \A x \in S : h[x] = 0
  OBVIOUS
<1> QED
  BY <1>1, SumZero, Zenon DEF AddsUpTo

\* No element has more than all of them together.
LEMMA AddsUpAtLeast ==
  ASSUME NEW S, IsFiniteSet(S), NEW h \in [S -> Nat], NEW t, AddsUpTo(h, S, t), NEW x \in S
  PROVE  t \in Nat /\ h[x] <= t
BY SumType, Zenon DEF AddsUpTo

\* A change of one value changes the sum by as much.
LEMMA AddsUpUpdate ==
  ASSUME NEW S, IsFiniteSet(S), NEW h \in [S -> Nat], NEW t, AddsUpTo(h, S, t), NEW x \in S, NEW v \in Nat
  PROVE  /\ t + v - h[x] \in Nat
         /\ AddsUpTo([h EXCEPT ![x] = v], S, t + v - h[x])
<1>1. t \in Nat /\ h[x] <= t
  BY AddsUpAtLeast, Zenon
<1>2. h[x] \in Nat
  OBVIOUS
<1>3. t + v - h[x] \in Nat
  BY <1>1, <1>2
<1>4. AddsUpTo([h EXCEPT ![x] = v], S, t + v - h[x])
  BY SumUpdate, Zenon DEF AddsUpTo
<1> QED
  BY <1>3, <1>4

\* The monitors and the accounts can be summed over.
LEMMA Countable == IsFiniteSet(Monitor) /\ IsFiniteSet(Account)
BY MonitorAssumption, Zenon

-----------------------------------------------------------------------------
(* The invariant *)

MonRecord == [cur : Nat, max : Nat, budget : Bytes, resv : Bytes, alone : BOOLEAN, pool : BOOLEAN]
OpRecord == [kind : {"none", "grow", "release"}, extra : Nat, after : Bytes]

\* A monitor without a pool has no budget, and no reserve but a standalone one; one
\* with a pool is backed by its budget and its reserve, and has not kept much more
\* than it needs.
GoodMon(r, m) ==
  /\ ~r.pool => r.budget = NoBytes /\ (~r.alone => r.resv = NoBytes)
  /\ r.pool => r.cur <= r.budget.used + r.resv.used
  /\ r.pool => r.budget.used < r.cur + Chunk[m] * (UnusedBlocks + 1)
  /\ r.cur <= Limit[m] /\ r.cur <= r.max

\* What a call that waits for the pool relies on when it goes on.
GoodOp(o, b, r, m) ==
  /\ o.kind # "none" => r.pool
  /\ o.kind = "grow" => /\ Allocated(o.after) = Allocated(b) + o.extra /\ r.cur + o.extra <= Limit[m]
                         /\ r.budget.reserved < o.extra
  /\ o.kind = "release" => r.budget.reserved > Chunk[Root]

\* The buffer beside the budget exceeds what the budget uses by a chunk at most.
\* Only Shrink makes it larger, until the pool took the surplus back.
Buffered(r) == r.budget.reserved <= r.budget.used + Chunk[Root]

OneCall ==
  \A a, c \in Account :
    OwnerOf[a] = OwnerOf[c] /\ monOp[a].kind # "none" /\ monOp[c].kind # "none" => a = c

MonInv ==
  /\ MonTypeOK
  /\ \A m \in Monitor : GoodMon(mon[m], m)
  /\ \A a \in Account : GoodOp(monOp[a], acct[a], mon[OwnerOf[a]], OwnerOf[a])
  /\ \A m \in Monitor : GivingBack(m) \/ Buffered(mon[m])
  /\ OneCall
  /\ root <= Capacity /\ root <= Limit[Root]
  /\ BytesAddUp

\* A step hands out nothing of a monitor that is stopped, but for standalone bytes.
NoneWhenStopped ==
  \A m \in Monitor : ~mon[m].pool =>
    \/ mon'[m].cur <= mon[m].cur
    \/ mon[m].alone /\ mon'[m].cur <= mon[m].resv.used

-----------------------------------------------------------------------------
(* Sizes *)

LEMMA Numbers ==
  /\ Capacity \in Nat /\ UnusedBlocks \in Nat \ {0} /\ MaxRoundSize \in Nat
  /\ \A m \in Monitor \cup {Root} : Chunk[m] \in Nat \ {0} /\ Limit[m] \in Nat \ {0}
  /\ \A a \in Account : OwnerOf[a] \in Monitor
  /\ \A n \in Sizes \cup Reserves \cup Standalones : n \in Nat
BY MonitorAssumption

LEMMA DivideUp ==
  ASSUME NEW s \in Nat, NEW c \in Nat \ {0}
  PROVE  /\ ((s + c - 1) \div c) * c \in Nat
         /\ ((s + c - 1) \div c) * c >= s
         /\ ((s + c - 1) \div c) * c < s + c
<1> DEFINE n == s + c - 1
           q == n \div c
<1>1. n \in Nat
  OBVIOUS
<1> HIDE DEF n
<1>2. q \in Nat /\ n % c \in 0 .. (c - 1) /\ n = c * q + (n % c)
  BY <1>1
<1> HIDE DEF q
<1>3. q * c = n - (n % c) /\ q * c \in Nat
  BY <1>1, <1>2
<1>4. q * c >= s /\ q * c < s + c
  BY <1>2, <1>3 DEF n
<1> QED
  BY <1>3, <1>4 DEF n, q

\* roundSize rounds up, by less than a chunk.
LEMMA RoundsUp ==
  ASSUME NEW m \in Monitor \cup {Root}, NEW s \in Nat
  PROVE  /\ RoundSize(m, s) \in Nat /\ RoundSize(m, s) >= s
         /\ RoundSize(m, s) < s + Chunk[m]
<1>1. Chunk[m] \in Nat \ {0} /\ MaxRoundSize \in Nat
  BY Numbers
<1>2. /\ ((s + Chunk[m] - 1) \div Chunk[m]) * Chunk[m] \in Nat
      /\ ((s + Chunk[m] - 1) \div Chunk[m]) * Chunk[m] >= s
      /\ ((s + Chunk[m] - 1) \div Chunk[m]) * Chunk[m] < s + Chunk[m]
  BY <1>1, DivideUp, Zenon
<1>3. CASE s >= MaxRoundSize
  BY <1>1, <1>3 DEF RoundSize
<1>4. CASE ~(s >= MaxRoundSize)
  BY <1>2, <1>4, Zenon DEF RoundSize
<1> QED
  BY <1>3, <1>4

\* Rounding nothing gives nothing: Start asks the pool for no bytes without a reserve.
LEMMA RoundsZero ==
  ASSUME NEW m \in Monitor \cup {Root}
  PROVE  RoundSize(m, 0) = 0
<1>1. Chunk[m] \in Nat \ {0} /\ MaxRoundSize \in Nat
  BY Numbers
<1>2. (0 + Chunk[m] - 1) \div Chunk[m] = 0
  BY <1>1
<1> QED
  BY <1>1, <1>2 DEF RoundSize

LEMMA Product ==
  ASSUME NEW c \in Nat \ {0}, NEW u \in Nat \ {0}
  PROVE  c * u \in Nat /\ c * u >= 1 /\ c * (u + 1) = c * u + c
<1>1. c * u \in Nat /\ c * (u + 1) = c * u + c
  OBVIOUS
<1>2. c * u >= 1
  OBVIOUS
<1> QED
  BY <1>1, <1>2

LEMMA Margin ==
  ASSUME NEW m \in Monitor
  PROVE  /\ Chunk[m] * UnusedBlocks \in Nat /\ Chunk[m] * UnusedBlocks >= 1
         /\ Chunk[m] * (UnusedBlocks + 1) = Chunk[m] * UnusedBlocks + Chunk[m]
<1>1. Chunk[m] \in Nat \ {0} /\ UnusedBlocks \in Nat \ {0}
  BY Numbers
<1> QED
  BY <1>1, Product, Zenon

-----------------------------------------------------------------------------
(* Steps *)

\* What the types say of one account.
LEMMA AccountTypes ==
  ASSUME MonInv, NEW a \in Account
  PROVE  /\ OwnerOf[a] \in Monitor /\ acct[a] \in Bytes /\ monOp[a] \in OpRecord
         /\ HeldOf(monOp[a], acct[a]) \in Nat
         /\ GoodOp(monOp[a], acct[a], mon[OwnerOf[a]], OwnerOf[a])
<1>1. OwnerOf[a] \in Monitor
  BY Numbers
<1>2. acct[a] \in Bytes /\ monOp[a] \in OpRecord
  BY DEF MonInv, MonTypeOK, OpRecord
<1>3. HeldOf(monOp[a], acct[a]) \in Nat
  BY <1>2 DEF HeldOf, Allocated, OpRecord, Bytes
<1>4. GoodOp(monOp[a], acct[a], mon[OwnerOf[a]], OwnerOf[a])
  BY DEF MonInv
<1> QED
  BY <1>1, <1>2, <1>3, <1>4

LEMMA BudgetType ==
  ASSUME NEW r \in MonRecord
  PROVE  BudgetIn(r) \in Nat /\ PooledReserve(r) \in Nat /\ Allocated(r.budget) \in Nat
<1>1. Allocated(r.budget) \in Nat /\ Allocated(r.resv) \in Nat
  BY DEF MonRecord, Bytes, Allocated
<1>2. PooledReserve(r) \in Nat
  BY <1>1 DEF PooledReserve
<1> QED
  BY <1>1, <1>2 DEF BudgetIn

\* What the types say of one monitor.
LEMMA MonitorTypes ==
  ASSUME MonInv, NEW m \in Monitor
  PROVE  mon[m] \in MonRecord /\ BudgetIn(mon[m]) \in Nat /\ GoodMon(mon[m], m)
<1>1. mon[m] \in MonRecord
  BY DEF MonInv, MonTypeOK, MonRecord
<1>2. GoodMon(mon[m], m)
  BY DEF MonInv
<1> QED
  BY <1>1, <1>2, BudgetType

\* A monitor counts no less than one of its accounts holds.
LEMMA HeldAtMost ==
  ASSUME MonInv, NEW a \in Account
  PROVE  HeldOf(monOp[a], acct[a]) <= mon[OwnerOf[a]].cur
<1> DEFINE m == OwnerOf[a]
<1>1. Shares(m) \in [Account -> Nat]
  BY AccountTypes DEF Shares
<1>2. m \in Monitor
  BY Numbers
<1>3. AddsUpTo(Shares(m), Account, mon[m].cur)
  BY <1>2 DEF MonInv, BytesAddUp, AddsUpTo
<1>4. Shares(m)[a] <= mon[m].cur
  BY <1>1, <1>3, Countable, AddsUpAtLeast, Zenon
<1> QED
  BY <1>4 DEF Shares

\* A step of a monitor: its record becomes r, and the pool counts the difference.
LEMMA PoolStep ==
  ASSUME MonInv, NEW m \in Monitor, NEW r \in MonRecord, NEW t,
         t = root + BudgetIn(r) - BudgetIn(mon[m]),
         mon' = [mon EXCEPT ![m] = r], root' = t
  PROVE  /\ root' \in Nat
         /\ AddsUpTo(Budgets, Monitor, root)'
<1>1. Budgets \in [Monitor -> Nat]
  BY MonitorTypes DEF Budgets
<1>2. BudgetIn(r) \in Nat
  BY BudgetType
<1>3. AddsUpTo(Budgets, Monitor, root)
  BY DEF MonInv, BytesAddUp, AddsUpTo
<1>4. /\ root + BudgetIn(r) - Budgets[m] \in Nat
      /\ AddsUpTo([Budgets EXCEPT ![m] = BudgetIn(r)], Monitor, root + BudgetIn(r) - Budgets[m])
  BY <1>1, <1>2, <1>3, Countable, AddsUpUpdate, Zenon
<1>5. Budgets[m] = BudgetIn(mon[m])
  BY DEF Budgets
<1>6. mon \in [Monitor -> MonRecord]
  BY DEF MonInv, MonTypeOK, MonRecord
<1>7. Budgets' = [Budgets EXCEPT ![m] = BudgetIn(r)]
  BY <1>6, Zenon DEF Budgets
<1>8. AddsUpTo(Budgets', Monitor, root')
  BY <1>4, <1>5, <1>7, Zenon
<1>9. root' \in Nat
  BY <1>4, <1>5, Zenon
<1> QED
  BY <1>8, <1>9, Zenon DEF AddsUpTo

\* Everything the invariant says of the monitors, after such a step.
LEMMA MonitorsStep ==
  ASSUME MonInv, NEW m \in Monitor, NEW r \in MonRecord, GoodMon(r, m),
         mon' = [mon EXCEPT ![m] = r]
  PROVE  /\ mon' \in [Monitor -> MonRecord]
         /\ \A k \in Monitor : GoodMon(mon[k], k)'
<1>1. mon \in [Monitor -> MonRecord]
  BY DEF MonInv, MonTypeOK, MonRecord
<1>2. mon' \in [Monitor -> MonRecord]
  BY <1>1
<1>3. ASSUME NEW k \in Monitor PROVE GoodMon(mon[k], k)'
  <2>1. GoodMon(mon[k], k)
    BY DEF MonInv
  <2>2. mon'[k] = IF k = m THEN r ELSE mon[k]
    BY <1>1
  <2> QED
    BY <2>1, <2>2 DEF GoodMon
<1> QED
  BY <1>2, <1>3

\* The accounts of the monitor still add up when one of them, or the call it makes,
\* changes, and those of the other monitors are untouched.
LEMMA SharesStep ==
  ASSUME MonInv, NEW a \in Account, NEW b \in Bytes, NEW o \in OpRecord, NEW r \in MonRecord,
         r.cur = mon[OwnerOf[a]].cur + HeldOf(o, b) - HeldOf(monOp[a], acct[a]),
         mon' = [mon EXCEPT ![OwnerOf[a]] = r],
         acct' = [acct EXCEPT ![a] = b], monOp' = [monOp EXCEPT ![a] = o]
  PROVE  \A k \in Monitor : AddsUpTo(Shares(k), Account, mon[k].cur)'
<1> SUFFICES ASSUME NEW k \in Monitor PROVE AddsUpTo(Shares(k)', Account, mon'[k].cur)
  BY Zenon DEF AddsUpTo
<1> DEFINE m == OwnerOf[a]
<1>1. m \in Monitor
  BY Numbers
<1>2. Shares(k) \in [Account -> Nat]
  BY AccountTypes DEF Shares
<1>3. AddsUpTo(Shares(k), Account, mon[k].cur)
  BY DEF MonInv, BytesAddUp, AddsUpTo
<1>4. /\ acct \in [Account -> Bytes] /\ monOp \in [Account -> OpRecord]
      /\ mon \in [Monitor -> MonRecord]
  BY DEF MonInv, MonTypeOK, MonRecord, OpRecord
<1>5. HeldOf(o, b) \in Nat
  BY DEF HeldOf, Allocated, OpRecord, Bytes
<1>6. \A c \in Account : /\ acct'[c] = IF c = a THEN b ELSE acct[c]
                         /\ monOp'[c] = IF c = a THEN o ELSE monOp[c]
  BY <1>4
<1>7. CASE k = m
  <2>1. Shares(k)[a] = HeldOf(monOp[a], acct[a])
    BY <1>7 DEF Shares
  <2>2. AddsUpTo([Shares(k) EXCEPT ![a] = HeldOf(o, b)], Account, mon[k].cur + HeldOf(o, b) - Shares(k)[a])
    BY <1>2, <1>3, <1>5, Countable, AddsUpUpdate, Zenon
  <2>3. mon'[k] = r
    BY <1>1, <1>4, <1>7
  <2>4. Shares(k)' = [Shares(k) EXCEPT ![a] = HeldOf(o, b)]
    <3>1. \A c \in Account : Shares(k)'[c] = IF c = a THEN HeldOf(o, b) ELSE Shares(k)[c]
      BY <1>6, <1>7 DEF Shares
    <3>2. Shares(k)' = [c \in Account |-> Shares(k)'[c]]
      BY DEF Shares
    <3> QED
      BY <3>1, <3>2, <1>2, Zenon
  <2>5. mon'[k].cur = mon[k].cur + HeldOf(o, b) - Shares(k)[a]
    BY <2>1, <2>3, <1>7, Zenon
  <2> QED
    BY <2>2, <2>4, <2>5, Zenon
<1>8. CASE k # m
  <2>1. mon'[k] = mon[k]
    BY <1>1, <1>4, <1>8
  <2>2. Shares(k)' = Shares(k)
    BY <1>6, <1>8 DEF Shares
  <2> QED
    BY <2>1, <2>2, <1>3, Zenon
<1> QED
  BY <1>7, <1>8

\* A step of account a: it becomes b, its call becomes o, and the record of its
\* monitor becomes r, all of which fit; no other call is inside the monitor, unless
\* the step does not use the monitor.
LEMMA AccountStep ==
  ASSUME MonInv, NEW a \in Account, NEW b \in Bytes, NEW o \in OpRecord, NEW r \in MonRecord, NEW t,
         GoodMon(r, OwnerOf[a]), GoodOp(o, b, r, OwnerOf[a]),
         \/ \A c \in Account : OwnerOf[c] = OwnerOf[a] /\ c # a => monOp[c].kind = "none"
         \/ r = mon[OwnerOf[a]] /\ o.kind = "none",
         r.cur = mon[OwnerOf[a]].cur + HeldOf(o, b) - HeldOf(monOp[a], acct[a]),
         t = root + BudgetIn(r) - BudgetIn(mon[OwnerOf[a]]),
         t <= Capacity, t <= Limit[Root],
         \/ r.cur <= mon[OwnerOf[a]].cur
         \/ mon[OwnerOf[a]].pool
         \/ mon[OwnerOf[a]].alone /\ r.cur <= mon[OwnerOf[a]].resv.used,
         \/ o.kind = "release"
         \/ Buffered(r)
         \/ r = mon[OwnerOf[a]] /\ monOp[a].kind # "release",
         mon' = [mon EXCEPT ![OwnerOf[a]] = r], root' = t,
         acct' = [acct EXCEPT ![a] = b], monOp' = [monOp EXCEPT ![a] = o]
  PROVE  MonInv' /\ NoneWhenStopped
<1>1. OwnerOf[a] \in Monitor
  BY Numbers
<1>2. /\ acct \in [Account -> Bytes] /\ monOp \in [Account -> OpRecord]
      /\ mon \in [Monitor -> MonRecord]
  BY DEF MonInv, MonTypeOK, MonRecord, OpRecord
<1>3. root' \in Nat /\ AddsUpTo(Budgets, Monitor, root)'
  BY <1>1, PoolStep, Zenon
<1>4. mon' \in [Monitor -> MonRecord] /\ \A k \in Monitor : GoodMon(mon[k], k)'
  BY <1>1, MonitorsStep, Zenon
<1>5. \A k \in Monitor : AddsUpTo(Shares(k), Account, mon[k].cur)'
  BY SharesStep, Zenon
<1>6. acct' \in [Account -> Bytes] /\ monOp' \in [Account -> OpRecord]
  BY <1>2
<1>7. MonTypeOK'
  BY <1>3, <1>4, <1>6 DEF MonTypeOK, MonRecord, OpRecord
<1>8. \A c \in Account : /\ acct'[c] = IF c = a THEN b ELSE acct[c]
                         /\ monOp'[c] = IF c = a THEN o ELSE monOp[c]
  BY <1>2
<1>9. \A k \in Monitor : mon'[k] = IF k = OwnerOf[a] THEN r ELSE mon[k]
  BY <1>2
<1>10. ASSUME NEW c \in Account PROVE GoodOp(monOp[c], acct[c], mon[OwnerOf[c]], OwnerOf[c])'
  <2>1. GoodOp(monOp[c], acct[c], mon[OwnerOf[c]], OwnerOf[c])
    BY DEF MonInv
  <2>2. OwnerOf[c] \in Monitor
    BY Numbers
  <2>3. CASE c = a
    BY <2>3, <1>1, <1>8, <1>9 DEF GoodOp
  <2>4. CASE c # a /\ OwnerOf[c] # OwnerOf[a]
    BY <2>1, <2>2, <2>4, <1>8, <1>9 DEF GoodOp
  <2>5. CASE c # a /\ OwnerOf[c] = OwnerOf[a]
    <3>1. monOp'[c] = monOp[c] /\ acct'[c] = acct[c] /\ mon'[OwnerOf[c]] = r
      BY <2>2, <2>5, <1>8, <1>9
    <3>2. CASE monOp[c].kind = "none"
      BY <3>1, <3>2 DEF GoodOp
    <3>3. CASE r = mon[OwnerOf[a]]
      BY <3>1, <3>3, <2>1, <2>5 DEF GoodOp
    <3> QED
      BY <3>2, <3>3, <2>5
  <2> QED
    BY <2>3, <2>4, <2>5
<1>11. OneCall'
  <2> SUFFICES ASSUME NEW c \in Account, NEW d \in Account, OwnerOf[c] = OwnerOf[d],
                      monOp'[c].kind # "none", monOp'[d].kind # "none"
               PROVE  c = d
    BY DEF OneCall
  <2>1. OneCall
    BY DEF MonInv
  <2> QED
    BY <2>1, <1>8 DEF OneCall
<1>12. (root <= Capacity /\ root <= Limit[Root])'
  OBVIOUS
<1>13. BytesAddUp'
  BY <1>3, <1>5 DEF BytesAddUp, AddsUpTo
<1>14. ASSUME NEW k \in Monitor, ~mon[k].pool
       PROVE  \/ mon'[k].cur <= mon[k].cur
              \/ mon[k].alone /\ mon'[k].cur <= mon[k].resv.used
  <2>1. CASE k = OwnerOf[a]
    BY <2>1, <1>9, <1>14
  <2>2. CASE k # OwnerOf[a]
    <3>1. mon'[k] = mon[k] /\ mon[k].cur \in Nat
      BY <2>2, <1>2, <1>9 DEF MonRecord
    <3> QED
      BY <3>1
  <2> QED
    BY <2>1, <2>2
<1>15. ASSUME NEW k \in Monitor PROVE (GivingBack(k) \/ Buffered(mon[k]))'
  <2>1. GivingBack(k) \/ Buffered(mon[k])
    BY DEF MonInv
  <2>2. CASE mon'[k] = mon[k] /\ (k = OwnerOf[a] => monOp[a].kind # "release")
    BY <2>1, <2>2, <1>8 DEF GivingBack, Buffered
  <2>3. CASE k = OwnerOf[a] /\ o.kind = "release"
    BY <2>3, <1>8 DEF GivingBack
  <2>4. CASE k = OwnerOf[a] /\ Buffered(r)
    BY <2>4, <1>9 DEF Buffered
  <2> QED
    BY <2>2, <2>3, <2>4, <1>9
<1> QED
  BY <1>4, <1>7, <1>10, <1>11, <1>12, <1>13, <1>14, <1>15 DEF MonInv, NoneWhenStopped

\* A step of monitor m alone, without a call inside it, that counts the same bytes.
LEMMA MonitorStep ==
  ASSUME MonInv, NEW m \in Monitor, NEW r \in MonRecord, NEW t, GoodMon(r, m), Buffered(r),
         \A c \in Account : OwnerOf[c] = m => monOp[c].kind = "none",
         r.cur = mon[m].cur, t = root + BudgetIn(r) - BudgetIn(mon[m]),
         t <= Capacity, t <= Limit[Root],
         mon' = [mon EXCEPT ![m] = r], root' = t, acct' = acct, monOp' = monOp
  PROVE  MonInv' /\ NoneWhenStopped
<1>1. mon \in [Monitor -> MonRecord]
  BY DEF MonInv, MonTypeOK, MonRecord
<1>2. root' \in Nat /\ AddsUpTo(Budgets, Monitor, root)'
  BY PoolStep, Zenon
<1>3. mon' \in [Monitor -> MonRecord] /\ \A k \in Monitor : GoodMon(mon[k], k)'
  BY MonitorsStep, Zenon
<1>4. \A k \in Monitor : mon'[k] = IF k = m THEN r ELSE mon[k]
  BY <1>1
<1>5. ASSUME NEW k \in Monitor PROVE AddsUpTo(Shares(k), Account, mon[k].cur)'
  <2>1. AddsUpTo(Shares(k), Account, mon[k].cur)
    BY DEF MonInv, BytesAddUp, AddsUpTo
  <2>2. Shares(k)' = Shares(k) /\ mon'[k].cur = mon[k].cur
    BY <1>4 DEF Shares
  <2>3. AddsUpTo(Shares(k)', Account, mon'[k].cur)
    BY <2>1, <2>2, Zenon
  <2> QED
    BY <2>3, Zenon DEF AddsUpTo
<1>6. MonTypeOK'
  BY <1>2, <1>3 DEF MonInv, MonTypeOK, MonRecord
<1>7. ASSUME NEW c \in Account PROVE GoodOp(monOp[c], acct[c], mon[OwnerOf[c]], OwnerOf[c])'
  <2>1. GoodOp(monOp[c], acct[c], mon[OwnerOf[c]], OwnerOf[c]) /\ OwnerOf[c] \in Monitor
    BY Numbers DEF MonInv
  <2> QED
    BY <2>1, <1>4 DEF GoodOp
<1>8. OneCall'
  BY DEF MonInv, OneCall
<1>9. (root <= Capacity /\ root <= Limit[Root])'
  OBVIOUS
<1>10. BytesAddUp'
  BY <1>2, <1>5 DEF BytesAddUp, AddsUpTo
<1>11. NoneWhenStopped
  <2>1. \A k \in Monitor : mon'[k].cur = mon[k].cur /\ mon[k].cur \in Nat
    BY <1>1, <1>4 DEF MonRecord
  <2>2. \A k \in Monitor : mon'[k].cur <= mon[k].cur
    BY <2>1
  <2> QED
    BY <2>2, Zenon DEF NoneWhenStopped
<1>12. ASSUME NEW k \in Monitor PROVE (GivingBack(k) \/ Buffered(mon[k]))'
  <2>1. GivingBack(k) \/ Buffered(mon[k])
    BY DEF MonInv
  <2> QED
    BY <2>1, <1>4 DEF GivingBack, Buffered
<1> QED
  BY <1>3, <1>6, <1>7, <1>8, <1>9, <1>10, <1>11, <1>12 DEF MonInv

-----------------------------------------------------------------------------
(* Records *)

\* Grow and Shrink move x bytes between the buffer and what is in use.
LEMMA GrownBytes ==
  ASSUME NEW b \in Bytes, NEW x \in Int, NEW extra \in Nat,
         b.used + x >= 0, b.reserved + extra >= x
  PROVE  /\ Grown(b, x, extra) \in Bytes
         /\ Allocated(Grown(b, x, extra)) = Allocated(b) + extra
         /\ Grown(b, x, extra).used = b.used + x
         /\ Grown(b, x, extra).reserved = b.reserved + extra - x
BY DEF Bytes, Grown, Allocated

LEMMA NoBytesFacts == NoBytes \in Bytes /\ Allocated(NoBytes) = 0 /\ NoBytes.used = 0 /\ NoBytes.reserved = 0
BY DEF NoBytes, Bytes, Allocated

\* reserveBytes counts x more bytes, and nothing else.
LEMMA ReservedRecord ==
  ASSUME NEW r \in MonRecord, NEW x \in Nat
  PROVE  /\ Reserved(r, x) \in MonRecord
         /\ Reserved(r, x).cur = r.cur + x
         /\ Reserved(r, x).cur <= Reserved(r, x).max
         /\ Reserved(r, x).budget = r.budget /\ Reserved(r, x).resv = r.resv
         /\ Reserved(r, x).alone = r.alone /\ Reserved(r, x).pool = r.pool
<1>1. r.cur \in Nat /\ r.max \in Nat
  BY DEF MonRecord
<1> DEFINE most == IF r.max < r.cur + x THEN r.cur + x ELSE r.max
<1>2. most \in Nat /\ r.cur + x <= most /\ r.cur + x \in Nat
  BY <1>1
<1>3. Reserved(r, x) = [[r EXCEPT !.cur = r.cur + x] EXCEPT !.max = most]
  BY DEF Reserved, MonRecord
<1> HIDE DEF most
<1> QED
  BY <1>2, <1>3, Zenon DEF MonRecord

\* The same with another budget.
LEMMA BudgetRecord ==
  ASSUME NEW r \in MonRecord, NEW b \in Bytes
  PROVE  /\ [r EXCEPT !.budget = b] \in MonRecord
         /\ [r EXCEPT !.budget = b].budget = b
         /\ [r EXCEPT !.budget = b].cur = r.cur /\ [r EXCEPT !.budget = b].max = r.max
         /\ [r EXCEPT !.budget = b].resv = r.resv /\ [r EXCEPT !.budget = b].pool = r.pool
         /\ [r EXCEPT !.budget = b].alone = r.alone
BY DEF MonRecord

\* The fields of a monitor's record, for the arithmetic.
LEMMA RecordTypes ==
  ASSUME NEW r \in MonRecord
  PROVE  /\ r.cur \in Nat /\ r.max \in Nat /\ r.budget \in Bytes /\ r.resv \in Bytes
         /\ r.pool \in BOOLEAN /\ r.alone \in BOOLEAN
         /\ r.budget.used \in Nat /\ r.budget.reserved \in Nat
         /\ r.resv.used \in Nat /\ r.resv.reserved \in Nat
BY DEF MonRecord, Bytes

LEMMA OpTypes ==
  /\ NoOp \in OpRecord /\ NoOp.kind = "none"
  /\ \A b, r, m : GoodOp(NoOp, b, r, m)
  /\ \A b : HeldOf(NoOp, b) = Allocated(b)
BY DEF NoOp, OpRecord, NoBytes, Bytes, GoodOp, HeldOf

\* adjustBudget keeps the budget above what it must cover and within the margin,
\* and leaves a buffer that is bounded, unless Shrink has a surplus to give back.
LEMMA AdjustedGood ==
  ASSUME NEW m \in Monitor, NEW r \in MonRecord,
         ~r.pool => r.budget = NoBytes /\ (~r.alone => r.resv = NoBytes),
         r.pool => r.cur <= r.budget.used + r.resv.used,
         r.cur <= Limit[m] /\ r.cur <= r.max
  PROVE  /\ Adjusted(r, m, Needed(r, m)) \in MonRecord
         /\ GoodMon(Adjusted(r, m, Needed(r, m)), m)
         /\ BudgetIn(Adjusted(r, m, Needed(r, m))) = BudgetIn(r)
         /\ Adjusted(r, m, Needed(r, m)).cur = r.cur
         /\ GivesBack(r, m, Needed(r, m)) =>
              /\ Adjusted(r, m, Needed(r, m)).pool
              /\ Adjusted(r, m, Needed(r, m)).budget.reserved > Chunk[Root]
         /\ ~GivesBack(r, m, Needed(r, m)) /\ Buffered(r) => Buffered(Adjusted(r, m, Needed(r, m)))
<1> DEFINE needed == Needed(r, m)
           margin == Chunk[m] * UnusedBlocks
           b == Grown(r.budget, needed - r.budget.used, 0)
<1>1. /\ margin \in Nat /\ margin >= 1
      /\ Chunk[m] * (UnusedBlocks + 1) = margin + Chunk[m] /\ Chunk[m] \in Nat /\ Chunk[m] >= 1
  BY Margin, Numbers
<1>2. /\ r.cur \in Nat /\ r.max \in Nat /\ r.budget \in Bytes /\ r.pool \in BOOLEAN
      /\ r.budget.used \in Nat /\ r.budget.reserved \in Nat
      /\ r.resv.used \in Nat /\ r.resv.reserved \in Nat
  BY RecordTypes
<1>3. needed \in Nat /\ r.cur <= needed + r.resv.used /\ needed < r.cur + Chunk[m]
  <2>1. CASE r.cur <= r.resv.used
    BY <2>1, <1>1, <1>2 DEF Needed
  <2>2. CASE ~(r.cur <= r.resv.used)
    <3>1. r.cur - r.resv.used \in Nat
      BY <2>2, <1>2
    <3>2. /\ RoundSize(m, r.cur - r.resv.used) \in Nat
          /\ RoundSize(m, r.cur - r.resv.used) >= r.cur - r.resv.used
          /\ RoundSize(m, r.cur - r.resv.used) < r.cur - r.resv.used + Chunk[m]
      BY <3>1, RoundsUp
    <3>3. needed = RoundSize(m, r.cur - r.resv.used)
      BY <2>2 DEF Needed
    <3> HIDE DEF needed
    <3> QED
      BY <3>2, <3>3, <1>1, <1>2
  <2> QED
    BY <2>1, <2>2
<1>4. CASE needed <= r.budget.used - margin
  <2> HIDE DEF needed, margin
  <2>1. /\ b \in Bytes /\ Allocated(b) = Allocated(r.budget)
        /\ b.used = needed
    <3>1. /\ needed - r.budget.used \in Int /\ r.budget.used + (needed - r.budget.used) >= 0
          /\ r.budget.reserved + 0 >= needed - r.budget.used
      BY <1>1, <1>2, <1>3, <1>4
    <3>2. /\ b \in Bytes /\ Allocated(b) = Allocated(r.budget) + 0
          /\ b.used = r.budget.used + (needed - r.budget.used)
      BY <3>1, <1>2, GrownBytes
    <3>3. Allocated(r.budget) \in Nat
      BY <1>2 DEF Allocated
    <3> HIDE DEF b
    <3> QED
      BY <3>2, <3>3, <1>2, <1>3
  <2>2. r.pool
    <3>1. r.budget.used # 0
      BY <1>1, <1>2, <1>3, <1>4
    <3> QED
      BY <3>1, NoBytesFacts
  <2>3. Adjusted(r, m, needed) = [r EXCEPT !.budget = b]
    BY <1>4 DEF Adjusted, Relinquishes, margin
  <2> HIDE DEF b
  <2>4. [r EXCEPT !.budget = b] \in MonRecord
    BY <2>1, BudgetRecord
  <2> DEFINE s == [r EXCEPT !.budget = b]
  <2>5. /\ s.budget = b /\ s.cur = r.cur /\ s.max = r.max /\ s.resv = r.resv /\ s.pool = r.pool
        /\ s.alone = r.alone
    BY <2>1, BudgetRecord
  <2> HIDE DEF s
  <2>6. BudgetIn(s) = BudgetIn(r)
    BY <2>1, <2>5, Zenon DEF BudgetIn, PooledReserve
  <2>7. GoodMon(s, m)
    BY <2>1, <2>2, <2>5, <1>1, <1>2, <1>3 DEF GoodMon
  <2>8. Surplus(s) <=> s.budget.reserved > Chunk[Root]
    BY DEF Surplus
  <2>9. Surplus(s) \/ Buffered(s)
    <3>1. b.used \in Nat /\ b.reserved \in Nat /\ Chunk[Root] \in Nat
      BY <2>1, Numbers DEF Bytes
    <3> QED
      BY <3>1, <2>5, <2>8 DEF Buffered
  <2>10. GivesBack(r, m, needed) <=> Surplus(s)
    BY <2>3, <1>4 DEF GivesBack, Relinquishes, s, margin
  <2> QED
    BY <2>2, <2>3, <2>4, <2>5, <2>6, <2>7, <2>8, <2>9, <2>10, Zenon DEF s, needed
<1>5. CASE ~(needed <= r.budget.used - margin)
  <2>1. Adjusted(r, m, needed) = r
    BY <1>5 DEF Adjusted, Relinquishes
  <2>2. r.budget.used < r.cur + Chunk[m] * (UnusedBlocks + 1)
    <3> HIDE DEF needed, margin
    <3> QED
      BY <1>1, <1>2, <1>3, <1>5
  <2>3. GoodMon(r, m)
    BY <2>2 DEF GoodMon
  <2>4. ~GivesBack(r, m, needed)
    BY <1>5 DEF GivesBack, Relinquishes
  <2> QED
    BY <2>1, <2>3, <2>4, Zenon
<1> QED
  BY <1>4, <1>5

\* The record of a monitor after reserveBytes, when the budget suffices.
LEMMA ReservedGood ==
  ASSUME NEW m \in Monitor, NEW q \in MonRecord, GoodMon(q, m),
         NEW x \in Nat, x >= 1, q.cur + x <= Limit[m], ~NeedsBudget(q, x)
  PROVE  /\ Reserved(q, x) \in MonRecord /\ GoodMon(Reserved(q, x), m)
         /\ Reserved(q, x).cur = q.cur + x
         /\ BudgetIn(Reserved(q, x)) = BudgetIn(q)
         /\ q.pool \/ (q.alone /\ Reserved(q, x).cur <= q.resv.used)
         /\ Buffered(q) => Buffered(Reserved(q, x))
<1> DEFINE r == Reserved(q, x)
<1>1. /\ r \in MonRecord /\ r.cur = q.cur + x /\ r.cur <= r.max
      /\ r.budget = q.budget /\ r.resv = q.resv /\ r.alone = q.alone /\ r.pool = q.pool
  BY ReservedRecord
<1>2. /\ q.cur \in Nat /\ q.budget.used \in Nat /\ q.resv.used \in Nat
      /\ Chunk[m] * (UnusedBlocks + 1) \in Nat /\ Limit[m] \in Nat
  BY RecordTypes, Margin, Numbers
<1>3. q.cur + x <= q.budget.used + q.resv.used
  BY <1>2 DEF NeedsBudget
<1> HIDE DEF r
<1>4. q.pool \/ (q.alone /\ r.cur <= q.resv.used)
  <2> SUFFICES ASSUME ~q.pool PROVE q.alone /\ r.cur <= q.resv.used
    BY Zenon
  <2>1. q.budget = NoBytes /\ (~q.alone => q.resv = NoBytes)
    BY Zenon DEF GoodMon
  <2>2. q.budget.used = 0
    BY <2>1, NoBytesFacts, Zenon
  <2>3. r.cur <= q.resv.used /\ q.resv.used # 0
    BY <2>2, <1>1, <1>2, <1>3
  <2> QED
    BY <2>1, <2>3, NoBytesFacts, Zenon
<1>5. q.pool => q.budget.used < q.cur + Chunk[m] * (UnusedBlocks + 1)
  BY DEF GoodMon
<1>6. q.pool => r.budget.used < r.cur + Chunk[m] * (UnusedBlocks + 1)
  BY <1>1, <1>2, <1>5
<1>7. GoodMon(r, m)
  <2>1. ~q.pool => q.budget = NoBytes /\ (~q.alone => q.resv = NoBytes)
    BY Zenon DEF GoodMon
  <2> QED
    BY <2>1, <1>1, <1>3, <1>6, Zenon DEF GoodMon
<1>8. BudgetIn(r) = BudgetIn(q) /\ (Buffered(q) => Buffered(r))
  BY <1>1, Zenon DEF BudgetIn, PooledReserve, Buffered
<1> QED
  BY <1>1, <1>4, <1>7, <1>8 DEF r

\* What reserveBytes makes of a monitor q whose budget got ask bytes for x.
Increased(q, m, x, ask, r) ==
  /\ r \in MonRecord /\ GoodMon(r, m) /\ r.cur = q.cur + x
  /\ BudgetIn(r) = BudgetIn(q) + ask /\ Buffered(r)

\* The same when increaseBudget got ask bytes of the pool for x.
LEMMA IncreasedGood ==
  ASSUME NEW m \in Monitor, NEW q \in MonRecord, GoodMon(q, m), q.pool,
         NEW x \in Nat, NEW ask \in Nat, q.budget.reserved + ask >= x, q.cur + x <= Limit[m],
         \/ ask = 0 /\ Buffered(q)
         \/ q.budget.reserved < x /\ ask < x + Chunk[Root]
  PROVE  Increased(q, m, x, ask, Reserved(BudgetGrown(q, x, ask), x))
<1> DEFINE d == Grown(q.budget, x, ask)
           p == BudgetGrown(q, x, ask)
           r == Reserved(p, x)
<1>1. /\ q.cur \in Nat /\ q.budget \in Bytes /\ q.resv \in Bytes
      /\ q.budget.used \in Nat /\ q.budget.reserved \in Nat /\ q.resv.used \in Nat
      /\ Chunk[m] * (UnusedBlocks + 1) \in Nat /\ Limit[m] \in Nat
  BY RecordTypes, Margin, Numbers
<1>2. q.budget.used + x >= 0
  BY <1>1
<1>3. /\ d \in Bytes /\ Allocated(d) = Allocated(q.budget) + ask
      /\ d.used = q.budget.used + x /\ d.reserved = q.budget.reserved + ask - x
  BY <1>1, <1>2, GrownBytes
<1>4. p = [q EXCEPT !.budget = d]
  BY DEF BudgetGrown
<1> HIDE DEF d, p
<1>5. /\ p \in MonRecord /\ p.budget = d /\ p.cur = q.cur /\ p.resv = q.resv
      /\ p.alone = q.alone /\ p.pool = q.pool
  BY <1>3, <1>4, BudgetRecord, Zenon
<1>6. /\ r \in MonRecord /\ r.cur = p.cur + x /\ r.cur <= r.max
      /\ r.budget = p.budget /\ r.resv = p.resv /\ r.alone = p.alone /\ r.pool = p.pool
  BY <1>5, ReservedRecord, Zenon
<1> HIDE DEF r
<1>7. r.cur = q.cur + x /\ r.budget = d /\ r.resv = q.resv /\ r.alone = q.alone /\ r.pool
  BY <1>5, <1>6, Zenon
<1>8. /\ q.cur <= q.budget.used + q.resv.used
      /\ q.budget.used < q.cur + Chunk[m] * (UnusedBlocks + 1)
  BY DEF GoodMon
<1>9. /\ r.cur <= r.budget.used + r.resv.used
      /\ r.budget.used < r.cur + Chunk[m] * (UnusedBlocks + 1)
      /\ r.cur <= Limit[m]
  BY <1>1, <1>3, <1>7, <1>8
<1>10. GoodMon(r, m)
  BY <1>6, <1>7, <1>9, Zenon DEF GoodMon
<1>11. BudgetIn(r) = BudgetIn(q) + ask
  <2>1. Allocated(q.budget) \in Nat /\ PooledReserve(q) \in Nat
    BY BudgetType
  <2>2. PooledReserve(r) = PooledReserve(q)
    BY <1>7, Zenon DEF PooledReserve
  <2>3. BudgetIn(r) = Allocated(q.budget) + ask + PooledReserve(q)
    BY <2>2, <1>3, <1>7, Zenon DEF BudgetIn
  <2> QED
    BY <2>1, <2>3 DEF BudgetIn
<1>12. Buffered(r)
  <2>1. Chunk[Root] \in Nat
    BY Numbers
  <2> QED
    BY <2>1, <1>1, <1>3, <1>7 DEF Buffered
<1>13. Increased(q, m, x, ask, r)
  BY <1>6, <1>7, <1>10, <1>11, <1>12, Zenon DEF Increased
<1> QED
  BY <1>13, Zenon DEF r, p

\* The record once the pool took the surplus of the budget's buffer back.
LEMMA TakenBackGood ==
  ASSUME NEW m \in Monitor, NEW q \in MonRecord, GoodMon(q, m), q.pool,
         NEW r, r = [q EXCEPT !.budget = [q.budget EXCEPT !.reserved = Chunk[Root]]]
  PROVE  /\ r \in MonRecord /\ GoodMon(r, m) /\ r.cur = q.cur /\ Buffered(r)
         /\ BudgetIn(r) = BudgetIn(q) - (q.budget.reserved - Chunk[Root])
<1> DEFINE d == [q.budget EXCEPT !.reserved = Chunk[Root]]
<1>1. /\ q.budget \in Bytes /\ q.resv \in Bytes /\ Chunk[Root] \in Nat
      /\ q.budget.used \in Nat /\ q.budget.reserved \in Nat
  BY RecordTypes, Numbers
<1>2. d \in Bytes /\ d.used = q.budget.used /\ d.reserved = Chunk[Root]
  BY <1>1 DEF Bytes
<1> HIDE DEF d
<1>3. r = [q EXCEPT !.budget = d]
  BY DEF d
<1>4. /\ r \in MonRecord /\ r.budget = d /\ r.cur = q.cur /\ r.max = q.max
      /\ r.resv = q.resv /\ r.alone = q.alone /\ r.pool = q.pool
  <2>1. /\ [q EXCEPT !.budget = d] \in MonRecord
        /\ [q EXCEPT !.budget = d].budget = d
        /\ [q EXCEPT !.budget = d].cur = q.cur /\ [q EXCEPT !.budget = d].max = q.max
        /\ [q EXCEPT !.budget = d].resv = q.resv /\ [q EXCEPT !.budget = d].pool = q.pool
        /\ [q EXCEPT !.budget = d].alone = q.alone
    BY <1>2, BudgetRecord, Zenon
  <2> QED
    BY <2>1, <1>3, Zenon
<1>5. GoodMon(r, m)
  BY <1>2, <1>4, Zenon DEF GoodMon
<1>6. PooledReserve(q) \in Nat /\ PooledReserve(r) = PooledReserve(q)
  BY <1>4, BudgetType DEF PooledReserve
<1>7. BudgetIn(r) = q.budget.used + Chunk[Root] + PooledReserve(q)
  BY <1>2, <1>4, <1>6, Zenon DEF BudgetIn, Allocated
<1>8. BudgetIn(q) = q.budget.used + q.budget.reserved + PooledReserve(q)
  BY DEF BudgetIn, Allocated
<1>9. BudgetIn(r) = BudgetIn(q) - (q.budget.reserved - Chunk[Root])
  BY <1>1, <1>6, <1>7, <1>8
<1>10. Buffered(r)
  BY <1>1, <1>2, <1>4 DEF Buffered
<1> QED
  BY <1>4, <1>5, <1>9, <1>10

\* The record after releaseBytes left n bytes.
LEMMA ReleasedGood ==
  ASSUME NEW m \in Monitor, NEW q \in MonRecord, GoodMon(q, m), NEW n \in Nat, n <= q.cur,
         NEW p, p = [q EXCEPT !.cur = n], NEW r, r = Adjusted(p, m, Needed(p, m))
  PROVE  /\ r \in MonRecord /\ GoodMon(r, m) /\ r.cur = n /\ BudgetIn(r) = BudgetIn(q)
         /\ GivesBack(p, m, Needed(p, m)) => r.pool /\ r.budget.reserved > Chunk[Root]
         /\ ~GivesBack(p, m, Needed(p, m)) /\ Buffered(q) => Buffered(r)
<1>1. /\ q.cur \in Nat /\ q.max \in Nat /\ q.budget.used \in Nat /\ q.resv.used \in Nat
      /\ Limit[m] \in Nat /\ Chunk[Root] \in Nat
  BY RecordTypes, Numbers
<1>2. /\ p \in MonRecord /\ p.cur = n /\ p.max = q.max /\ p.budget = q.budget
      /\ p.resv = q.resv /\ p.alone = q.alone /\ p.pool = q.pool
  BY DEF MonRecord
<1>3. ~p.pool => p.budget = NoBytes /\ (~p.alone => p.resv = NoBytes)
  BY <1>2, Zenon DEF GoodMon
<1>4. /\ q.pool => q.cur <= q.budget.used + q.resv.used
      /\ q.cur <= Limit[m] /\ q.cur <= q.max
  BY DEF GoodMon
<1>5. q.pool => n <= q.budget.used + q.resv.used
  BY <1>1, <1>4
<1>6. n <= Limit[m] /\ n <= q.max
  BY <1>1, <1>4
<1>7. /\ p.pool => p.cur <= p.budget.used + p.resv.used
      /\ p.cur <= Limit[m] /\ p.cur <= p.max
  BY <1>2, <1>5, <1>6, Zenon
<1>8. /\ r \in MonRecord /\ GoodMon(r, m) /\ BudgetIn(r) = BudgetIn(p) /\ r.cur = p.cur
      /\ GivesBack(p, m, Needed(p, m)) => r.pool /\ r.budget.reserved > Chunk[Root]
      /\ ~GivesBack(p, m, Needed(p, m)) /\ Buffered(p) => Buffered(r)
  <2>1. r \in MonRecord /\ GoodMon(r, m) /\ BudgetIn(r) = BudgetIn(p) /\ r.cur = p.cur
    BY <1>2, <1>3, <1>7, AdjustedGood, Zenon
  <2>2. GivesBack(p, m, Needed(p, m)) => r.pool /\ r.budget.reserved > Chunk[Root]
    BY <1>2, <1>3, <1>7, AdjustedGood, Zenon
  <2>3. ~GivesBack(p, m, Needed(p, m)) /\ Buffered(p) => Buffered(r)
    BY <1>2, <1>3, <1>7, AdjustedGood, Zenon
  <2> QED
    BY <2>1, <2>2, <2>3, Zenon
<1>9. PooledReserve(p) = PooledReserve(q)
  BY <1>2 DEF PooledReserve
<1>10. BudgetIn(p) = BudgetIn(q) /\ (Buffered(q) => Buffered(p))
  BY <1>2, <1>9 DEF BudgetIn, Buffered
<1> QED
  BY <1>2, <1>8, <1>10, Zenon

-----------------------------------------------------------------------------
(* Actions *)

\* What every action of an account relies on.
LEMMA Facts ==
  ASSUME MonInv, NEW a \in Account
  PROVE  /\ OwnerOf[a] \in Monitor
         /\ mon[OwnerOf[a]] \in MonRecord /\ GoodMon(mon[OwnerOf[a]], OwnerOf[a])
         /\ acct[a] \in Bytes /\ acct[a].used \in Nat /\ acct[a].reserved \in Nat
         /\ Allocated(acct[a]) \in Nat
         /\ monOp[a] \in OpRecord
         /\ root \in Nat /\ root <= Capacity /\ root <= Limit[Root]
         /\ mon = [mon EXCEPT ![OwnerOf[a]] = mon[OwnerOf[a]]]
         /\ acct = [acct EXCEPT ![a] = acct[a]]
         /\ monOp = [monOp EXCEPT ![a] = monOp[a]]
         /\ root = root + BudgetIn(mon[OwnerOf[a]]) - BudgetIn(mon[OwnerOf[a]])
         /\ Limit[OwnerOf[a]] \in Nat /\ Limit[Root] \in Nat /\ Capacity \in Nat
         /\ Chunk[OwnerOf[a]] \in Nat /\ Chunk[Root] \in Nat /\ Chunk[Root] >= 1
<1>1. OwnerOf[a] \in Monitor /\ acct[a] \in Bytes /\ monOp[a] \in OpRecord
  BY AccountTypes
<1>2. mon[OwnerOf[a]] \in MonRecord /\ BudgetIn(mon[OwnerOf[a]]) \in Nat /\ GoodMon(mon[OwnerOf[a]], OwnerOf[a])
  BY <1>1, MonitorTypes
<1>3. acct[a].used \in Nat /\ acct[a].reserved \in Nat /\ Allocated(acct[a]) \in Nat
  BY <1>1 DEF Bytes, Allocated
<1>4. root \in Nat /\ root <= Capacity /\ root <= Limit[Root]
  BY DEF MonInv, MonTypeOK
<1>5. /\ mon = [mon EXCEPT ![OwnerOf[a]] = mon[OwnerOf[a]]]
      /\ acct = [acct EXCEPT ![a] = acct[a]] /\ monOp = [monOp EXCEPT ![a] = monOp[a]]
  BY <1>1 DEF MonInv, MonTypeOK
<1>6. root = root + BudgetIn(mon[OwnerOf[a]]) - BudgetIn(mon[OwnerOf[a]])
  BY <1>2, <1>4
<1>7. /\ Limit[OwnerOf[a]] \in Nat /\ Limit[Root] \in Nat /\ Capacity \in Nat
      /\ Chunk[OwnerOf[a]] \in Nat /\ Chunk[Root] \in Nat /\ Chunk[Root] >= 1
  BY <1>1, Numbers
<1> QED
  BY <1>1, <1>2, <1>3, <1>4, <1>5, <1>6, <1>7

LEMMA Alone ==
  ASSUME MonInv, NEW m \in Monitor, ~Locked(m)
  PROVE  /\ \A c \in Account : OwnerOf[c] = m => monOp[c].kind = "none"
         /\ Buffered(mon[m])
<1>1. \A c \in Account : OwnerOf[c] = m => monOp[c].kind = "none"
  BY DEF Locked
<1>2. ~GivingBack(m)
  BY <1>1 DEF GivingBack
<1> QED
  BY <1>1, <1>2 DEF MonInv

\* An account whose bytes move between its buffer and what is in use.
LEMMA BufferKeeps ==
  ASSUME MonInv, NEW a \in Account, Idle(a), NEW b \in Bytes, Allocated(b) = Allocated(acct[a]),
         acct' = [acct EXCEPT ![a] = b], UNCHANGED <<mon, root, monOp>>
  PROVE  MonInv' /\ NoneWhenStopped
<1> DEFINE m == OwnerOf[a]
           r == mon[m]
           o == monOp[a]
<1>1. /\ m \in Monitor /\ r \in MonRecord /\ GoodMon(r, m) /\ Allocated(acct[a]) \in Nat
      /\ o \in OpRecord /\ root <= Capacity /\ root <= Limit[Root]
      /\ mon = [mon EXCEPT ![m] = r] /\ monOp = [monOp EXCEPT ![a] = o]
      /\ root = root + BudgetIn(r) - BudgetIn(r)
  BY Facts, Zenon
<1>2. o.kind = "none"
  BY DEF Idle
<1>3. GoodOp(o, b, r, m)
  BY <1>2 DEF GoodOp
<1>4. r.cur = r.cur + HeldOf(o, b) - HeldOf(o, acct[a])
  BY <1>1, <1>2 DEF HeldOf, MonRecord
<1>5. r.cur <= r.cur
  BY <1>1 DEF MonRecord
<1> HIDE DEF o, r, m
<1>6. mon' = [mon EXCEPT ![m] = r] /\ monOp' = [monOp EXCEPT ![a] = o] /\ root' = root
  BY <1>1
<1> QED
  BY <1>1, <1>2, <1>3, <1>4, <1>5, <1>6, AccountStep, Zenon DEF o, r, m

LEMMA GrowBufferedKeeps ==
  ASSUME MonInv, NEW a \in Account, Idle(a), NEW x \in Nat, GrowBuffered(a, x)
  PROVE  MonInv' /\ NoneWhenStopped
<1>1. acct[a] \in Bytes /\ acct[a].used \in Nat /\ acct[a].reserved \in Nat /\ Allocated(acct[a]) \in Nat
  BY Facts
<1>2. acct[a].used + x >= 0 /\ acct[a].reserved + 0 >= x
  BY <1>1 DEF GrowBuffered
<1>3. Grown(acct[a], x, 0) \in Bytes /\ Allocated(Grown(acct[a], x, 0)) = Allocated(acct[a]) + 0
  BY <1>1, <1>2, GrownBytes
<1>4. acct' = [acct EXCEPT ![a] = Grown(acct[a], x, 0)] /\ UNCHANGED <<mon, root, monOp>>
  BY DEF GrowBuffered
<1>5. Allocated(Grown(acct[a], x, 0)) = Allocated(acct[a])
  BY <1>1, <1>3
<1> QED
  BY <1>3, <1>4, <1>5, BufferKeeps, Zenon

\* What the size that is asked of the monitor says of the account.
LEMMA Extra ==
  ASSUME MonInv, NEW a \in Account, NEW x \in Nat, acct[a].reserved < x,
         NEW extra, extra = RoundSize(OwnerOf[a], x)
  PROVE  /\ extra \in Nat /\ extra >= 1
         /\ Grown(acct[a], x, extra) \in Bytes
         /\ Allocated(Grown(acct[a], x, extra)) = Allocated(acct[a]) + extra
<1>1. OwnerOf[a] \in Monitor /\ acct[a] \in Bytes /\ acct[a].used \in Nat /\ acct[a].reserved \in Nat
  BY Facts
<1>2. extra \in Nat /\ extra >= x
  BY <1>1, RoundsUp
<1>3. acct[a].used + x >= 0 /\ acct[a].reserved + extra >= x /\ extra >= 1
  BY <1>1, <1>2
<1> QED
  BY <1>1, <1>2, <1>3, GrownBytes

LEMMA PlusZero == \A n \in Nat : n + 0 = n
OBVIOUS

LEMMA GrowFromMonitorKeeps ==
  ASSUME MonInv, NEW a \in Account, Idle(a), NEW x \in Nat,
         NEW extra, extra = RoundSize(OwnerOf[a], x), GrowFromMonitor(a, OwnerOf[a], x, extra)
  PROVE  MonInv' /\ NoneWhenStopped
<1> DEFINE m == OwnerOf[a]
           q == mon[m]
           o == monOp[a]
           b == Grown(acct[a], x, extra)
<1>1. /\ m \in Monitor /\ q \in MonRecord /\ GoodMon(q, m) /\ Allocated(acct[a]) \in Nat
      /\ o \in OpRecord /\ root <= Capacity /\ root <= Limit[Root] /\ Limit[m] \in Nat
      /\ monOp = [monOp EXCEPT ![a] = o]
      /\ root = root + BudgetIn(q) - BudgetIn(q)
  BY Facts, Zenon
<1>2. extra \in Nat /\ extra >= 1 /\ b \in Bytes /\ Allocated(b) = Allocated(acct[a]) + extra
  BY Extra DEF GrowFromMonitor
<1>3. /\ q.cur \in Nat /\ q.max \in Nat /\ q.budget \in Bytes /\ q.pool \in BOOLEAN
      /\ q.budget.used \in Nat /\ q.budget.reserved \in Nat /\ q.resv.used \in Nat
  BY <1>1, RecordTypes
<1>4. /\ o.kind = "none" /\ \A c \in Account : OwnerOf[c] = m => monOp[c].kind = "none"
      /\ Buffered(q)
  BY <1>1, Alone, Zenon DEF GrowFromMonitor, Idle
<1>5. q.cur + extra <= Limit[m]
  BY <1>1, <1>2, <1>3 DEF GrowFromMonitor, OverLimit
<1>6. Chunk[m] * (UnusedBlocks + 1) \in Nat
  BY <1>1, Margin, Numbers
<1>7. HeldOf(o, b) = Allocated(acct[a]) + extra /\ HeldOf(o, acct[a]) = Allocated(acct[a])
  BY <1>2, <1>4 DEF HeldOf
<1>8. acct' = [acct EXCEPT ![a] = b] /\ root' = root /\ monOp' = [monOp EXCEPT ![a] = o]
  BY <1>1, Zenon DEF GrowFromMonitor
<1>9. ASSUME NEW r \in MonRecord, GoodMon(r, m), r.cur = q.cur + extra, BudgetIn(r) = BudgetIn(q),
             q.pool \/ (q.alone /\ r.cur <= q.resv.used), Buffered(r),
             mon' = [mon EXCEPT ![m] = r]
      PROVE  MonInv' /\ NoneWhenStopped
  <2>1. r.cur = q.cur + HeldOf(o, b) - HeldOf(o, acct[a])
    <3>1. q.cur \in Nat /\ extra \in Nat /\ Allocated(acct[a]) \in Nat
      BY <1>1, <1>2, <1>3, Zenon
    <3> HIDE DEF q, b, o
    <3>2. q.cur + extra = q.cur + (Allocated(acct[a]) + extra) - Allocated(acct[a])
      BY <3>1
    <3> QED
      BY <3>2, <1>7, <1>9, Zenon
  <2>2. GoodOp(o, b, r, m)
    BY <1>4 DEF GoodOp
  <2>3. root = root + BudgetIn(r) - BudgetIn(q)
    BY <1>1, <1>9
  <2> HIDE DEF b
  <2> QED
    BY <1>1, <1>2, <1>4, <1>8, <1>9, <2>1, <2>2, <2>3, AccountStep, Zenon
<1>10. CASE /\ ~NeedsBudget(mon[m], extra)
            /\ mon' = [mon EXCEPT ![m] = Reserved(@, extra)]
  <2>1. /\ Reserved(q, extra) \in MonRecord /\ GoodMon(Reserved(q, extra), m)
        /\ Reserved(q, extra).cur = q.cur + extra
        /\ BudgetIn(Reserved(q, extra)) = BudgetIn(q)
        /\ q.pool \/ (q.alone /\ Reserved(q, extra).cur <= q.resv.used)
        /\ Buffered(Reserved(q, extra))
    BY <1>1, <1>2, <1>4, <1>5, <1>10, ReservedGood
  <2> QED
    BY <2>1, <1>9, <1>10, Zenon
<1>11. CASE /\ NeedsBudget(mon[m], extra) /\ mon[m].pool /\ mon[m].budget.reserved >= extra
            /\ mon' = [mon EXCEPT ![m] = Reserved(BudgetGrown(@, extra, 0), extra)]
  <2> DEFINE r == Reserved(BudgetGrown(q, extra, 0), extra)
  <2>1. q.budget.reserved + 0 >= extra /\ q.budget.reserved \in Nat
    BY <1>3, <1>11, PlusZero, Zenon
  <2>2. /\ r \in MonRecord /\ GoodMon(r, m) /\ r.cur = q.cur + extra
        /\ BudgetIn(r) = BudgetIn(q) + 0 /\ Buffered(r)
    <3>1. m \in Monitor /\ q \in MonRecord /\ GoodMon(q, m) /\ q.pool /\ extra \in Nat /\ 0 \in Nat
      BY <1>1, <1>2, <1>11
    <3>2. q.budget.reserved + 0 >= extra /\ q.cur + extra <= Limit[m] /\ Buffered(q)
      BY <2>1, <1>4, <1>5, Zenon
    <3> HIDE DEF q, m
    <3>3. Increased(q, m, extra, 0, r)
      BY <3>1, <3>2, IncreasedGood, Zenon
    <3> HIDE DEF r
    <3> QED
      BY <3>3, Zenon DEF Increased
  <2>3. mon' = [mon EXCEPT ![m] = r]
    BY <1>11, Zenon
  <2> HIDE DEF r
  <2>4. BudgetIn(r) = BudgetIn(q)
    BY <2>2, <1>1, BudgetType, PlusZero, Zenon
  <2> QED
    BY <2>2, <2>3, <2>4, <1>9, <1>11, Zenon
<1> QED
  BY <1>10, <1>11 DEF GrowFromMonitor

LEMMA GrowAsksPoolKeeps ==
  ASSUME MonInv, NEW a \in Account, Idle(a), NEW x \in Nat,
         NEW extra, extra = RoundSize(OwnerOf[a], x), GrowAsksPool(a, OwnerOf[a], x, extra)
  PROVE  MonInv' /\ NoneWhenStopped
<1> DEFINE m == OwnerOf[a]
           r == mon[m]
           b == acct[a]
           o == [kind |-> "grow", extra |-> extra, after |-> Grown(acct[a], x, extra)]
<1>1. /\ m \in Monitor /\ r \in MonRecord /\ GoodMon(r, m) /\ b \in Bytes /\ Allocated(b) \in Nat
      /\ root <= Capacity /\ root <= Limit[Root] /\ Limit[m] \in Nat
      /\ mon = [mon EXCEPT ![m] = r] /\ acct = [acct EXCEPT ![a] = b]
      /\ root = root + BudgetIn(r) - BudgetIn(r)
  BY Facts, Zenon
<1>2. /\ extra \in Nat /\ Grown(acct[a], x, extra) \in Bytes
      /\ Allocated(Grown(acct[a], x, extra)) = Allocated(b) + extra
  BY Extra DEF GrowAsksPool
<1>3. o \in OpRecord /\ o.kind = "grow" /\ o.extra = extra /\ o.after = Grown(acct[a], x, extra)
  BY <1>2 DEF OpRecord
<1>4. monOp[a].kind = "none" /\ \A c \in Account : OwnerOf[c] = m => monOp[c].kind = "none"
  BY <1>1, Alone DEF GrowAsksPool, Idle
<1>5. r.cur \in Nat
  BY <1>1, RecordTypes, Zenon
<1>6. r.cur + extra <= Limit[m] /\ r.pool /\ r.budget.reserved < extra
  BY <1>1, <1>2, <1>5 DEF GrowAsksPool, OverLimit
<1>7. /\ mon' = [mon EXCEPT ![m] = r] /\ root' = root
      /\ acct' = [acct EXCEPT ![a] = b] /\ monOp' = [monOp EXCEPT ![a] = o]
  BY <1>1, Zenon DEF GrowAsksPool
<1> HIDE DEF o
<1>8. GoodOp(o, b, r, m)
  BY <1>2, <1>3, <1>6 DEF GoodOp
<1>9. r.cur = r.cur + HeldOf(o, b) - HeldOf(monOp[a], acct[a]) /\ r.cur <= r.cur
  BY <1>1, <1>3, <1>4, <1>5 DEF HeldOf
<1> QED
  BY <1>1, <1>3, <1>4, <1>7, <1>8, <1>9, AccountStep, Zenon

\* A call inside a monitor is the only one.
LEMMA OnlyCall ==
  ASSUME MonInv, NEW a \in Account, monOp[a].kind # "none"
  PROVE  \A c \in Account : OwnerOf[c] = OwnerOf[a] /\ c # a => monOp[c].kind = "none"
BY DEF MonInv, OneCall

LEMMA PoolGrantsKeeps ==
  ASSUME MonInv, NEW a \in Account, NEW extra, extra = monOp[a].extra,
         NEW ask, ask = RoundSize(Root, extra), PoolGrants(a, OwnerOf[a], extra, ask)
  PROVE  MonInv' /\ NoneWhenStopped
<1> DEFINE m == OwnerOf[a]
           q == mon[m]
           b == monOp[a].after
           r == Reserved(BudgetGrown(q, extra, ask), extra)
<1>1. /\ m \in Monitor /\ q \in MonRecord /\ GoodMon(q, m) /\ Allocated(acct[a]) \in Nat
      /\ monOp[a] \in OpRecord /\ root \in Nat
      /\ Limit[m] \in Nat /\ Limit[Root] \in Nat /\ Capacity \in Nat
  BY Facts, Zenon
<1>2. monOp[a].kind = "grow" /\ RootGrants(ask)
  BY Zenon DEF PoolGrants
<1>3. extra \in Nat /\ b \in Bytes
  BY <1>1 DEF OpRecord
<1>4. /\ q.pool /\ Allocated(b) = Allocated(acct[a]) + extra /\ q.cur + extra <= Limit[m]
      /\ q.budget.reserved < extra
  BY <1>2, AccountTypes DEF GoodOp
<1>5. ask \in Nat /\ ask >= extra /\ ask < extra + Chunk[Root]
  BY <1>3, RoundsUp
<1>6. root + ask <= Capacity /\ root + ask <= Limit[Root]
  BY <1>1, <1>2, <1>5 DEF RootGrants, OverLimit
<1>7. /\ mon' = [mon EXCEPT ![m] = r] /\ root' = root + ask
      /\ acct' = [acct EXCEPT ![a] = b] /\ monOp' = [monOp EXCEPT ![a] = NoOp]
  BY DEF PoolGrants
<1>8. q.budget.reserved \in Nat /\ q.cur \in Nat /\ BudgetIn(q) \in Nat
  BY <1>1, RecordTypes, BudgetType
<1>9. q.budget.reserved + ask >= extra
  <2> HIDE DEF q
  <2> QED
    BY <1>3, <1>5, <1>8
<1>10. /\ r \in MonRecord /\ GoodMon(r, m) /\ r.cur = q.cur + extra
       /\ BudgetIn(r) = BudgetIn(q) + ask /\ Buffered(r)
  <2>1. m \in Monitor /\ q \in MonRecord /\ GoodMon(q, m) /\ q.pool /\ extra \in Nat /\ ask \in Nat
    BY <1>1, <1>3, <1>4, <1>5, Zenon
  <2>2. /\ q.budget.reserved + ask >= extra /\ q.cur + extra <= Limit[m]
        /\ \/ ask = 0 /\ Buffered(q)
           \/ q.budget.reserved < extra /\ ask < extra + Chunk[Root]
    BY <1>4, <1>5, <1>9, Zenon
  <2> HIDE DEF q, m
  <2>3. Increased(q, m, extra, ask, r)
    BY <2>1, <2>2, IncreasedGood, Zenon
  <2> HIDE DEF r
  <2> QED
    BY <2>3, Zenon DEF Increased
<1> HIDE DEF r
<1>11. root + ask = root + BudgetIn(r) - BudgetIn(q)
  <2>1. root \in Nat /\ ask \in Nat /\ BudgetIn(q) \in Nat /\ BudgetIn(r) = BudgetIn(q) + ask
    BY <1>1, <1>5, <1>8, <1>10, Zenon
  <2> HIDE DEF q
  <2> QED
    BY <2>1
<1>12. HeldOf(NoOp, b) = Allocated(acct[a]) + extra /\ HeldOf(monOp[a], acct[a]) = Allocated(acct[a])
  BY <1>2, <1>4, OpTypes, Zenon DEF HeldOf
<1>13. r.cur = q.cur + HeldOf(NoOp, b) - HeldOf(monOp[a], acct[a])
  <2> HIDE DEF q, b
  <2> QED
    BY <1>1, <1>3, <1>8, <1>10, <1>12
<1>14. NoOp \in OpRecord /\ NoOp.kind = "none" /\ GoodOp(NoOp, b, r, m)
  BY OpTypes, Zenon
<1>15. \A c \in Account : OwnerOf[c] = m /\ c # a => monOp[c].kind = "none"
  BY <1>2, OnlyCall, Zenon
<1> HIDE DEF b
<1> QED
  BY <1>3, <1>4, <1>6, <1>7, <1>10, <1>11, <1>13, <1>14, <1>15, AccountStep, Zenon

LEMMA PoolRefusesKeeps ==
  ASSUME MonInv, NEW a \in Account, NEW extra, NEW ask, PoolRefuses(a, OwnerOf[a], extra, ask)
  PROVE  MonInv' /\ NoneWhenStopped
<1> DEFINE m == OwnerOf[a]
           r == mon[m]
           b == acct[a]
<1>1. /\ m \in Monitor /\ r \in MonRecord /\ GoodMon(r, m) /\ b \in Bytes /\ Allocated(b) \in Nat
      /\ root <= Capacity /\ root <= Limit[Root]
      /\ mon = [mon EXCEPT ![m] = r] /\ acct = [acct EXCEPT ![a] = b]
      /\ root = root + BudgetIn(r) - BudgetIn(r)
  BY Facts
<1>2. monOp[a].kind = "grow" /\ monOp' = [monOp EXCEPT ![a] = NoOp] /\ mon' = mon /\ root' = root /\ acct' = acct
  BY DEF PoolRefuses, AfterRefusal
<1>3. r.cur = r.cur + HeldOf(NoOp, b) - HeldOf(monOp[a], acct[a]) /\ r.cur <= r.cur
  BY <1>1, <1>2, OpTypes, RecordTypes DEF HeldOf
<1>4. NoOp \in OpRecord /\ NoOp.kind = "none" /\ GoodOp(NoOp, b, r, m)
  BY OpTypes, Zenon
<1>5. /\ mon' = [mon EXCEPT ![m] = r] /\ acct' = [acct EXCEPT ![a] = b]
  BY <1>1, <1>2
<1> HIDE DEF b
<1> QED
  BY <1>1, <1>2, <1>3, <1>4, <1>5, AccountStep, Zenon

LEMMA PoolTakesBackKeeps ==
  ASSUME MonInv, NEW a \in Account, PoolTakesBack(a, OwnerOf[a])
  PROVE  MonInv' /\ NoneWhenStopped
<1> DEFINE m == OwnerOf[a]
           q == mon[m]
           b == monOp[a].after
           r == [q EXCEPT !.budget = [q.budget EXCEPT !.reserved = Chunk[Root]]]
           t == root - (q.budget.reserved - Chunk[Root])
<1>1. /\ m \in Monitor /\ q \in MonRecord /\ GoodMon(q, m)
      /\ monOp[a] \in OpRecord /\ root \in Nat /\ root <= Capacity /\ root <= Limit[Root]
      /\ Limit[Root] \in Nat /\ Capacity \in Nat /\ Chunk[Root] \in Nat
  BY Facts
<1>2. monOp[a].kind = "release" /\ b \in Bytes
  BY <1>1, Zenon DEF PoolTakesBack, OpRecord
<1>3. q.pool /\ q.budget.reserved > Chunk[Root]
  BY <1>2, AccountTypes DEF GoodOp
<1>4. /\ mon' = [mon EXCEPT ![m] = r] /\ root' = t
      /\ acct' = [acct EXCEPT ![a] = b] /\ monOp' = [monOp EXCEPT ![a] = NoOp]
  BY DEF PoolTakesBack
<1>5. /\ r \in MonRecord /\ GoodMon(r, m) /\ r.cur = q.cur /\ Buffered(r)
      /\ BudgetIn(r) = BudgetIn(q) - (q.budget.reserved - Chunk[Root])
  BY <1>1, <1>3, TakenBackGood, Zenon
<1>6. q.cur \in Nat /\ q.budget.reserved \in Nat /\ BudgetIn(q) \in Nat
  BY <1>1, RecordTypes, BudgetType
<1> HIDE DEF r
<1>7. t = root + BudgetIn(r) - BudgetIn(q) /\ t <= Capacity /\ t <= Limit[Root]
  <2> HIDE DEF q
  <2> QED
    BY <1>1, <1>3, <1>5, <1>6
<1>8. HeldOf(NoOp, b) = Allocated(b) /\ HeldOf(monOp[a], acct[a]) = Allocated(b)
  BY <1>2, OpTypes, Zenon DEF HeldOf
<1>9. Allocated(b) \in Nat
  BY <1>2 DEF Allocated, Bytes
<1>10. r.cur = q.cur + HeldOf(NoOp, b) - HeldOf(monOp[a], acct[a]) /\ r.cur <= q.cur
  <2> HIDE DEF q, b
  <2> QED
    BY <1>5, <1>6, <1>8, <1>9
<1>11. NoOp \in OpRecord /\ NoOp.kind = "none" /\ GoodOp(NoOp, b, r, m)
  BY OpTypes, Zenon
<1>12. \A c \in Account : OwnerOf[c] = m /\ c # a => monOp[c].kind = "none"
  BY <1>2, OnlyCall
<1> HIDE DEF b, t
<1> QED
  BY <1>2, <1>4, <1>5, <1>7, <1>10, <1>11, <1>12, AccountStep, Zenon

LEMMA ReleaseKeeps ==
  ASSUME MonInv, NEW a \in Account, Idle(a), NEW b \in Bytes, Allocated(b) <= Allocated(acct[a]),
         Release(a, OwnerOf[a], b)
  PROVE  MonInv' /\ NoneWhenStopped
<1> DEFINE m == OwnerOf[a]
           q == mon[m]
           n == q.cur - (Allocated(acct[a]) - Allocated(b))
           p == [q EXCEPT !.cur = n]
           r == Adjusted(p, m, Needed(p, m))
           o == [kind |-> "release", extra |-> 0, after |-> b]
<1>1. /\ m \in Monitor /\ q \in MonRecord /\ GoodMon(q, m) /\ monOp[a] \in OpRecord
      /\ acct[a] \in Bytes /\ Allocated(acct[a]) \in Nat /\ Limit[m] \in Nat
      /\ root \in Nat /\ root <= Capacity /\ root <= Limit[Root] /\ Chunk[Root] \in Nat /\ Chunk[Root] >= 1
      /\ acct = [acct EXCEPT ![a] = acct[a]] /\ monOp = [monOp EXCEPT ![a] = monOp[a]]
      /\ root = root + BudgetIn(q) - BudgetIn(q)
  BY Facts
<1>2. monOp[a].kind = "none" /\ HeldOf(monOp[a], acct[a]) = Allocated(acct[a])
  BY Zenon DEF Idle, HeldOf
<1>3. Allocated(acct[a]) <= q.cur
  BY <1>2, HeldAtMost
<1>4. Allocated(b) \in Nat
  BY DEF Allocated, Bytes
<1>5. q.cur \in Nat /\ BudgetIn(q) \in Nat
  BY <1>1, RecordTypes, BudgetType
<1>6. n \in Nat /\ n <= q.cur /\ n = q.cur + Allocated(b) - Allocated(acct[a])
  <2> HIDE DEF q
  <2> QED
    BY <1>1, <1>3, <1>4, <1>5
<1>7. mon' = [mon EXCEPT ![m] = r] /\ root' = root /\ ~Locked(m)
  BY DEF Release, ReleaseTo
<1>8. IF GivesBack(p, m, Needed(p, m))
      THEN monOp' = [monOp EXCEPT ![a] = o] /\ acct' = acct
      ELSE monOp' = monOp /\ acct' = [acct EXCEPT ![a] = b]
  BY DEF Release, ReleaseTo
<1>9. Buffered(q)
  BY <1>1, <1>7, Alone, Zenon
<1> HIDE DEF n
<1>10. /\ r \in MonRecord /\ GoodMon(r, m) /\ r.cur = n /\ BudgetIn(r) = BudgetIn(q)
       /\ GivesBack(p, m, Needed(p, m)) => r.pool /\ r.budget.reserved > Chunk[Root]
       /\ ~GivesBack(p, m, Needed(p, m)) => Buffered(r)
  BY <1>1, <1>6, <1>9, ReleasedGood
<1> HIDE DEF r, p
<1>12. root = root + BudgetIn(r) - BudgetIn(q)
  BY <1>1, <1>10
<1>13. \A c \in Account : OwnerOf[c] = m /\ c # a => monOp[c].kind = "none"
  BY <1>1, <1>7, Alone, Zenon
<1>14. r.cur = q.cur + Allocated(b) - Allocated(acct[a]) /\ r.cur <= q.cur
  BY <1>6, <1>10, Zenon
<1>16. CASE GivesBack(p, m, Needed(p, m))
  <2>1. monOp' = [monOp EXCEPT ![a] = o] /\ acct' = acct
    BY <1>8, <1>16, Zenon
  <2>2. acct' = [acct EXCEPT ![a] = acct[a]]
    BY <2>1, <1>1
  <2>3. o \in OpRecord /\ HeldOf(o, acct[a]) = Allocated(b) /\ o.kind = "release"
    BY DEF OpRecord, HeldOf
  <2> HIDE DEF o
  <2>4. r.budget.reserved > Chunk[Root] /\ r.pool
    BY <1>10, <1>16, Zenon
  <2>6. GoodOp(o, acct[a], r, m)
    BY <2>3, <2>4, Zenon DEF GoodOp
  <2>7. r.cur = q.cur + HeldOf(o, acct[a]) - HeldOf(monOp[a], acct[a])
    BY <2>3, <1>2, <1>14, Zenon
  <2> QED
    BY <2>1, <2>2, <2>3, <2>6, <2>7, <1>1, <1>7, <1>10, <1>12, <1>13, <1>14, AccountStep, Zenon
<1>17. CASE ~GivesBack(p, m, Needed(p, m))
  <2>1. monOp' = monOp /\ acct' = [acct EXCEPT ![a] = b] /\ Buffered(r)
    BY <1>8, <1>10, <1>17, Zenon
  <2>2. monOp' = [monOp EXCEPT ![a] = monOp[a]]
    BY <2>1, <1>1
  <2>3. HeldOf(monOp[a], b) = Allocated(b) /\ GoodOp(monOp[a], b, r, m)
    BY <1>2, Zenon DEF HeldOf, GoodOp
  <2>4. r.cur = q.cur + HeldOf(monOp[a], b) - HeldOf(monOp[a], acct[a])
    BY <2>3, <1>2, <1>14, Zenon
  <2> QED
    BY <2>1, <2>2, <2>3, <2>4, <1>1, <1>7, <1>10, <1>12, <1>13, <1>14, AccountStep, Zenon
<1> QED
  BY <1>16, <1>17

\* The bytes that Shrink takes out of use stay in the account's buffer.
LEMMA ShrunkBytes ==
  ASSUME NEW d \in Bytes, NEW n \in Nat, n <= d.used
  PROVE  Grown(d, n - d.used, 0) \in Bytes /\ Allocated(Grown(d, n - d.used, 0)) = Allocated(d)
BY DEF Bytes, Grown, Allocated

\* Shrink to n bytes in use: the rest goes to the buffer, and from there to the monitor.
LEMMA ShrinkKeeps ==
  ASSUME MonInv, NEW a \in Account, Idle(a), NEW n \in Nat, n <= acct[a].used,
         Shrink(a, OwnerOf[a], Grown(acct[a], n - acct[a].used, 0))
  PROVE  MonInv' /\ NoneWhenStopped
<1> DEFINE m == OwnerOf[a]
           b == Grown(acct[a], n - acct[a].used, 0)
<1>1. /\ acct[a] \in Bytes /\ acct[a].used \in Nat /\ acct[a].reserved \in Nat
      /\ Allocated(acct[a]) \in Nat /\ Chunk[m] \in Nat
  BY Facts
<1>2. b \in Bytes /\ Allocated(b) = Allocated(acct[a])
  BY <1>1, ShrunkBytes, Zenon
<1> HIDE DEF b
<1>3. CASE b.reserved <= Chunk[m]
  <2>1. acct' = [acct EXCEPT ![a] = b] /\ UNCHANGED <<mon, root, monOp>>
    BY <1>3, Zenon DEF Shrink, b
  <2> QED
    BY <2>1, <1>2, BufferKeeps, Zenon
<1>4. CASE ~(b.reserved <= Chunk[m])
  <2> DEFINE c == [b EXCEPT !.reserved = Chunk[m]]
  <2>1. Release(a, m, c)
    BY <1>4 DEF Shrink, b
  <2>2. c \in Bytes /\ Allocated(c) <= Allocated(b)
    BY <1>1, <1>2, <1>4 DEF Bytes, Allocated
  <2> HIDE DEF c
  <2> QED
    BY <2>1, <2>2, <1>2, ReleaseKeeps
<1> QED
  BY <1>3, <1>4

\* A monitor that is started with reserve d, of which the pool counts n bytes.
LEMMA StartedKeeps ==
  ASSUME MonInv, NEW m \in Monitor, MayStart(m), NEW d \in Bytes, NEW alone \in BOOLEAN,
         NEW n \in Nat, n = IF alone THEN 0 ELSE Allocated(d),
         root + n <= Capacity, root + n <= Limit[Root],
         mon' = [mon EXCEPT ![m] = Started(d, alone)], root' = root + n, acct' = acct, monOp' = monOp
  PROVE  MonInv' /\ NoneWhenStopped
<1> DEFINE q == mon[m]
           r == Started(d, alone)
<1>1. q \in MonRecord /\ GoodMon(q, m) /\ q.cur = 0 /\ ~q.pool
  BY MonitorTypes DEF MayStart
<1>2. BudgetIn(q) = 0
  <2>1. q.budget = NoBytes /\ (q.alone \/ q.resv = NoBytes)
    BY <1>1, Zenon DEF GoodMon
  <2>2. PooledReserve(q) = 0
    BY <2>1, NoBytesFacts DEF PooledReserve
  <2> QED
    BY <2>1, <2>2, NoBytesFacts DEF BudgetIn
<1>3. /\ r \in MonRecord /\ r.cur = 0 /\ r.max = 0 /\ r.budget = NoBytes /\ r.resv = d
      /\ r.alone = alone /\ r.pool = TRUE
  BY NoBytesFacts, Zenon DEF Started, NewMonitor, MonRecord
<1> HIDE DEF r
<1>4. GoodMon(r, m)
  <2>1. /\ Chunk[m] * (UnusedBlocks + 1) \in Nat /\ Chunk[m] * (UnusedBlocks + 1) >= 1
        /\ Limit[m] \in Nat /\ d.used \in Nat
    BY Margin, Numbers DEF Bytes
  <2> QED
    BY <2>1, <1>3, NoBytesFacts DEF GoodMon
<1>5. BudgetIn(r) = n
  <2>1. PooledReserve(r) = n
    BY <1>3, Zenon DEF PooledReserve
  <2> QED
    BY <2>1, <1>3, NoBytesFacts DEF BudgetIn
<1>6. root + n = root + BudgetIn(r) - BudgetIn(q)
  <2>1. root \in Nat
    BY DEF MonInv, MonTypeOK
  <2> QED
    BY <2>1, <1>2, <1>5
<1>7. ASSUME NEW c \in Account, OwnerOf[c] = m PROVE monOp[c].kind = "none"
  BY <1>1, <1>7, AccountTypes, Zenon DEF GoodOp
<1>8. Buffered(r)
  <2>1. Chunk[Root] \in Nat
    BY Numbers
  <2> QED
    BY <2>1, <1>3, NoBytesFacts DEF Buffered
<1>9. r.cur = q.cur
  BY <1>1, <1>3, Zenon
<1> QED
  BY <1>1, <1>3, <1>4, <1>6, <1>7, <1>8, <1>9, MonitorStep, Zenon DEF r

LEMMA StartMonitorKeeps ==
  ASSUME MonInv, NEW m \in Monitor, NEW x \in Nat, NEW ask, ask = RoundSize(Root, x),
         StartMonitor(m, x, ask)
  PROVE  MonInv' /\ NoneWhenStopped
<1> DEFINE d == Grown(NoBytes, x, ask)
<1>1. /\ root \in Nat /\ root <= Capacity /\ root <= Limit[Root]
      /\ Limit[Root] \in Nat /\ Capacity \in Nat
  BY Numbers DEF MonInv, MonTypeOK
<1>2. ask \in Nat /\ ask >= x
  BY RoundsUp
<1>3. root + ask <= Capacity /\ root + ask <= Limit[Root]
  <2>1. CASE x = 0
    BY <2>1, <1>1, RoundsZero
  <2>2. CASE RootGrants(ask)
    BY <2>2, <1>1, <1>2 DEF RootGrants, OverLimit
  <2> QED
    BY <2>1, <2>2 DEF StartMonitor
<1>4. d \in Bytes /\ Allocated(d) = 0 + ask
  <2>1. NoBytes.used + x >= 0 /\ NoBytes.reserved + ask >= x
    BY <1>2, NoBytesFacts
  <2> QED
    BY <2>1, <1>2, NoBytesFacts, GrownBytes
<1>5. /\ MayStart(m) /\ mon' = [mon EXCEPT ![m] = Started(d, FALSE)]
      /\ root' = root + ask /\ acct' = acct /\ monOp' = monOp
  BY DEF StartMonitor
<1> HIDE DEF d
<1>6. ask = IF FALSE THEN 0 ELSE Allocated(d)
  BY <1>2, <1>4
<1> QED
  BY <1>2, <1>3, <1>4, <1>5, <1>6, StartedKeeps, Zenon

\* The bytes of MakeStandaloneBudget are not the pool's.
LEMMA StartStandaloneKeeps ==
  ASSUME MonInv, NEW m \in Monitor, NEW x \in Nat, StartStandalone(m, x)
  PROVE  MonInv' /\ NoneWhenStopped
<1> DEFINE d == [NoBytes EXCEPT !.used = x]
<1>1. /\ root \in Nat /\ root <= Capacity /\ root <= Limit[Root]
  BY DEF MonInv, MonTypeOK
<1>2. d \in Bytes
  BY DEF NoBytes, Bytes
<1>3. /\ MayStart(m) /\ mon' = [mon EXCEPT ![m] = Started(d, TRUE)]
      /\ root' = root /\ acct' = acct /\ monOp' = monOp
  BY DEF StartStandalone
<1>4. root + 0 = root /\ 0 \in Nat
  BY <1>1
<1> HIDE DEF d
<1>5. 0 = IF TRUE THEN 0 ELSE Allocated(d)
  OBVIOUS
<1> QED
  BY <1>1, <1>2, <1>3, <1>4, <1>5, StartedKeeps, Zenon

LEMMA StopMonitorKeeps ==
  ASSUME MonInv, NEW m \in Monitor, StopMonitor(m)
  PROVE  MonInv' /\ NoneWhenStopped
<1> DEFINE q == mon[m]
           r == Cleared(q)
           t == root - BudgetIn(q)
<1>1. q \in MonRecord /\ GoodMon(q, m) /\ BudgetIn(q) \in Nat
  BY MonitorTypes
<1>2. /\ root \in Nat /\ root <= Capacity /\ root <= Limit[Root]
      /\ Limit[Root] \in Nat /\ Capacity \in Nat /\ Chunk[Root] \in Nat
  BY Numbers DEF MonInv, MonTypeOK
<1>3. mon' = [mon EXCEPT ![m] = r] /\ root' = t /\ acct' = acct /\ monOp' = monOp /\ ~Locked(m)
  BY DEF StopMonitor
<1>4. /\ r \in MonRecord /\ r.cur = q.cur /\ r.max = q.max /\ r.alone = q.alone
      /\ r.budget = NoBytes /\ (~r.alone => r.resv = NoBytes) /\ r.pool = FALSE
  <2> DEFINE d == IF q.alone THEN q.resv ELSE NoBytes
  <2>1. d \in Bytes /\ (~q.alone => d = NoBytes)
    BY <1>1, RecordTypes, NoBytesFacts
  <2>2. r = [q EXCEPT !.budget = NoBytes, !.pool = FALSE, !.resv = d]
    BY <1>1 DEF Cleared, MonRecord
  <2> HIDE DEF d, r
  <2> QED
    BY <2>1, <2>2, <1>1, NoBytesFacts, Zenon DEF MonRecord
<1> HIDE DEF r
<1>5. GoodMon(r, m)
  BY <1>1, <1>4, Zenon DEF GoodMon
<1>6. PooledReserve(r) = 0
  BY <1>4, NoBytesFacts DEF PooledReserve
<1>7. BudgetIn(r) = 0
  BY <1>4, <1>6, NoBytesFacts DEF BudgetIn
<1>8. t = root + BudgetIn(r) - BudgetIn(q) /\ t <= Capacity /\ t <= Limit[Root]
  BY <1>1, <1>2, <1>7
<1>9. \A c \in Account : OwnerOf[c] = m => monOp[c].kind = "none"
  BY <1>3, Alone
<1>10. Buffered(r)
  <2>1. r.budget.used = 0 /\ r.budget.reserved = 0
    BY <1>4, NoBytesFacts, Zenon
  <2> QED
    BY <1>2, <2>1 DEF Buffered
<1> HIDE DEF t
<1> QED
  BY <1>3, <1>4, <1>5, <1>8, <1>9, <1>10, MonitorStep, Zenon

-----------------------------------------------------------------------------
(* Theorems *)

LEMMA MonInitInv == MonInit => MonInv
<1> SUFFICES ASSUME MonInit PROVE MonInv
  OBVIOUS
<1>1. /\ NewMonitor \in MonRecord /\ NewMonitor.cur = 0 /\ NewMonitor.max = 0 /\ ~NewMonitor.pool
      /\ NewMonitor.budget = NoBytes /\ NewMonitor.resv = NoBytes
  BY NoBytesFacts DEF NewMonitor, MonRecord
<1>2. BudgetIn(NewMonitor) = 0
  BY <1>1, NoBytesFacts DEF BudgetIn, PooledReserve
<1>3. \A m \in Monitor : mon[m] = NewMonitor
  BY DEF MonInit
<1>4. \A a \in Account : acct[a] = NoBytes /\ monOp[a] = NoOp /\ HeldOf(monOp[a], acct[a]) = 0
  BY NoBytesFacts, OpTypes DEF MonInit
<1>5. MonTypeOK
  BY <1>1, NoBytesFacts, OpTypes DEF MonInit, MonTypeOK, MonRecord, OpRecord
<1>6. ASSUME NEW m \in Monitor PROVE GoodMon(mon[m], m)
  <2>1. Limit[m] \in Nat
    BY Numbers
  <2> QED
    BY <2>1, <1>1, <1>3 DEF GoodMon
<1>7. \A a \in Account : GoodOp(monOp[a], acct[a], mon[OwnerOf[a]], OwnerOf[a])
  BY <1>4, OpTypes, Zenon
<1>8. OneCall /\ \A m \in Monitor : Buffered(mon[m])
  BY <1>1, <1>3, <1>4, OpTypes, NoBytesFacts, Numbers DEF OneCall, Buffered
<1>9. root <= Capacity /\ root <= Limit[Root]
  BY Numbers DEF MonInit
<1>10. IsFiniteSet(Monitor) /\ IsFiniteSet(Account)
  BY MonitorAssumption
<1>11. ASSUME NEW m \in Monitor PROVE AddsUpTo(Shares(m), Account, mon[m].cur)
  <2>1. Shares(m) = [a \in Account |-> 0]
    BY <1>4 DEF Shares
  <2>2. mon[m].cur = 0
    BY <1>1, <1>3
  <2> QED
    BY <2>1, <2>2, <1>10, AddsUpZero, Zenon
<1>12. AddsUpTo(Budgets, Monitor, root)
  <2>1. Budgets = [m \in Monitor |-> 0]
    BY <1>2, <1>3 DEF Budgets
  <2>2. root = 0
    BY DEF MonInit
  <2> QED
    BY <2>1, <2>2, <1>10, AddsUpZero, Zenon
<1> QED
  BY <1>5, <1>6, <1>7, <1>8, <1>9, <1>11, <1>12 DEF MonInv, BytesAddUp, AddsUpTo

LEMMA Unchanged ==
  ASSUME MonInv, UNCHANGED monVars
  PROVE  MonInv' /\ NoneWhenStopped
<1>1. mon' = mon /\ root' = root /\ acct' = acct /\ monOp' = monOp
  BY Zenon DEF monVars
<1>2. MonInv'
  <2>1. MonTypeOK' /\ OneCall' /\ (root <= Capacity /\ root <= Limit[Root])'
    BY <1>1 DEF MonInv, MonTypeOK, OneCall
  <2>2. \A m \in Monitor : GoodMon(mon[m], m)'
    BY <1>1, Zenon DEF MonInv, GoodMon
  <2>3. \A a \in Account : GoodOp(monOp[a], acct[a], mon[OwnerOf[a]], OwnerOf[a])'
    BY <1>1, Zenon DEF MonInv, GoodOp
  <2>6. \A m \in Monitor : (GivingBack(m) \/ Buffered(mon[m]))'
    BY <1>1, Zenon DEF MonInv, GivingBack, Buffered
  <2>4. AddsUpTo(Budgets, Monitor, root)'
    <3>1. Budgets' = Budgets
      BY <1>1 DEF Budgets
    <3>2. AddsUpTo(Budgets', Monitor, root')
      BY <1>1, <3>1, Zenon DEF MonInv, BytesAddUp, AddsUpTo
    <3> QED
      BY <3>2, Zenon DEF AddsUpTo
  <2>5. ASSUME NEW m \in Monitor PROVE AddsUpTo(Shares(m), Account, mon[m].cur)'
    <3>1. Shares(m)' = Shares(m)
      BY <1>1 DEF Shares
    <3>2. AddsUpTo(Shares(m)', Account, mon'[m].cur)
      BY <1>1, <3>1, Zenon DEF MonInv, BytesAddUp, AddsUpTo
    <3> QED
      BY <3>2, Zenon DEF AddsUpTo
  <2> QED
    BY <2>1, <2>2, <2>3, <2>4, <2>5, <2>6 DEF MonInv, BytesAddUp, AddsUpTo
<1>3. ASSUME NEW m \in Monitor PROVE mon'[m].cur <= mon[m].cur
  BY <1>1, MonitorTypes, RecordTypes
<1> QED
  BY <1>2, <1>3 DEF NoneWhenStopped

\* Every step keeps the invariant, and hands out nothing of a stopped monitor but
\* standalone bytes.
LEMMA MonNextInv ==
  ASSUME MonInv, [MonNext]_monVars
  PROVE  MonInv' /\ NoneWhenStopped
<1>1. ASSUME NEW a \in Account, Idle(a), NEW n \in Sizes, ResizeTo(a, n)
      PROVE  MonInv' /\ NoneWhenStopped
  <2>1. n \in Nat /\ acct[a].used \in Nat
    BY Facts, Numbers, Zenon
  <2>2. CASE n > acct[a].used /\ Grow(a, n - acct[a].used)
    <3> DEFINE x == n - acct[a].used
    <3>1. x \in Nat
      BY <2>1, <2>2
    <3> HIDE DEF x
    <3>2. CASE GrowBuffered(a, x)
      BY <1>1, <3>1, <3>2, GrowBufferedKeeps
    <3>3. CASE GrowFromMonitor(a, OwnerOf[a], x, RoundSize(OwnerOf[a], x))
      BY <1>1, <3>1, <3>3, GrowFromMonitorKeeps
    <3>4. CASE GrowRefused(a, OwnerOf[a], x, RoundSize(OwnerOf[a], x))
      BY <3>4, Unchanged DEF GrowRefused
    <3>5. CASE GrowAsksPool(a, OwnerOf[a], x, RoundSize(OwnerOf[a], x))
      BY <1>1, <3>1, <3>5, GrowAsksPoolKeeps
    <3> QED
      BY <2>2, <3>2, <3>3, <3>4, <3>5 DEF Grow, x
  <2>3. CASE n < acct[a].used /\ Shrink(a, OwnerOf[a], Grown(acct[a], n - acct[a].used, 0))
    <3>1. n <= acct[a].used
      BY <2>1, <2>3
    <3> QED
      BY <1>1, <2>1, <2>3, <3>1, ShrinkKeeps, Zenon
  <2> QED
    BY <1>1, <2>2, <2>3 DEF ResizeTo
<1>2. ASSUME NEW a \in Account, Idle(a), Empty(a) PROVE MonInv' /\ NoneWhenStopped
  <2>1. acct[a].used \in Nat /\ 0 \in Nat /\ 0 <= acct[a].used
    BY Facts
  <2>2. -acct[a].used = 0 - acct[a].used
    BY <2>1
  <2>3. Shrink(a, OwnerOf[a], Grown(acct[a], 0 - acct[a].used, 0))
    BY <1>2, <2>2, Zenon DEF Empty
  <2> QED
    BY <1>2, <2>1, <2>3, ShrinkKeeps, Zenon
<1>3. ASSUME NEW a \in Account, Idle(a), ClearAccount(a) PROVE MonInv' /\ NoneWhenStopped
  <2>1. NoBytes \in Bytes /\ Allocated(NoBytes) <= Allocated(acct[a]) /\ Release(a, OwnerOf[a], NoBytes)
    BY <1>3, Facts, NoBytesFacts DEF ClearAccount
  <2> QED
    BY <1>3, <2>1, ReleaseKeeps
<1>4. ASSUME NEW a \in Account, PoolGrants(a, OwnerOf[a], monOp[a].extra, RoundSize(Root, monOp[a].extra))
      PROVE  MonInv' /\ NoneWhenStopped
  BY <1>4, PoolGrantsKeeps
<1>5. ASSUME NEW a \in Account, PoolRefuses(a, OwnerOf[a], monOp[a].extra, RoundSize(Root, monOp[a].extra))
      PROVE  MonInv' /\ NoneWhenStopped
  BY <1>5, PoolRefusesKeeps
<1>6. ASSUME NEW a \in Account, PoolTakesBack(a, OwnerOf[a]) PROVE MonInv' /\ NoneWhenStopped
  BY <1>6, PoolTakesBackKeeps
<1>7. ASSUME NEW m \in Monitor, NEW x \in Reserves, StartMonitor(m, x, RoundSize(Root, x))
      PROVE  MonInv' /\ NoneWhenStopped
  <2>1. x \in Nat
    BY Numbers
  <2> QED
    BY <1>7, <2>1, StartMonitorKeeps
<1>8. ASSUME NEW m \in Monitor, StopMonitor(m) PROVE MonInv' /\ NoneWhenStopped
  BY <1>8, StopMonitorKeeps
<1>9. CASE UNCHANGED monVars
  BY <1>9, Unchanged
<1>10. ASSUME NEW m \in Monitor, NEW x \in Standalones, StartStandalone(m, x)
       PROVE  MonInv' /\ NoneWhenStopped
  <2>1. x \in Nat
    BY Numbers
  <2> QED
    BY <1>10, <2>1, StartStandaloneKeeps
<1> QED
  BY <1>1, <1>2, <1>3, <1>4, <1>5, <1>6, <1>7, <1>8, <1>9, <1>10, Zenon DEF MonNext

LEMMA MonInvAlways == MonSpec => []MonInv
<1>1. MonInit => MonInv
  BY MonInitInv
<1>2. MonInv /\ [MonNext]_monVars => MonInv'
  BY MonNextInv
<1> QED
  BY <1>1, <1>2, PTL DEF MonSpec

\* No counter of utils/mon is ever negative: releases never exceed what was
\* reserved, at any monitor, in any interleaving.
THEOREM CountersNeverNegative == MonSpec => []MonTypeOK
<1>1. MonInv => MonTypeOK
  BY Zenon DEF MonInv
<1> QED
  BY <1>1, MonInvAlways, PTL

\* What a started monitor handed out is backed by its reserve and its budget, and
\* neither a monitor exceeds its limit nor the pool its capacity (reserveBytes).
THEOREM MonitorsCovered == MonSpec => []Covered
<1>1. MonInv => Covered
  BY Zenon DEF MonInv, Covered, GoodMon
<1> QED
  BY <1>1, MonInvAlways, PTL

\* adjustBudget bounds what a monitor's budget has in use at the pool beyond the
\* monitor's allocations, and the buffer beside it, which adjustBudget does not look
\* at, by what is in use and a chunk of the pool.
THEOREM BudgetSlack == MonSpec => []SlackBounded
<1>1. MonInv => SlackBounded
  <2> SUFFICES ASSUME MonInv, NEW m \in Monitor, mon[m].pool
               PROVE  /\ mon[m].budget.used < mon[m].cur + Chunk[m] * (UnusedBlocks + 1)
                      /\ Buffer(m) <= mon[m].budget.used + Chunk[Root]
    BY DEF SlackBounded
  <2>1. mon[m].budget.used < mon[m].cur + Chunk[m] * (UnusedBlocks + 1)
    BY Zenon DEF MonInv, GoodMon
  <2>2. GivingBack(m) \/ Buffered(mon[m])
    BY Zenon DEF MonInv
  <2>3. mon[m].budget.used \in Nat /\ Chunk[Root] \in Nat
    BY MonitorTypes, RecordTypes, Numbers
  <2> QED
    BY <2>1, <2>2, <2>3 DEF Buffer, Buffered
<1> QED
  BY <1>1, MonInvAlways, PTL

\* No byte is lost or made up: what the accounts hold adds up to what their monitor
\* counts, and the monitors' budgets to what the pool counts (curAllocated), between
\* the two steps of a call too.
THEOREM BytesConserved == MonSpec => []BytesAddUp
<1>1. MonInv => BytesAddUp
  BY DEF MonInv
<1> QED
  BY <1>1, MonInvAlways, PTL

\* A monitor that doStop cleared hands out nothing of a pool: no more than the
\* standalone bytes it was started with, which Clear leaves to it.
THEOREM StoppedIsFinal == MonSpec => StoppedHandsOutNoPool
<1>1. MonInv /\ [MonNext]_monVars => [NoneWhenStopped]_monVars
  BY MonNextInv
<1>2. MonSpec => [][NoneWhenStopped]_monVars
  BY <1>1, MonInvAlways, PTL DEF MonSpec
<1> QED
  BY <1>2 DEF StoppedHandsOutNoPool, NoneWhenStopped
=============================================================================
