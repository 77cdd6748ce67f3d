---------------------------- MODULE BytesMonitor ----------------------------
(***************************************************************************)
(* Memory accounting of utils/mon: accounts draw on monitors, and the      *)
(* monitors draw on a pool, each level in chunks of its own size.  A       *)
(* monitor's counters are guarded by its mutex, which stays locked while   *)
(* its budget at the pool is grown or shrunk; an account belongs to one    *)
(* goroutine.  A call that needs the pool takes two steps, so calls at     *)
(* other monitors come between.                                            *)
(***************************************************************************)
EXTENDS Integers, FiniteSets, Functions

CONSTANTS Monitor,       \* the monitors whose pool is Root
          Root,          \* the monitor without a pool
          Account,       \* the accounts
          OwnerOf,       \* BoundAccount.mon: the monitor of each account
          Chunk,         \* poolAllocationSize of every monitor
          Limit,         \* limit of every monitor
          Capacity,      \* the standalone budget that Root is started with
          UnusedBlocks,  \* maxAllocatedButUnusedBlocks
          MaxRoundSize,  \* sizes from here on are not rounded
          Sizes,         \* the sizes accounts are resized to
          Reserves,      \* the sizes reserved at the pool for a monitor before it starts
          Standalones    \* the sizes of standalone budgets that monitors start with

ASSUME MonitorAssumption ==
  /\ Root \notin Monitor /\ IsFiniteSet(Monitor) /\ IsFiniteSet(Account)
  /\ OwnerOf \in [Account -> Monitor]
  /\ Chunk \in [Monitor \cup {Root} -> Nat \ {0}]
  /\ Limit \in [Monitor \cup {Root} -> Nat \ {0}]
  /\ Capacity \in Nat /\ UnusedBlocks \in Nat \ {0} /\ MaxRoundSize \in Nat
  /\ Sizes \subseteq Nat /\ Reserves \subseteq Nat /\ Standalones \subseteq Nat

VARIABLES mon,    \* the monitors of Monitor
          root,   \* curAllocated of Root
          acct,   \* the accounts
          monOp   \* the call of an account that holds its monitor's mutex

monVars == <<mon, root, acct, monOp>>

NoBytes == [used |-> 0, reserved |-> 0]
Allocated(b) == b.used + b.reserved

\* Where a call is when it waits for the pool: extra is what reserveBytes asked
\* for, after the account as it is when the call returns.
NoOp == [kind |-> "none", extra |-> 0, after |-> NoBytes]

\* A monitor that was not started, or was stopped, has no pool.  Its reserve is
\* an account at the pool, or has no monitor when it is alone: "bytes out of the
\* aether".
NewMonitor == [cur |-> 0, max |-> 0, budget |-> NoBytes, resv |-> NoBytes, alone |-> FALSE,
               pool |-> FALSE]

MonInit == /\ mon = [m \in Monitor |-> NewMonitor]
           /\ root = 0
           /\ acct = [a \in Account |-> NoBytes]
           /\ monOp = [a \in Account |-> NoOp]

\* The mutant rounds down.
RoundDown(m, sz) == (sz \div Chunk[m]) * Chunk[m]
RoundSize(m, sz) ==
  IF sz >= MaxRoundSize THEN sz
  ELSE ((sz + Chunk[m] - 1) \div Chunk[m]) * Chunk[m]

\* A call waiting for the pool holds the mutex.  The mutant unlocks it before.
NeverLocked(m) == FALSE
Locked(m) == \E a \in Account : OwnerOf[a] = m /\ monOp[a].kind # "none"
Idle(a) == monOp[a].kind = "none"

\* reserveBytes: the limit, and whether the budget has to grow.
OverLimit(m, cur, x) == cur > Limit[m] - x
NeedsBudget(r, x) == r.cur > r.budget.used + r.resv.used - x
Reserved(r, x) == [r EXCEPT !.cur = @ + x, !.max = IF @ < r.cur + x THEN r.cur + x ELSE @]

\* reserveBytes of Root, whose budget is Capacity and cannot grow.
RootGrants(x) == ~OverLimit(Root, root, x) /\ ~(root > Capacity - x)

\* Grow of an account or a budget once its monitor reserved extra for it.
Grown(b, x, extra) == [used |-> b.used + x, reserved |-> b.reserved + extra - x]

\* increaseBudget: x more bytes for the monitor, for which the pool reserved ask.
BudgetGrown(r, x, ask) == [r EXCEPT !.budget = Grown(@, x, ask)]

\* Grow, when the account's buffer has x bytes.
GrowBuffered(a, x) ==
  /\ acct[a].reserved >= x
  /\ acct' = [acct EXCEPT ![a] = Grown(@, x, 0)]
  /\ UNCHANGED <<mon, root, monOp>>

\* Grow, when the monitor's budget, or the buffer of that, suffices.
GrowFromMonitor(a, m, x, extra) ==
  /\ acct[a].reserved < x /\ ~Locked(m) /\ ~OverLimit(m, mon[m].cur, extra)
  /\ \/ /\ ~NeedsBudget(mon[m], extra)
        /\ mon' = [mon EXCEPT ![m] = Reserved(@, extra)]
     \/ /\ NeedsBudget(mon[m], extra) /\ mon[m].pool /\ mon[m].budget.reserved >= extra
        /\ mon' = [mon EXCEPT ![m] = Reserved(BudgetGrown(@, extra, 0), extra)]
  /\ acct' = [acct EXCEPT ![a] = Grown(@, x, extra)]
  /\ UNCHANGED <<root, monOp>>

\* Grow, when the monitor refuses: nothing has changed.
GrowRefused(a, m, x, extra) ==
  /\ acct[a].reserved < x /\ ~Locked(m)
  /\ OverLimit(m, mon[m].cur, extra) \/ (NeedsBudget(mon[m], extra) /\ ~mon[m].pool)
  /\ UNCHANGED monVars

\* Grow, when the budget has to grow too: increaseBudget calls the pool.
GrowAsksPool(a, m, x, extra) ==
  /\ acct[a].reserved < x /\ ~Locked(m) /\ ~OverLimit(m, mon[m].cur, extra)
  /\ NeedsBudget(mon[m], extra) /\ mon[m].pool /\ mon[m].budget.reserved < extra
  /\ monOp' = [monOp EXCEPT ![a] = [kind |-> "grow", extra |-> extra,
                                    after |-> Grown(acct[a], x, extra)]]
  /\ UNCHANGED <<mon, root, acct>>

Grow(a, x) ==
  \/ GrowBuffered(a, x)
  \/ GrowFromMonitor(a, OwnerOf[a], x, RoundSize(OwnerOf[a], x))
  \/ GrowRefused(a, OwnerOf[a], x, RoundSize(OwnerOf[a], x))
  \/ GrowAsksPool(a, OwnerOf[a], x, RoundSize(OwnerOf[a], x))

\* The pool's answer: reserveBytes of Root, and the rest of the call.
PoolGrants(a, m, extra, ask) ==
  /\ monOp[a].kind = "grow" /\ RootGrants(ask)
  /\ root' = root + ask
  /\ mon' = [mon EXCEPT ![m] = Reserved(BudgetGrown(@, extra, ask), extra)]
  /\ acct' = [acct EXCEPT ![a] = monOp[a].after]
  /\ monOp' = [monOp EXCEPT ![a] = NoOp]

\* The mutant has counted the bytes although the pool refused them.
CountsRefused(m, extra) == [mon EXCEPT ![m] = Reserved(@, extra)]
AfterRefusal(m, extra) == mon
PoolRefuses(a, m, extra, ask) ==
  /\ monOp[a].kind = "grow" /\ ~RootGrants(ask)
  /\ monOp' = [monOp EXCEPT ![a] = NoOp]
  /\ mon' = AfterRefusal(m, extra)
  /\ UNCHANGED <<root, acct>>

\* adjustBudget: what the budget must still cover, and the budget after Shrink
\* moved the rest of it to its buffer.  The mutant does not look at the margin.
Needed(r, m) == IF r.cur <= r.resv.used THEN 0 ELSE RoundSize(m, r.cur - r.resv.used)
NeverRelinquishes(r, m, needed) == FALSE
Relinquishes(r, m, needed) == needed <= r.budget.used - Chunk[m] * UnusedBlocks
Adjusted(r, m, needed) ==
  IF Relinquishes(r, m, needed)
  THEN [r EXCEPT !.budget = Grown(@, needed - @.used, 0)] ELSE r

\* Shrink of the budget keeps at most a chunk of the pool in its buffer, and
\* gives the surplus back.  A buffer that Grow made larger stays as it is when
\* adjustBudget does not call Shrink.
Surplus(r) == r.budget.reserved > Chunk[Root]
GivesBack(r, m, needed) == Relinquishes(r, m, needed) /\ Surplus(Adjusted(r, m, needed))

\* releaseBytes, where r has fewer bytes in use: the account will be after when
\* the call returns.
ReleaseTo(a, m, r, after) ==
  /\ ~Locked(m)
  /\ mon' = [mon EXCEPT ![m] = Adjusted(r, m, Needed(r, m))]
  /\ IF GivesBack(r, m, Needed(r, m))
     THEN /\ monOp' = [monOp EXCEPT ![a] = [kind |-> "release", extra |-> 0, after |-> after]]
          /\ UNCHANGED acct
     ELSE /\ acct' = [acct EXCEPT ![a] = after]
          /\ UNCHANGED monOp
  /\ UNCHANGED root
Release(a, m, after) ==
  ReleaseTo(a, m, [mon[m] EXCEPT !.cur = @ - (Allocated(acct[a]) - Allocated(after))], after)

\* releaseBytes of Root.  Root has no budget to give back to anyone.
PoolTakesBack(a, m) ==
  /\ monOp[a].kind = "release"
  /\ root' = root - (mon[m].budget.reserved - Chunk[Root])
  /\ mon' = [mon EXCEPT ![m].budget.reserved = Chunk[Root]]
  /\ acct' = [acct EXCEPT ![a] = monOp[a].after]
  /\ monOp' = [monOp EXCEPT ![a] = NoOp]

\* Shrink of an account, and Empty, which shrinks it to nothing: what is in the
\* buffer beyond a chunk is released.
Shrink(a, m, b) ==
  IF b.reserved <= Chunk[m]
  THEN acct' = [acct EXCEPT ![a] = b] /\ UNCHANGED <<mon, root, monOp>>
  ELSE Release(a, m, [b EXCEPT !.reserved = Chunk[m]])
Empty(a) == Shrink(a, OwnerOf[a], Grown(acct[a], -acct[a].used, 0))

\* Resize and ResizeTo; nothing happens when the size is what it was.
ResizeTo(a, newSz) ==
  \/ newSz > acct[a].used /\ Grow(a, newSz - acct[a].used)
  \/ newSz < acct[a].used /\ Shrink(a, OwnerOf[a], Grown(acct[a], newSz - acct[a].used, 0))

\* Clear, which is Close and a reset of the account.
ClearAccount(a) == Allocated(acct[a]) > 0 /\ Release(a, OwnerOf[a], NoBytes)

\* Start; it panics when bytes are left over, or when the monitor is started
\* already.
Started(b, alone) == [NewMonitor EXCEPT !.resv = b, !.alone = alone, !.pool = TRUE]
MayStart(m) == mon[m].cur = 0 /\ ~mon[m].pool

\* Start, with an account at the pool of r bytes.
StartMonitor(m, r, ask) ==
  /\ MayStart(m)
  /\ r = 0 \/ RootGrants(ask)
  /\ mon' = [mon EXCEPT ![m] = Started(Grown(NoBytes, r, ask), FALSE)]
  /\ root' = root + ask
  /\ UNCHANGED <<acct, monOp>>

\* Start, with MakeStandaloneBudget(r).
StartStandalone(m, r) ==
  /\ MayStart(m)
  /\ mon' = [mon EXCEPT ![m] = Started([NoBytes EXCEPT !.used = r], TRUE)]
  /\ UNCHANGED <<root, acct, monOp>>

\* What a monitor holds of the pool: its budget, and its reserve, unless that is
\* alone.
PooledReserve(r) == IF r.alone THEN 0 ELSE Allocated(r.resv)
BudgetIn(r) == Allocated(r.budget) + PooledReserve(r)

\* doStop of Stop and EmergencyStop, which only differ in a check that is gone:
\* both clear the budget and what was reserved, whatever accounts still hold.
\* Clear does nothing to a reserve that is alone.
Cleared(r) == [r EXCEPT !.budget = NoBytes, !.pool = FALSE,
                        !.resv = IF r.alone THEN @ ELSE NoBytes]
StopMonitor(m) ==
  /\ mon[m].pool /\ ~Locked(m)
  /\ mon' = [mon EXCEPT ![m] = Cleared(@)]
  /\ root' = root - BudgetIn(mon[m])
  /\ UNCHANGED <<acct, monOp>>

MonNext ==
  \/ \E a \in Account : /\ Idle(a)
                        /\ \/ \E n \in Sizes : ResizeTo(a, n)
                           \/ Empty(a)
                           \/ ClearAccount(a)
  \/ \E a \in Account : \/ PoolGrants(a, OwnerOf[a], monOp[a].extra, RoundSize(Root, monOp[a].extra))
                        \/ PoolRefuses(a, OwnerOf[a], monOp[a].extra, RoundSize(Root, monOp[a].extra))
                        \/ PoolTakesBack(a, OwnerOf[a])
  \/ \E m \in Monitor : \/ \E r \in Reserves : StartMonitor(m, r, RoundSize(Root, r))
                        \/ \E r \in Standalones : StartStandalone(m, r)
                        \/ StopMonitor(m)
MonSpec == MonInit /\ [][MonNext]_monVars

-----------------------------------------------------------------------------
Bytes == [used : Nat, reserved : Nat]
MonTypeOK ==
  /\ mon \in [Monitor -> [cur : Nat, max : Nat, budget : Bytes, resv : Bytes, alone : BOOLEAN,
                          pool : BOOLEAN]]
  /\ root \in Nat
  /\ acct \in [Account -> Bytes]
  /\ monOp \in [Account -> [kind : {"none", "grow", "release"}, extra : Nat, after : Bytes]]

\* What an account holds.
HeldOf(o, b) == IF o.kind = "release" THEN Allocated(o.after) ELSE Allocated(b)

\* What each account holds of monitor m, and each monitor of the pool.
Shares(m) == [a \in Account |-> IF OwnerOf[a] = m THEN HeldOf(monOp[a], acct[a]) ELSE 0]
Budgets == [m \in Monitor |-> BudgetIn(mon[m])]

\* The bytes a monitor counts are those its accounts hold, also while one of them
\* waits for the pool, and after a refusal: Resize promises that "the reservation
\* is not modified if the new allocation is refused".  The bytes the pool counts are
\* the budgets of its monitors and the reserves it granted them: nothing is lost when
\* a monitor grows, shrinks or stops, in any interleaving.
BytesAddUp ==
  /\ \A m \in Monitor : mon[m].cur = SumFunctionOnSet(Shares(m), Account)
  /\ root = SumFunctionOnSet(Budgets, Monitor)

\* What a started monitor has handed out is backed by its reserve and its budget
\* at the pool, and no monitor exceeds its limit or the pool its capacity.
Covered ==
  /\ \A m \in Monitor : mon[m].pool => mon[m].cur <= mon[m].budget.used + mon[m].resv.used
  /\ \A m \in Monitor : mon[m].cur <= Limit[m] /\ mon[m].cur <= mon[m].max
  /\ root <= Capacity /\ root <= Limit[Root]

\* The buffer of m's budget, without what a call is giving back to the pool.
GivingBack(m) == \E a \in Account : OwnerOf[a] = m /\ monOp[a].kind = "release"
Buffer(m) == IF GivingBack(m) THEN Chunk[Root] ELSE mon[m].budget.reserved

\* "adjustBudget ensures that the monitor does not keep many more bytes reserved
\* from the pool than it currently has allocated".  Of what the budget holds of the
\* pool, the part it counts as used exceeds the allocations by less than the margin
\* and a chunk, and the buffer beside it, which adjustBudget does not look at, exceeds
\* that part by a chunk of the pool at most.  This is so whatever was reserved for
\* the monitor, in any order of grows and releases, and while a call waits for the
\* pool.
SlackBounded ==
  \A m \in Monitor :
    mon[m].pool => /\ mon[m].budget.used < mon[m].cur + Chunk[m] * (UnusedBlocks + 1)
                   /\ Buffer(m) <= mon[m].budget.used + Chunk[Root]

\* "Disable the pool for further allocations, so that further uses outside of
\* monitor control get errors" (doStop), as far as it is so: a stopped monitor hands
\* out nothing of a pool, neither of its budget nor of a reserve that Stop returned.
\* Whoever still has an account gets no more than the standalone bytes the monitor
\* was started with, which Clear leaves to it, and errors when there are none.
StoppedHandsOutNoPool ==
  [][\A m \in Monitor : ~mon[m].pool =>
       \/ mon'[m].cur <= mon[m].cur
       \/ mon[m].alone /\ mon'[m].cur <= mon[m].resv.used]_monVars
=============================================================================
