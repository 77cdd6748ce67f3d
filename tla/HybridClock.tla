----------------------------- MODULE HybridClock -----------------------------
(***************************************************************************)
(* Clock of utils/hlc: goroutines read the physical clock, which may jump  *)
(* either way, record the reading without a lock, and then advance the     *)
(* timestamp under the mutex.  Every atomic access of lastPhysicalTime and *)
(* every section under the mutex is one step.  log.Fatalf ends the         *)
(* process.                                                                *)
(***************************************************************************)
EXTENDS Integers

CONSTANTS Goroutine,   \* the goroutines that use the clock
          OpsOf,       \* the operations each of them calls
          MaxTime,     \* the physical clock shows 1..MaxTime
          Remote,      \* the timestamps that come from other nodes
          MaxLogical,  \* the largest Logical, math.MaxInt32 in the code
          MaxOffset,   \* maxOffset
          Delta,       \* the delta RefreshHLCUpperBound is called with
          MaxCalls     \* bounds the number of calls

ClockOps == {"now", "update", "checked", "refresh", "reset", "enable", "disable", "tick"}

ASSUME ClockAssumption ==
  /\ OpsOf \in [Goroutine -> SUBSET ClockOps]
  /\ MaxTime \in Nat \ {0} /\ MaxLogical \in Nat /\ MaxOffset \in Nat /\ Delta \in Nat
  /\ MaxCalls \in Nat
  /\ Remote \subseteq [wall : Nat, logical : 0..MaxLogical]
  \* Upper bounds are refreshed and reset by one goroutine, and jumps are
  \* monitored by one: isMonitoringForwardClockJumps.
  /\ \A g, h \in Goroutine :
       /\ {"refresh", "reset"} \cap OpsOf[g] # {} /\ {"refresh", "reset"} \cap OpsOf[h] # {} => g = h
       /\ {"enable", "disable", "tick"} \cap OpsOf[g] # {}
          /\ {"enable", "disable", "tick"} \cap OpsOf[h] # {} => g = h

VARIABLES phys,       \* the physical clock
          last,       \* lastPhysicalTime
          jumpCheck,  \* forwardClockJumpCheckEnabled
          ts,         \* mu.timestamp
          bound,      \* mu.wallTimeUpperBound
          stored,     \* the upper bound that persistFn stored last
          go,         \* what each goroutine is doing, and its local variables
          fatal,      \* whether log.Fatalf was called
          seenClock   \* history: what the properties compare with

clockVars == <<phys, last, jumpCheck, ts, bound, stored, go, fatal, seenClock>>

NoStamp == [wall |-> 0, logical |-> 0]
AtRest == [pc |-> "idle", op |-> "none", arg |-> NoStamp, old |-> 0, new |-> 0, seen |-> 0]

\* back: the physical clock went backwards; alarm: a backward jump was reported;
\* read: the highest reading; forced: the highest wall time given to Update;
\* promised: the highest wall time Now returned with a bound in force; calls: how
\* many calls there were.
ClockInit == /\ phys = 1 /\ last = 0 /\ jumpCheck = FALSE
             /\ ts = NoStamp /\ bound = 0 /\ stored = 0
             /\ go = [g \in Goroutine |-> AtRest]
             /\ fatal = FALSE
             /\ seenClock = [back |-> FALSE, alarm |-> FALSE, read |-> 0, forced |-> 0,
                             promised |-> 0, calls |-> 0]

Higher(x, y) == IF x < y THEN y ELSE x
Less(t, s) == t.wall < s.wall \/ (t.wall = s.wall /\ t.logical < s.logical)

PhysicalClockMoves ==
  /\ ~fatal
  /\ phys' \in (1..MaxTime) \ {phys}
  /\ seenClock' = [seenClock EXCEPT !.back = @ \/ phys' < phys]
  /\ UNCHANGED <<last, jumpCheck, ts, bound, stored, go, fatal>>

\* A call starts.  All operations but Update, Reset and the switching off of the
\* check begin with getPhysicalClockAndCheck, which loads lastPhysicalTime first.
Reads(op) == op \in {"now", "checked", "refresh", "enable", "tick"}
FirstStep(op) == IF Reads(op) THEN "read" ELSE IF op = "reset" THEN "persist" ELSE "lock"
Called(op, arg, old) ==
  [pc |-> FirstStep(op), op |-> op, arg |-> arg, old |-> old, new |-> 0, seen |-> old]
ClockCall(g, op, arg) ==
  /\ ~fatal /\ go[g].pc = "idle"
  /\ op = "tick" => jumpCheck
  /\ seenClock.calls < MaxCalls
  /\ go' = [go EXCEPT ![g] = Called(op, arg, IF Reads(op) THEN last ELSE 0)]
  /\ seenClock' = [seenClock EXCEPT !.calls = @ + 1]
  /\ UNCHANGED <<phys, last, jumpCheck, ts, bound, stored, fatal>>

ReadPhysical(g) ==
  /\ ~fatal /\ go[g].pc = "read"
  /\ go' = [go EXCEPT ![g].pc = "swap", ![g].new = phys]
  /\ seenClock' = [seenClock EXCEPT !.read = Higher(@, phys)]
  /\ UNCHANGED <<phys, last, jumpCheck, ts, bound, stored, fatal>>

\* CompareAndSwap of lastPhysicalTime.  The mutant stores without comparing.
SwapAlways(g) == TRUE
Swaps(g) == last = go[g].seen
SwapLast(g) ==
  /\ ~fatal /\ go[g].pc = "swap"
  /\ IF Swaps(g) THEN last' = go[g].new /\ go' = [go EXCEPT ![g].pc = "check", ![g].seen = 0]
                 ELSE go' = [go EXCEPT ![g].pc = "reload"] /\ UNCHANGED last
  /\ UNCHANGED <<phys, jumpCheck, ts, bound, stored, fatal, seenClock>>

\* It failed: try again unless a later reading is there.
ReloadLast(g) ==
  /\ ~fatal /\ go[g].pc = "reload"
  /\ go' = [go EXCEPT ![g].pc = IF last >= go[g].new THEN "check" ELSE "swap",
                      ![g].seen = IF last >= go[g].new THEN 0 ELSE last]
  /\ UNCHANGED <<phys, last, jumpCheck, ts, bound, stored, fatal, seenClock>>

\* checkPhysicalClock, and setForwardJumpCheckEnabled of the goroutine that
\* monitors jumps, which has read the clock once before it starts to enforce.
Backward(g) == go[g].old # 0 /\ go[g].old - go[g].new > MaxOffset \div 10
Forward(g) ==
  /\ go[g].old # 0 /\ jumpCheck
  /\ MaxOffset \div 2 <= go[g].new - go[g].old
CheckPhysicalClock(g) ==
  /\ ~fatal /\ go[g].pc = "check"
  /\ seenClock' = [seenClock EXCEPT !.alarm = @ \/ Backward(g)]
  /\ fatal' = Forward(g)
  /\ IF go[g].op \in {"enable", "tick"}
     THEN /\ jumpCheck' = (jumpCheck \/ (go[g].op = "enable" /\ ~Forward(g)))
          /\ go' = [go EXCEPT ![g] = AtRest]
     ELSE /\ go' = [go EXCEPT ![g].pc = "lock", ![g].old = 0]
          /\ UNCHANGED jumpCheck
  /\ UNCHANGED <<phys, last, ts, bound, stored>>

DisableCheck(g) ==
  /\ ~fatal /\ go[g].pc = "lock" /\ go[g].op = "disable"
  /\ jumpCheck' = FALSE
  /\ go' = [go EXCEPT ![g] = AtRest]
  /\ UNCHANGED <<phys, last, ts, bound, stored, fatal, seenClock>>

\* enforceWallTimeWithinBoundLocked
BeyondBound(t) == bound # 0 /\ t.wall > bound

\* The section of Now.  Logical is an int32.  The mutant takes every reading that
\* is not behind the wall time.
Tick(logical) == IF logical = MaxLogical THEN -MaxLogical - 1 ELSE logical + 1
TakesReading(t, reading) == IF t.wall > reading THEN [t EXCEPT !.logical = Tick(@)]
                            ELSE [wall |-> reading, logical |-> 0]
Ticked(t, reading) == IF t.wall >= reading THEN [t EXCEPT !.logical = Tick(@)]
                      ELSE [wall |-> reading, logical |-> 0]
NowReturns(g, t) ==
  /\ ts' = t
  /\ fatal' = BeyondBound(t)
  /\ go' = [go EXCEPT ![g] = IF fatal' \/ go[g].op = "now" THEN AtRest
                             ELSE [AtRest EXCEPT !.pc = "persist", !.op = "refresh", !.new = t.wall + Delta]]
  /\ seenClock' = [seenClock EXCEPT !.promised = IF bound = 0 \/ fatal' THEN @ ELSE Higher(@, t.wall)]
Now(g) ==
  /\ ~fatal /\ go[g].pc = "lock" /\ go[g].op \in {"now", "refresh"}
  /\ NowReturns(g, Ticked(ts, go[g].new))
  /\ UNCHANGED <<phys, last, jumpCheck, bound, stored>>

\* The section of Update.
Updated(rt) == IF Less(ts, rt) THEN rt ELSE ts
UpdateReturns(g, rt, t) ==
  /\ ts' = t
  /\ fatal' = BeyondBound(t)
  /\ go' = [go EXCEPT ![g] = AtRest]
Update(g) ==
  /\ ~fatal /\ go[g].pc = "lock" /\ go[g].op = "update"
  /\ UpdateReturns(g, go[g].arg, Updated(go[g].arg))
  /\ seenClock' = [seenClock EXCEPT !.forced = Higher(@, go[g].arg.wall)]
  /\ UNCHANGED <<phys, last, jumpCheck, bound, stored>>

\* UpdateAndCheckMaxOffset after the reading.  The mutant does not check.
NeverTooFar(rt, reading) == FALSE
TooFarAhead(rt, reading) == MaxOffset > 0 /\ rt.wall - reading > MaxOffset
Chosen(rt, reading) == IF reading > rt.wall THEN [wall |-> reading, logical |-> 0] ELSE rt
UpdateAndCheckMaxOffset(g) ==
  /\ ~fatal /\ go[g].pc = "lock" /\ go[g].op = "checked"
  /\ IF TooFarAhead(go[g].arg, go[g].new)
     THEN go' = [go EXCEPT ![g] = AtRest] /\ UNCHANGED <<ts, fatal>>
     ELSE UpdateReturns(g, Chosen(go[g].arg, go[g].new), Updated(Chosen(go[g].arg, go[g].new)))
  /\ UNCHANGED <<phys, last, jumpCheck, bound, stored, seenClock>>

\* persistHLCUpperBound: persistFn may fail, and only then is nothing stored in
\* memory.  A reset withdraws what was promised.  The mutant ignores the error.
AfterError(g) == [AtRest EXCEPT !.pc = "store", !.new = go[g].new]
OnError(g) == AtRest
PersistBound(g) ==
  /\ ~fatal /\ go[g].pc = "persist"
  /\ \/ /\ stored' = go[g].new
        /\ go' = [go EXCEPT ![g].pc = "store"]
        /\ seenClock' = [seenClock EXCEPT !.promised = IF go[g].op = "reset" THEN 0 ELSE @]
     \/ /\ go' = [go EXCEPT ![g] = OnError(g)]
        /\ UNCHANGED <<stored, seenClock>>
  /\ UNCHANGED <<phys, last, jumpCheck, ts, bound, fatal>>
StoreBound(g) ==
  /\ ~fatal /\ go[g].pc = "store"
  /\ bound' = go[g].new
  /\ go' = [go EXCEPT ![g] = AtRest]
  /\ UNCHANGED <<phys, last, jumpCheck, ts, stored, fatal, seenClock>>

ClockExit == fatal /\ UNCHANGED clockVars

ClockNext ==
  \/ PhysicalClockMoves
  \/ \E g \in Goroutine :
       \/ \E op \in OpsOf[g] :
            \E arg \in IF op \in {"update", "checked"} THEN Remote ELSE {NoStamp} : ClockCall(g, op, arg)
       \/ ReadPhysical(g) \/ SwapLast(g) \/ ReloadLast(g) \/ CheckPhysicalClock(g)
       \/ DisableCheck(g) \/ Now(g) \/ Update(g) \/ UpdateAndCheckMaxOffset(g)
       \/ PersistBound(g) \/ StoreBound(g)
  \/ ClockExit
ClockSpec == ClockInit /\ [][ClockNext]_clockVars

-----------------------------------------------------------------------------
Logical == (-MaxLogical - 1)..MaxLogical
Stamp == [wall : Nat, logical : Logical]
GoRecord == [pc : {"idle", "read", "swap", "reload", "check", "lock", "persist", "store"},
             op : ClockOps \cup {"none"}, arg : Stamp,
             old : 0..MaxTime, new : Nat, seen : 0..MaxTime]
ClockHistory == [back : BOOLEAN, alarm : BOOLEAN, read : 0..MaxTime, forced : Nat,
                 promised : Nat, calls : Nat]
ClockTypeOK ==
  /\ phys \in 1..MaxTime /\ last \in 0..MaxTime /\ jumpCheck \in BOOLEAN
  /\ ts \in Stamp /\ bound \in Nat /\ stored \in Nat
  /\ go \in [Goroutine -> GoRecord]
  /\ fatal \in BOOLEAN
  /\ seenClock \in ClockHistory

\* "Objects of this type model causality": the timestamp never goes back, and Now
\* returns one that is later than all before it, however old its reading of the
\* physical clock is.  The one exception is Logical at its maximum, which wraps.
TimestampAdvances ==
  [][\/ ts.logical = MaxLogical
     \/ /\ ts' = ts \/ Less(ts, ts')
        /\ (\E g \in Goroutine : Now(g)) => Less(ts, ts')]_clockVars

\* "When multiple updaters race, we want the highest clock reading to win"
\* (getPhysicalClockAndCheck): as long as the physical clock does not go backwards,
\* lastPhysicalTime is never behind a reading that was recorded, and no backward
\* jump is reported.
HighestReadingWins ==
  ~seenClock.back =>
    /\ \A g \in Goroutine : go[g].pc \in {"check", "lock"} => go[g].new <= last
    /\ ~seenClock.alarm

\* "The wall time used by the HLC will always be lesser than this timestamp", the
\* upper bound "which has been successfully persisted": no wall time that Now
\* returned with a bound in force is beyond the bound that is persisted, although
\* the bound is persisted first and stored in memory later.
PromisesPersisted ==
  /\ bound # 0 /\ stored # 0 => bound <= stored
  /\ stored # 0 => seenClock.promised <= stored

\* maxOffset "will prevent ill-configured nodes from dramatically skewing the wall
\* time of the clock into the future": unless Update forces it, the wall time is
\* never further ahead of the highest physical reading.
SkewBounded ==
  MaxOffset > 0 => ts.wall <= Higher(seenClock.read + MaxOffset, seenClock.forced)
=============================================================================
