-------------------------- MODULE HybridClockProofs --------------------------
(***************************************************************************)
(* The properties of the clock, for any number of goroutines, of readings  *)
(* and of calls.                                                           *)
(***************************************************************************)
EXTENDS HybridClock, TLAPS

\* Where a goroutine can be in which operation.
Phase(o, ops) ==
  /\ o.op \in ops \cup {"none"}
  /\ o.pc \in {"read", "swap", "reload", "check"} => Reads(o.op)
  /\ o.pc \in {"swap", "reload", "check"} => o.new <= MaxTime
  /\ o.pc \in {"persist", "store"} => o.op \in {"refresh", "reset"}

GoTyped == go \in [Goroutine -> GoRecord] /\ \A g \in Goroutine : Phase(go[g], OpsOf[g])
Typed == ClockTypeOK /\ GoTyped

\* A step of one goroutine leaves the others where they are.
LEMMA GoStep ==
  ASSUME GoTyped, NEW g \in Goroutine, NEW o \in GoRecord, Phase(o, OpsOf[g]),
         go' = [go EXCEPT ![g] = o]
  PROVE  GoTyped'
<1>1. go' \in [Goroutine -> GoRecord]
  BY DEF GoTyped
<1>2. \A h \in Goroutine : go'[h] = IF h = g THEN o ELSE go[h]
  BY DEF GoTyped
<1>3. QED
  BY <1>1, <1>2 DEF GoTyped

LEMMA Numbers ==
  MaxTime \in Nat /\ 1 <= MaxTime /\ MaxLogical \in Nat /\ MaxOffset \in Nat /\ Delta \in Nat
<1>1. MaxTime \in Nat \ {0} /\ MaxLogical \in Nat /\ MaxOffset \in Nat /\ Delta \in Nat
  BY ClockAssumption, Zenon
<1>2. QED
  BY <1>1

LEMMA NoStampType == NoStamp \in Stamp
  BY Numbers DEF Stamp, Logical, NoStamp

LEMMA RestPhase ==
  /\ AtRest \in GoRecord
  /\ \A ops : Phase(AtRest, ops)
<1>1. AtRest \in GoRecord
  BY Numbers, NoStampType DEF AtRest, GoRecord
<1>2. QED
  BY <1>1 DEF AtRest, Phase

LEMMA TypeInit == ClockInit => Typed
<1>1. SUFFICES ASSUME ClockInit PROVE Typed
  OBVIOUS
<1>2. GoTyped
  BY <1>1, RestPhase DEF ClockInit, GoTyped
<1>3. seenClock \in ClockHistory
  BY <1>1, Numbers DEF ClockInit, ClockHistory
<1>4. phys \in 1..MaxTime /\ last \in 0..MaxTime /\ bound \in Nat /\ stored \in Nat
  BY <1>1, Numbers DEF ClockInit
<1>5. ts \in Stamp /\ fatal \in BOOLEAN /\ jumpCheck \in BOOLEAN
  BY <1>1, NoStampType, Zenon DEF ClockInit
<1>6. QED
  BY <1>2, <1>3, <1>4, <1>5 DEF Typed, ClockTypeOK, GoTyped

-----------------------------------------------------------------------------
\* The local variables of a goroutine after each kind of step.

LEMMA CallRecord ==
  ASSUME NEW ops \in SUBSET ClockOps, NEW op \in ops, NEW arg \in Stamp, NEW old \in 0..MaxTime
  PROVE  Called(op, arg, old) \in GoRecord /\ Phase(Called(op, arg, old), ops)
<1>1. FirstStep(op) \in {"read", "persist", "lock"}
  BY DEF FirstStep
<1>2. Called(op, arg, old) \in GoRecord
  BY <1>1 DEF GoRecord, Called
<1>3. FirstStep(op) = "read" => Reads(op)
  BY DEF FirstStep
<1>4. FirstStep(op) = "persist" => op = "reset"
  BY DEF FirstStep
<1>5. Phase(Called(op, arg, old), ops)
  BY <1>1, <1>3, <1>4 DEF Phase, Called
<1>6. QED
  BY <1>2, <1>5

LEMMA ReadRecord ==
  ASSUME NEW ops, NEW o \in GoRecord, Phase(o, ops), o.pc = "read", NEW n \in Nat, n <= MaxTime
  PROVE  LET p == [o EXCEPT !.pc = "swap", !.new = n]
         IN  p \in GoRecord /\ Phase(p, ops)
<1> DEFINE p == [o EXCEPT !.pc = "swap", !.new = n]
<1>1. p \in GoRecord /\ p.pc = "swap" /\ p.new = n /\ p.op = o.op
  BY Zenon DEF GoRecord
<1>2. QED
  BY <1>1 DEF Phase

LEMMA SeenRecord ==
  ASSUME NEW ops, NEW o \in GoRecord, Phase(o, ops), o.pc \in {"swap", "reload"},
         NEW pc \in {"swap", "reload", "check"}, NEW seen \in 0..MaxTime
  PROVE  LET p == [o EXCEPT !.pc = pc, !.seen = seen]
         IN  p \in GoRecord /\ Phase(p, ops)
<1> DEFINE p == [o EXCEPT !.pc = pc, !.seen = seen]
<1>1. p \in GoRecord /\ p.pc = pc /\ p.new = o.new /\ p.op = o.op
  BY Zenon DEF GoRecord
<1>2. QED
  BY <1>1 DEF Phase

LEMMA ReloadRecord ==
  ASSUME NEW ops, NEW o \in GoRecord, Phase(o, ops), o.pc = "swap"
  PROVE  LET p == [o EXCEPT !.pc = "reload"]
         IN  p \in GoRecord /\ Phase(p, ops)
<1> DEFINE p == [o EXCEPT !.pc = "reload"]
<1>1. p \in GoRecord /\ p.pc = "reload" /\ p.new = o.new /\ p.op = o.op
  BY DEF GoRecord
<1>2. QED
  BY <1>1 DEF Phase

LEMMA LockRecord ==
  ASSUME NEW ops, NEW o \in GoRecord, Phase(o, ops)
  PROVE  LET p == [o EXCEPT !.pc = "lock", !.old = 0]
         IN  p \in GoRecord /\ Phase(p, ops)
<1> DEFINE p == [o EXCEPT !.pc = "lock", !.old = 0]
<1>1. 0 \in 0..MaxTime
  BY Numbers
<1>2. p \in GoRecord /\ p.pc = "lock" /\ p.op = o.op
  BY <1>1, Zenon DEF GoRecord
<1>3. QED
  BY <1>2 DEF Phase

LEMMA RefreshRecord ==
  ASSUME NEW ops, "refresh" \in ops, NEW n \in Nat
  PROVE  LET p == [AtRest EXCEPT !.pc = "persist", !.op = "refresh", !.new = n]
         IN  p \in GoRecord /\ Phase(p, ops)
<1> DEFINE p == [AtRest EXCEPT !.pc = "persist", !.op = "refresh", !.new = n]
<1>1. p \in GoRecord /\ p.pc = "persist" /\ p.op = "refresh"
  BY RestPhase, Zenon DEF GoRecord, ClockOps
<1>2. QED
  BY <1>1 DEF Phase

LEMMA StoreRecord ==
  ASSUME NEW ops, NEW o \in GoRecord, Phase(o, ops), o.pc = "persist"
  PROVE  LET p == [o EXCEPT !.pc = "store"]
         IN  p \in GoRecord /\ Phase(p, ops)
<1> DEFINE p == [o EXCEPT !.pc = "store"]
<1>1. p \in GoRecord /\ p.pc = "store" /\ p.op = o.op
  BY DEF GoRecord
<1>2. QED
  BY <1>1 DEF Phase

-----------------------------------------------------------------------------
\* Type correctness, one lemma for each action that is not immediate.

LEMMA TypeCall ==
  ASSUME Typed, NEW g \in Goroutine, NEW op \in OpsOf[g],
         NEW arg \in (IF op \in {"update", "checked"} THEN Remote ELSE {NoStamp}),
         ClockCall(g, op, arg)
  PROVE  Typed'
<1>1. OpsOf[g] \in SUBSET ClockOps /\ Remote \subseteq [wall : Nat, logical : 0..MaxLogical]
  BY ClockAssumption, Zenon
<1>2. arg \in Stamp
  BY <1>1, Numbers, NoStampType DEF Stamp, Logical
<1> DEFINE old == IF Reads(op) THEN last ELSE 0
<1>3. old \in 0..MaxTime
  BY Numbers DEF Typed, ClockTypeOK
<1>4. Called(op, arg, old) \in GoRecord /\ Phase(Called(op, arg, old), OpsOf[g])
  BY <1>1, <1>2, <1>3, CallRecord, Zenon
<1>5. GoTyped'
  BY <1>4, GoStep, Zenon DEF ClockCall, Typed
<1>6. seenClock' \in ClockHistory
  BY DEF ClockCall, Typed, ClockTypeOK, ClockHistory
<1>7. QED
  BY <1>5, <1>6 DEF ClockCall, Typed, ClockTypeOK, GoTyped

LEMMA TypeRead ==
  ASSUME Typed, NEW g \in Goroutine, ReadPhysical(g)
  PROVE  Typed'
<1> DEFINE o == [go[g] EXCEPT !.pc = "swap", !.new = phys]
<1>1. phys \in Nat /\ phys <= MaxTime
  BY Numbers DEF Typed, ClockTypeOK
<1>2. o \in GoRecord /\ Phase(o, OpsOf[g])
  BY <1>1, ReadRecord, Zenon DEF Typed, GoTyped, ReadPhysical
<1>3. go' = [go EXCEPT ![g] = o]
  BY Zenon DEF ReadPhysical
<1>4. GoTyped'
  BY <1>2, <1>3, GoStep, Zenon DEF Typed
<1>5. Higher(seenClock.read, phys) \in 0..MaxTime
  BY Numbers DEF Typed, ClockTypeOK, ClockHistory, Higher
<1>6. seenClock' \in ClockHistory
  BY <1>5 DEF ReadPhysical, Typed, ClockTypeOK, ClockHistory
<1>7. QED
  BY <1>4, <1>6 DEF ReadPhysical, Typed, ClockTypeOK, GoTyped

LEMMA TypeSwap ==
  ASSUME Typed, NEW g \in Goroutine, SwapLast(g)
  PROVE  Typed'
<1>1. go[g] \in GoRecord /\ Phase(go[g], OpsOf[g]) /\ go[g].pc = "swap" /\ GoTyped
  BY DEF Typed, GoTyped, SwapLast
<1>2. CASE Swaps(g)
  <2> DEFINE o == [go[g] EXCEPT !.pc = "check", !.seen = 0]
  <2>1. 0 \in 0..MaxTime
    BY Numbers
  <2>2. o \in GoRecord /\ Phase(o, OpsOf[g])
    BY <1>1, <2>1, SeenRecord, Zenon
  <2>3. go' = [go EXCEPT ![g] = o]
    BY <1>2, Zenon DEF SwapLast
  <2>4. GoTyped'
    BY <1>1, <2>2, <2>3, GoStep, Zenon
  <2>5. last' \in 0..MaxTime
    BY <1>1, <1>2, Numbers DEF SwapLast, Phase, GoRecord
  <2>6. QED
    BY <2>4, <2>5 DEF SwapLast, Typed, ClockTypeOK, GoTyped
<1>3. CASE ~Swaps(g)
  <2> DEFINE o == [go[g] EXCEPT !.pc = "reload"]
  <2>1. o \in GoRecord /\ Phase(o, OpsOf[g])
    BY <1>1, ReloadRecord
  <2>2. go' = [go EXCEPT ![g] = o]
    BY <1>3 DEF SwapLast
  <2>3. GoTyped'
    BY <1>1, <2>1, <2>2, GoStep, Zenon
  <2>4. QED
    BY <1>3, <2>3 DEF SwapLast, Typed, ClockTypeOK, GoTyped
<1>4. QED
  BY <1>2, <1>3

LEMMA TypeReload ==
  ASSUME Typed, NEW g \in Goroutine, ReloadLast(g)
  PROVE  Typed'
<1> DEFINE pc == IF last >= go[g].new THEN "check" ELSE "swap"
           seen == IF last >= go[g].new THEN 0 ELSE last
           o == [go[g] EXCEPT !.pc = pc, !.seen = seen]
<1>1. seen \in 0..MaxTime
  BY Numbers DEF Typed, ClockTypeOK
<1>2. pc \in {"swap", "reload", "check"}
  OBVIOUS
<1> HIDE DEF pc, seen
<1>3. o \in GoRecord /\ Phase(o, OpsOf[g])
  BY <1>1, <1>2, SeenRecord, Zenon DEF Typed, GoTyped, ReloadLast
<1>4. go' = [go EXCEPT ![g] = o]
  BY Zenon DEF ReloadLast, pc, seen
<1>5. GoTyped'
  BY <1>3, <1>4, GoStep, Zenon DEF Typed
<1>6. QED
  BY <1>5 DEF ReloadLast, Typed, ClockTypeOK, GoTyped

LEMMA TypeRest ==
  ASSUME GoTyped, NEW g \in Goroutine, go' = [go EXCEPT ![g] = AtRest]
  PROVE  GoTyped'
  BY RestPhase, GoStep, Zenon

LEMMA TypeCheck ==
  ASSUME Typed, NEW g \in Goroutine, CheckPhysicalClock(g)
  PROVE  Typed'
<1>1. GoTyped /\ go[g] \in GoRecord /\ Phase(go[g], OpsOf[g])
  BY DEF Typed, GoTyped
<1>2. Backward(g) \in BOOLEAN /\ Forward(g) \in BOOLEAN
  BY DEF Backward, Forward
<1>3. seenClock' \in ClockHistory
  BY <1>2 DEF CheckPhysicalClock, Typed, ClockTypeOK, ClockHistory
<1>4. fatal' \in BOOLEAN
  BY <1>2 DEF CheckPhysicalClock
<1>5. CASE go[g].op \in {"enable", "tick"}
  <2>1. GoTyped'
    BY <1>1, <1>5, TypeRest DEF CheckPhysicalClock
  <2>2. jumpCheck' \in BOOLEAN
    BY <1>5 DEF CheckPhysicalClock
  <2>3. QED
    BY <1>3, <1>4, <2>1, <2>2 DEF CheckPhysicalClock, Typed, ClockTypeOK, GoTyped
<1>6. CASE go[g].op \notin {"enable", "tick"}
  <2> DEFINE o == [go[g] EXCEPT !.pc = "lock", !.old = 0]
  <2>1. o \in GoRecord /\ Phase(o, OpsOf[g])
    BY <1>1, LockRecord, Zenon
  <2>2. go' = [go EXCEPT ![g] = o]
    BY <1>6, Zenon DEF CheckPhysicalClock
  <2>3. GoTyped'
    BY <1>1, <2>1, <2>2, GoStep, Zenon
  <2>4. QED
    BY <1>3, <1>4, <1>6, <2>3 DEF CheckPhysicalClock, Typed, ClockTypeOK, GoTyped
<1>7. QED
  BY <1>5, <1>6

\* What Now and Update compute are timestamps again, and not behind the old one.
LEMMA TickedStamp ==
  ASSUME NEW t \in Stamp, NEW reading \in Nat
  PROVE  /\ Ticked(t, reading) \in Stamp
         /\ t.logical # MaxLogical => Less(t, Ticked(t, reading))
         /\ t.wall <= Ticked(t, reading).wall
         /\ Ticked(t, reading).wall \in {t.wall, reading}
<1>1. t.wall \in Nat /\ t.logical \in Logical
  BY DEF Stamp
<1>2. Tick(t.logical) \in Logical /\ (t.logical # MaxLogical => t.logical < Tick(t.logical))
  BY <1>1, Numbers DEF Tick, Logical
<1>3. CASE t.wall >= reading
  <2>1. Ticked(t, reading) = [t EXCEPT !.logical = Tick(t.logical)]
    BY <1>3 DEF Ticked
  <2>2. Ticked(t, reading) \in Stamp /\ Ticked(t, reading).wall = t.wall
        /\ Ticked(t, reading).logical = Tick(t.logical)
    BY <1>2, <2>1 DEF Stamp
  <2>3. QED
    BY <1>1, <1>2, <2>2 DEF Less
<1>4. CASE ~(t.wall >= reading)
  <2>1. Ticked(t, reading) = [wall |-> reading, logical |-> 0]
    BY <1>4 DEF Ticked
  <2>2. 0 \in Logical
    BY Numbers DEF Logical
  <2>3. Ticked(t, reading) \in Stamp /\ Ticked(t, reading).wall = reading
    BY <2>1, <2>2 DEF Stamp
  <2>4. QED
    BY <1>1, <1>4, <2>3 DEF Less
<1>5. QED
  BY <1>3, <1>4

LEMMA UpdatedStamp ==
  ASSUME ts \in Stamp, NEW rt \in Stamp
  PROVE  /\ Updated(rt) \in {ts, rt}
         /\ Updated(rt) \in Stamp
         /\ Updated(rt) = ts \/ Less(ts, Updated(rt))
         /\ ts.wall <= Updated(rt).wall
<1>1. ts.wall \in Nat /\ rt.wall \in Nat
  BY DEF Stamp
<1>2. QED
  BY <1>1 DEF Updated, Less

LEMMA ChosenStamp ==
  ASSUME NEW rt \in Stamp, NEW reading \in Nat
  PROVE  /\ Chosen(rt, reading) \in Stamp
         /\ Chosen(rt, reading).wall \in {rt.wall, reading}
<1>1. 0 \in Logical
  BY Numbers DEF Logical
<1>2. QED
  BY <1>1 DEF Chosen, Stamp

LEMMA TypeNow ==
  ASSUME Typed, NEW g \in Goroutine, Now(g)
  PROVE  Typed'
<1> DEFINE t == Ticked(ts, go[g].new)
<1>1. GoTyped /\ go[g] \in GoRecord /\ Phase(go[g], OpsOf[g]) /\ ts \in Stamp
  BY DEF Typed, ClockTypeOK, GoTyped
<1>2. go[g].new \in Nat
  BY <1>1 DEF GoRecord
<1>3. t \in Stamp /\ t.wall \in Nat
  BY <1>1, <1>2, TickedStamp, Zenon DEF Stamp
<1>4. NowReturns(g, t)
  BY DEF Now
<1> HIDE DEF t
<1>5. fatal' \in BOOLEAN
  BY <1>4 DEF NowReturns, BeyondBound
<1>6. GoTyped'
  <2>1. CASE fatal' \/ go[g].op = "now"
    BY <1>1, <1>4, <2>1, TypeRest, Zenon DEF NowReturns
  <2>2. CASE ~(fatal' \/ go[g].op = "now")
    <3> DEFINE o == [AtRest EXCEPT !.pc = "persist", !.op = "refresh", !.new = t.wall + Delta]
    <3>1. "refresh" \in OpsOf[g]
      BY <1>1, <2>2 DEF Now, Phase
    <3>2. t.wall + Delta \in Nat
      BY <1>3, Numbers
    <3>3. o \in GoRecord /\ Phase(o, OpsOf[g])
      BY <3>1, <3>2, RefreshRecord, Zenon
    <3>4. go' = [go EXCEPT ![g] = o]
      BY <1>4, <2>2 DEF NowReturns
    <3>5. QED
      BY <1>1, <3>3, <3>4, GoStep, Zenon
  <2>3. QED
    BY <2>1, <2>2
<1>7. (IF bound = 0 \/ fatal' THEN seenClock.promised ELSE Higher(seenClock.promised, t.wall)) \in Nat
  BY <1>3 DEF Typed, ClockTypeOK, ClockHistory, Higher
<1>8. seenClock' \in ClockHistory
  BY <1>4, <1>7 DEF NowReturns, Typed, ClockTypeOK, ClockHistory
<1>9. ts' \in Stamp
  BY <1>3, <1>4 DEF NowReturns
<1>10. QED
  BY <1>5, <1>6, <1>8, <1>9 DEF Now, Typed, ClockTypeOK, GoTyped

LEMMA TypeUpdate ==
  ASSUME Typed, NEW g \in Goroutine, Update(g)
  PROVE  Typed'
<1>1. GoTyped /\ ts \in Stamp /\ go[g].arg \in Stamp /\ go[g].arg.wall \in Nat
  BY DEF Typed, ClockTypeOK, GoTyped, GoRecord, Stamp
<1>2. Updated(go[g].arg) \in Stamp
  BY <1>1, UpdatedStamp
<1>3. GoTyped'
  BY <1>1, TypeRest, Zenon DEF Update, UpdateReturns
<1>4. fatal' \in BOOLEAN
  BY DEF Update, UpdateReturns, BeyondBound
<1>5. Higher(seenClock.forced, go[g].arg.wall) \in Nat
  BY <1>1 DEF Typed, ClockTypeOK, ClockHistory, Higher
<1>6. seenClock' \in ClockHistory
  BY <1>5 DEF Update, Typed, ClockTypeOK, ClockHistory
<1>7. ts' \in Stamp
  BY <1>2 DEF Update, UpdateReturns
<1>8. QED
  BY <1>3, <1>4, <1>6, <1>7 DEF Update, Typed, ClockTypeOK, GoTyped

LEMMA TypeChecked ==
  ASSUME Typed, NEW g \in Goroutine, UpdateAndCheckMaxOffset(g)
  PROVE  Typed'
<1>1. GoTyped /\ ts \in Stamp /\ go[g].arg \in Stamp /\ go[g].new \in Nat
  BY DEF Typed, ClockTypeOK, GoTyped, GoRecord
<1>2. GoTyped'
  BY <1>1, TypeRest DEF UpdateAndCheckMaxOffset, UpdateReturns
<1> DEFINE rt == Chosen(go[g].arg, go[g].new)
<1>3. rt \in Stamp
  BY <1>1, ChosenStamp
<1> HIDE DEF rt
<1>4. Updated(rt) \in Stamp
  BY <1>1, <1>3, UpdatedStamp
<1>5. (ts' = ts /\ fatal' = fatal) \/ (ts' = Updated(rt) /\ fatal' = BeyondBound(Updated(rt)))
  BY DEF UpdateAndCheckMaxOffset, UpdateReturns, rt
<1>6. ts' \in Stamp
  BY <1>1, <1>4, <1>5
<1>7. fatal' \in BOOLEAN
  BY <1>5, Zenon DEF BeyondBound, Typed, ClockTypeOK
<1>8. QED
  BY <1>2, <1>6, <1>7 DEF UpdateAndCheckMaxOffset, Typed, ClockTypeOK, GoTyped

LEMMA TypePersist ==
  ASSUME Typed, NEW g \in Goroutine, PersistBound(g)
  PROVE  Typed'
<1>1. GoTyped /\ go[g] \in GoRecord /\ Phase(go[g], OpsOf[g]) /\ go[g].pc = "persist"
  BY DEF Typed, GoTyped, PersistBound
<1>2. go[g].new \in Nat
  BY <1>1 DEF GoRecord
<1>3. CASE go' = [go EXCEPT ![g] = OnError(g)] /\ UNCHANGED <<stored, seenClock>>
  <2>1. GoTyped'
    BY <1>1, <1>3, TypeRest, Zenon DEF OnError
  <2>2. QED
    BY <1>3, <2>1 DEF PersistBound, Typed, ClockTypeOK, GoTyped
<1>4. CASE /\ stored' = go[g].new
           /\ go' = [go EXCEPT ![g].pc = "store"]
           /\ seenClock' = [seenClock EXCEPT !.promised = IF go[g].op = "reset" THEN 0 ELSE @]
  <2> DEFINE o == [go[g] EXCEPT !.pc = "store"]
  <2>1. o \in GoRecord /\ Phase(o, OpsOf[g])
    BY <1>1, StoreRecord
  <2>2. go' = [go EXCEPT ![g] = o]
    BY <1>4
  <2>3. GoTyped'
    BY <1>1, <2>1, <2>2, GoStep, Zenon
  <2>4. (IF go[g].op = "reset" THEN 0 ELSE seenClock.promised) \in Nat
    BY DEF Typed, ClockTypeOK, ClockHistory
  <2>5. seenClock' \in ClockHistory
    BY <1>4, <2>4 DEF Typed, ClockTypeOK, ClockHistory
  <2>6. QED
    BY <1>2, <1>4, <2>3, <2>5 DEF PersistBound, Typed, ClockTypeOK, GoTyped
<1>5. QED
  BY <1>3, <1>4 DEF PersistBound

LEMMA TypeStore ==
  ASSUME Typed, NEW g \in Goroutine, StoreBound(g)
  PROVE  Typed'
<1>1. GoTyped'
  BY TypeRest, Zenon DEF Typed, StoreBound
<1>2. bound' \in Nat
  BY DEF Typed, GoTyped, GoRecord, StoreBound
<1>3. QED
  BY <1>1, <1>2 DEF StoreBound, Typed, ClockTypeOK, GoTyped

LEMMA TypeDisable ==
  ASSUME Typed, NEW g \in Goroutine, DisableCheck(g)
  PROVE  Typed'
<1>1. GoTyped'
  BY TypeRest, Zenon DEF Typed, DisableCheck
<1>2. QED
  BY <1>1, Zenon DEF DisableCheck, Typed, ClockTypeOK, GoTyped

LEMMA TypeMoves ==
  ASSUME Typed, PhysicalClockMoves
  PROVE  Typed'
<1>1. seenClock' \in ClockHistory
  BY Zenon DEF PhysicalClockMoves, Typed, ClockTypeOK, ClockHistory
<1>2. phys' \in 1..MaxTime
  BY DEF PhysicalClockMoves
<1>3. QED
  BY <1>1, <1>2 DEF PhysicalClockMoves, Typed, ClockTypeOK, GoTyped

LEMMA TypeStep ==
  ASSUME Typed, [ClockNext]_clockVars
  PROVE  Typed'
<1>1. CASE UNCHANGED clockVars
  BY <1>1 DEF clockVars, Typed, ClockTypeOK, GoTyped
<1>2. CASE ClockExit
  BY <1>2 DEF ClockExit, clockVars, Typed, ClockTypeOK, GoTyped
<1>3. CASE ClockNext /\ ~ClockExit
  BY <1>3, TypeMoves, TypeCall, TypeRead, TypeSwap, TypeReload, TypeCheck, TypeDisable, TypeNow,
     TypeUpdate, TypeChecked, TypePersist, TypeStore, Zenon DEF ClockNext
<1>4. QED
  BY <1>1, <1>2, <1>3

\* The clock's variables and those of the goroutines that use it have their types
\* whatever the goroutines call: getPhysicalClockAndCheck, Now, Update and the rest.
THEOREM ClockTypeCorrect == ClockSpec => []ClockTypeOK
<1>1. Typed => ClockTypeOK
  BY DEF Typed
<1>2. QED
  BY <1>1, TypeInit, TypeStep, PTL DEF ClockSpec

-----------------------------------------------------------------------------
LEMMA NowAdvances ==
  ASSUME Typed, NEW g \in Goroutine, Now(g)
  PROVE  /\ ts' = Ticked(ts, go[g].new)
         /\ ts.logical # MaxLogical => Less(ts, ts')
         /\ ts.wall <= ts'.wall
         /\ ts'.wall \in {ts.wall, go[g].new}
<1>1. ts \in Stamp /\ go[g].new \in Nat
  BY DEF Typed, ClockTypeOK, GoTyped, GoRecord
<1>2. ts' = Ticked(ts, go[g].new)
  BY DEF Now, NowReturns
<1>3. QED
  BY <1>1, <1>2, TickedStamp

LEMMA UpdateAdvances ==
  ASSUME Typed, NEW g \in Goroutine, Update(g)
  PROVE  /\ ts' = ts \/ Less(ts, ts')
         /\ ts.wall <= ts'.wall
         /\ ts'.wall \in {ts.wall, go[g].arg.wall}
<1>1. ts \in Stamp /\ go[g].arg \in Stamp
  BY DEF Typed, ClockTypeOK, GoTyped, GoRecord
<1>2. ts' = Updated(go[g].arg)
  BY DEF Update, UpdateReturns
<1>3. QED
  BY <1>1, <1>2, UpdatedStamp

LEMMA CheckedAdvances ==
  ASSUME Typed, NEW g \in Goroutine, UpdateAndCheckMaxOffset(g)
  PROVE  /\ ts' = ts \/ Less(ts, ts')
         /\ ts.wall <= ts'.wall
         /\ \/ ts' = ts
            \/ /\ ~TooFarAhead(go[g].arg, go[g].new)
               /\ ts'.wall \in {ts.wall, go[g].arg.wall, go[g].new}
<1> DEFINE rt == Chosen(go[g].arg, go[g].new)
<1>1. ts \in Stamp /\ ts.wall \in Nat /\ go[g].arg \in Stamp /\ go[g].new \in Nat
  BY DEF Typed, ClockTypeOK, GoTyped, GoRecord, Stamp
<1>2. rt \in Stamp /\ rt.wall \in {go[g].arg.wall, go[g].new}
  BY <1>1, ChosenStamp, Zenon
<1>3. \/ ts' = ts
      \/ ts' = Updated(rt) /\ ~TooFarAhead(go[g].arg, go[g].new)
  BY DEF UpdateAndCheckMaxOffset, UpdateReturns
<1> HIDE DEF rt
<1>4. /\ Updated(rt) \in {ts, rt}
      /\ Updated(rt) = ts \/ Less(ts, Updated(rt))
      /\ ts.wall <= Updated(rt).wall
  BY <1>1, <1>2, UpdatedStamp
<1>5. QED
  BY <1>1, <1>2, <1>3, <1>4

\* The steps that do not touch the timestamp.
LEMMA OthersKeepTimestamp ==
  ASSUME NEW g \in Goroutine,
         \/ \E op \in OpsOf[g] :
              \E arg \in IF op \in {"update", "checked"} THEN Remote ELSE {NoStamp} : ClockCall(g, op, arg)
         \/ ReadPhysical(g) \/ SwapLast(g) \/ ReloadLast(g) \/ CheckPhysicalClock(g)
         \/ DisableCheck(g) \/ PersistBound(g) \/ StoreBound(g)
  PROVE  ts' = ts
  BY Zenon DEF ClockCall, ReadPhysical, SwapLast, ReloadLast, CheckPhysicalClock, DisableCheck,
         PersistBound, StoreBound

LEMMA StepAdvances ==
  ASSUME Typed, [ClockNext]_clockVars
  PROVE  ts.logical = MaxLogical \/ ts' = ts \/ Less(ts, ts')
<1>1. CASE UNCHANGED clockVars \/ ClockExit \/ PhysicalClockMoves
  BY <1>1 DEF clockVars, ClockExit, PhysicalClockMoves
<1>2. CASE \E g \in Goroutine : Now(g) \/ Update(g) \/ UpdateAndCheckMaxOffset(g)
  BY <1>2, NowAdvances, UpdateAdvances, CheckedAdvances
<1>3. CASE ClockNext /\ ~ClockExit /\ ~PhysicalClockMoves
           /\ ~\E g \in Goroutine : Now(g) \/ Update(g) \/ UpdateAndCheckMaxOffset(g)
  BY <1>3, OthersKeepTimestamp, Zenon DEF ClockNext
<1>4. QED
  BY <1>1, <1>2, <1>3

\* The timestamp never goes back, and Now returns a later one than all before it,
\* unless Logical is at its maximum: for every clock, however many goroutines call
\* Now, Update and UpdateAndCheckMaxOffset with readings however old.
THEOREM ClockAdvances == ClockSpec => TimestampAdvances
<1> DEFINE A == \/ ts.logical = MaxLogical
                \/ /\ ts' = ts \/ Less(ts, ts')
                   /\ (\E g \in Goroutine : Now(g)) => Less(ts, ts')
<1>1. Typed /\ [ClockNext]_clockVars => [A]_clockVars
  <2>1. SUFFICES ASSUME Typed, [ClockNext]_clockVars PROVE A
    OBVIOUS
  <2>2. \A g \in Goroutine : Now(g) => ts.logical = MaxLogical \/ Less(ts, ts')
    BY <2>1, NowAdvances
  <2>3. QED
    BY <2>1, <2>2, StepAdvances
<1>2. QED
  BY <1>1, TypeInit, TypeStep, PTL DEF ClockSpec, TimestampAdvances

-----------------------------------------------------------------------------
\* What each action does to the local variables of its goroutine; those of the
\* others stay.
Others(g) == \A h \in Goroutine : h # g => go'[h] = go[h]

LEMMA CallLocals ==
  ASSUME Typed, NEW g \in Goroutine, NEW op, NEW arg, ClockCall(g, op, arg)
  PROVE  Others(g) /\ go'[g] = Called(op, arg, IF Reads(op) THEN last ELSE 0)
  BY DEF Typed, GoTyped, ClockCall, Others

LEMMA ReadLocals ==
  ASSUME Typed, NEW g \in Goroutine, ReadPhysical(g)
  PROVE  /\ Others(g) /\ go[g].pc = "read"
         /\ go'[g].pc = "swap" /\ go'[g].op = go[g].op /\ go'[g].new = phys
         /\ go'[g].old = go[g].old /\ go'[g].seen = go[g].seen
<1>1. go[g] \in GoRecord
  BY DEF Typed, GoTyped
<1>2. go'[g] = [go[g] EXCEPT !.pc = "swap", !.new = phys] /\ Others(g) /\ go[g].pc = "read"
  BY DEF Typed, GoTyped, ReadPhysical, Others
<1>3. QED
  BY <1>1, <1>2 DEF GoRecord

LEMMA SwapLocals ==
  ASSUME Typed, NEW g \in Goroutine, SwapLast(g)
  PROVE  /\ Others(g) /\ go[g].pc = "swap"
         /\ go'[g].op = go[g].op /\ go'[g].new = go[g].new /\ go'[g].old = go[g].old
         /\ \/ /\ last = go[g].seen /\ last' = go[g].new
               /\ go'[g].pc = "check" /\ go'[g].seen = 0
            \/ last' = last /\ go'[g].pc = "reload" /\ go'[g].seen = go[g].seen
<1>1. go[g] \in GoRecord
  BY DEF Typed, GoTyped
<1>2. Others(g) /\ go[g].pc = "swap"
  BY DEF Typed, GoTyped, SwapLast, Others
<1>3. CASE Swaps(g)
  <2>1. go'[g] = [go[g] EXCEPT !.pc = "check", !.seen = 0] /\ last = go[g].seen /\ last' = go[g].new
    BY <1>3, Zenon DEF Typed, GoTyped, SwapLast, Swaps
  <2>2. QED
    BY <1>1, <1>2, <2>1 DEF GoRecord
<1>4. CASE ~Swaps(g)
  <2>1. go'[g] = [go[g] EXCEPT !.pc = "reload"] /\ last' = last
    BY <1>4 DEF Typed, GoTyped, SwapLast
  <2>2. QED
    BY <1>1, <1>2, <2>1 DEF GoRecord
<1>5. QED
  BY <1>3, <1>4

LEMMA ReloadLocals ==
  ASSUME Typed, NEW g \in Goroutine, ReloadLast(g)
  PROVE  /\ Others(g) /\ go[g].pc = "reload"
         /\ go'[g].op = go[g].op /\ go'[g].new = go[g].new /\ go'[g].old = go[g].old
         /\ \/ last >= go[g].new /\ go'[g].pc = "check" /\ go'[g].seen = 0
            \/ ~(last >= go[g].new) /\ go'[g].pc = "swap" /\ go'[g].seen = last
<1>1. go[g] \in GoRecord
  BY DEF Typed, GoTyped
<1>2. Others(g) /\ go[g].pc = "reload"
  BY DEF Typed, GoTyped, ReloadLast, Others
<1>3. CASE last >= go[g].new
  <2>1. go'[g] = [go[g] EXCEPT !.pc = "check", !.seen = 0]
    BY <1>3, Zenon DEF Typed, GoTyped, ReloadLast
  <2>2. QED
    BY <1>1, <1>2, <1>3, <2>1 DEF GoRecord
<1>4. CASE ~(last >= go[g].new)
  <2>1. go'[g] = [go[g] EXCEPT !.pc = "swap", !.seen = last]
    BY <1>4, Zenon DEF Typed, GoTyped, ReloadLast
  <2>2. QED
    BY <1>1, <1>2, <1>4, <2>1 DEF GoRecord
<1>5. QED
  BY <1>3, <1>4

LEMMA CheckLocals ==
  ASSUME Typed, NEW g \in Goroutine, CheckPhysicalClock(g)
  PROVE  /\ Others(g) /\ go[g].pc = "check"
         /\ \/ go'[g] = AtRest
            \/ go'[g].pc = "lock" /\ go'[g].op = go[g].op /\ go'[g].new = go[g].new
<1>1. go[g] \in GoRecord
  BY DEF Typed, GoTyped
<1>2. /\ Others(g) /\ go[g].pc = "check"
      /\ go'[g] = AtRest \/ go'[g] = [go[g] EXCEPT !.pc = "lock", !.old = 0]
  BY Zenon DEF Typed, GoTyped, CheckPhysicalClock, Others
<1>3. QED
  BY <1>1, <1>2, Zenon DEF GoRecord

LEMMA NowLocals ==
  ASSUME Typed, NEW g \in Goroutine, Now(g)
  PROVE  /\ Others(g) /\ go[g].pc = "lock" /\ go[g].op \in {"now", "refresh"}
         /\ \/ go'[g] = AtRest
            \/ /\ go[g].op = "refresh"
               /\ go'[g].pc = "persist" /\ go'[g].op = "refresh" /\ go'[g].new = ts'.wall + Delta
<1>1. Others(g) /\ go[g].pc = "lock" /\ go[g].op \in {"now", "refresh"}
  BY DEF Typed, GoTyped, Now, NowReturns, Others
<1>2. \/ go'[g] = AtRest
      \/ /\ go[g].op # "now"
         /\ go'[g] = [AtRest EXCEPT !.pc = "persist", !.op = "refresh", !.new = ts'.wall + Delta]
  BY DEF Typed, GoTyped, Now, NowReturns
<1>3. QED
  BY <1>1, <1>2, Zenon DEF AtRest

LEMMA RestLocals ==
  ASSUME Typed, NEW g \in Goroutine, Update(g) \/ UpdateAndCheckMaxOffset(g) \/ DisableCheck(g) \/ StoreBound(g)
  PROVE  Others(g) /\ go'[g] = AtRest
  BY DEF Typed, GoTyped, Update, UpdateAndCheckMaxOffset, UpdateReturns, DisableCheck, StoreBound, Others

LEMMA PersistLocals ==
  ASSUME Typed, NEW g \in Goroutine, PersistBound(g)
  PROVE  /\ Others(g) /\ go[g].pc = "persist"
         /\ \/ go'[g] = AtRest /\ stored' = stored /\ seenClock' = seenClock
            \/ /\ go'[g].pc = "store" /\ go'[g].op = go[g].op /\ go'[g].new = go[g].new
               /\ stored' = go[g].new
               /\ seenClock'.promised = IF go[g].op = "reset" THEN 0 ELSE seenClock.promised
<1>1. go[g] \in GoRecord /\ seenClock \in ClockHistory
  BY DEF Typed, ClockTypeOK, GoTyped
<1>2. Others(g) /\ go[g].pc = "persist"
  BY DEF Typed, GoTyped, PersistBound, Others
<1>3. CASE go' = [go EXCEPT ![g] = OnError(g)] /\ UNCHANGED <<stored, seenClock>>
  BY <1>2, <1>3 DEF Typed, GoTyped, OnError
<1>4. CASE /\ stored' = go[g].new
           /\ go' = [go EXCEPT ![g].pc = "store"]
           /\ seenClock' = [seenClock EXCEPT !.promised = IF go[g].op = "reset" THEN 0 ELSE @]
  <2>1. go'[g] = [go[g] EXCEPT !.pc = "store"]
    BY <1>4 DEF Typed, GoTyped
  <2>2. seenClock'.promised = IF go[g].op = "reset" THEN 0 ELSE seenClock.promised
    BY <1>1, <1>4 DEF ClockHistory
  <2>3. QED
    BY <1>1, <1>2, <1>4, <2>1, <2>2 DEF GoRecord
<1>5. QED
  BY <1>3, <1>4 DEF PersistBound

\* What each action does to the history.
Kept(fields) == \A f \in fields : seenClock'[f] = seenClock[f]

LEMMA HistoryRead ==
  ASSUME Typed, NEW g \in Goroutine, ReadPhysical(g)
  PROVE  /\ Kept({"back", "alarm", "forced", "promised"})
         /\ seenClock'.read = Higher(seenClock.read, phys)
  BY DEF Typed, ClockTypeOK, ClockHistory, ReadPhysical, Kept

LEMMA HistoryCall ==
  ASSUME Typed, NEW g \in Goroutine, NEW op, NEW arg, ClockCall(g, op, arg)
  PROVE  Kept({"back", "alarm", "read", "forced", "promised"})
  BY DEF Typed, ClockTypeOK, ClockHistory, ClockCall, Kept

LEMMA HistoryMoves ==
  ASSUME Typed, PhysicalClockMoves
  PROVE  /\ Kept({"alarm", "read", "forced", "promised"})
         /\ ~seenClock'.back => ~seenClock.back /\ ~(phys' < phys)
  BY Zenon DEF Typed, ClockTypeOK, ClockHistory, PhysicalClockMoves, Kept

LEMMA HistoryCheck ==
  ASSUME Typed, NEW g \in Goroutine, CheckPhysicalClock(g)
  PROVE  /\ Kept({"back", "read", "forced", "promised"})
         /\ ~seenClock.alarm /\ ~Backward(g) => ~seenClock'.alarm
  BY DEF Typed, ClockTypeOK, ClockHistory, CheckPhysicalClock, Kept

LEMMA HistoryNow ==
  ASSUME Typed, NEW g \in Goroutine, Now(g)
  PROVE  /\ Kept({"back", "alarm", "read", "forced"})
         /\ \/ seenClock'.promised = seenClock.promised
            \/ /\ bound # 0 /\ ~BeyondBound(ts')
               /\ seenClock'.promised = Higher(seenClock.promised, ts'.wall)
  BY DEF Typed, ClockTypeOK, ClockHistory, Now, NowReturns, Kept

LEMMA HistoryUpdate ==
  ASSUME Typed, NEW g \in Goroutine, Update(g)
  PROVE  /\ Kept({"back", "alarm", "read", "promised"})
         /\ seenClock'.forced = Higher(seenClock.forced, go[g].arg.wall)
  BY DEF Typed, ClockTypeOK, ClockHistory, Update, Kept

LEMMA HistoryPersist ==
  ASSUME Typed, NEW g \in Goroutine, PersistBound(g)
  PROVE  Kept({"back", "alarm", "read", "forced"})
  BY DEF Typed, ClockTypeOK, ClockHistory, PersistBound, Kept

-----------------------------------------------------------------------------
\* What a goroutine knows of the readings while the physical clock, at p, has not
\* gone backwards and lastPhysicalTime is l.
Winning(o, p, l) ==
  /\ o.pc = "read" => o.old <= p /\ o.seen <= p
  /\ o.pc \in {"swap", "reload", "check"} => o.old <= o.new /\ o.seen <= o.new /\ o.new <= p
  /\ o.pc \in {"check", "lock"} => o.new <= l

Wins == ~seenClock.back => /\ last <= phys /\ ~seenClock.alarm
                           /\ \A g \in Goroutine : Winning(go[g], phys, last)

LEMMA WinningLater ==
  ASSUME NEW o \in GoRecord, NEW p \in Nat, NEW q \in Nat, NEW l \in Nat, NEW k \in Nat,
         p <= q, l <= k, Winning(o, p, l)
  PROVE  Winning(o, q, k)
<1>1. o.old \in Nat /\ o.new \in Nat /\ o.seen \in Nat
  BY Numbers DEF GoRecord
<1>2. QED
  BY <1>1 DEF Winning

\* A step of one goroutine that moves neither clock back.
LEMMA WinsStep ==
  ASSUME Typed, Typed', Wins, NEW g \in Goroutine, Others(g),
         Kept({"back"}), phys' = phys,
         ~seenClock.back => /\ last <= last' /\ last' <= phys
                            /\ ~seenClock'.alarm /\ Winning(go'[g], phys, last')
  PROVE  Wins'
<1>1. SUFFICES ASSUME ~seenClock.back
               PROVE  /\ last' <= phys' /\ ~seenClock'.alarm
                      /\ \A h \in Goroutine : Winning(go'[h], phys', last')
  BY DEF Wins, Kept
<1>2. phys \in Nat /\ last \in Nat /\ last' \in Nat
  BY Numbers DEF Typed, ClockTypeOK
<1>3. ASSUME NEW h \in Goroutine, h # g PROVE Winning(go'[h], phys', last')
  <2>1. go[h] \in GoRecord /\ go'[h] = go[h]
    BY <1>3 DEF Typed, GoTyped, Others
  <2>2. Winning(go[h], phys, last)
    BY <1>1 DEF Wins
  <2>3. last <= last' /\ phys <= phys /\ phys' = phys
    BY <1>1, <1>2
  <2>4. Winning(go[h], phys, last')
    BY <1>2, <2>1, <2>2, <2>3, WinningLater
  <2>5. QED
    BY <2>1, <2>3, <2>4
<1>4. QED
  BY <1>1, <1>3

LEMMA WinsCall ==
  ASSUME Typed, Typed', Wins, NEW g \in Goroutine, NEW op, NEW arg, ClockCall(g, op, arg)
  PROVE  Wins'
<1>1. last \in Nat /\ phys \in Nat /\ phys' = phys /\ last' = last
  BY Numbers DEF Typed, ClockTypeOK, ClockCall
<1>2. Others(g) /\ go'[g] = Called(op, arg, IF Reads(op) THEN last ELSE 0)
  BY CallLocals
<1>3. Kept({"back"}) /\ Kept({"alarm"})
  BY HistoryCall DEF Kept
<1>4. FirstStep(op) = "read" => Reads(op)
  BY DEF FirstStep
<1>5. FirstStep(op) \in {"read", "persist", "lock"}
  BY DEF FirstStep
<1>6. ~seenClock.back => Winning(go'[g], phys, last)
  BY <1>1, <1>2, <1>4, <1>5 DEF Winning, Called, Wins
<1>7. QED
  BY <1>1, <1>2, <1>3, <1>6, WinsStep DEF Wins, Kept

LEMMA WinsRead ==
  ASSUME Typed, Typed', Wins, NEW g \in Goroutine, ReadPhysical(g)
  PROVE  Wins'
<1>1. last \in Nat /\ phys \in Nat /\ phys' = phys /\ last' = last
  BY Numbers DEF Typed, ClockTypeOK, ReadPhysical
<1>2. Kept({"back"}) /\ Kept({"alarm"})
  BY HistoryRead DEF Kept
<1>3. ~seenClock.back => Winning(go[g], phys, last)
  BY DEF Wins
<1>4. ~seenClock.back => Winning(go'[g], phys, last)
  BY <1>1, <1>3, ReadLocals DEF Winning
<1>5. QED
  BY <1>1, <1>2, <1>4, ReadLocals, WinsStep DEF Wins, Kept

LEMMA WinsSwap ==
  ASSUME Typed, Typed', Wins, NEW g \in Goroutine, SwapLast(g)
  PROVE  Wins'
<1>1. /\ last \in Nat /\ phys \in Nat /\ phys' = phys /\ seenClock' = seenClock
      /\ go[g].new \in Nat /\ go[g].old \in Nat
  BY Numbers DEF Typed, ClockTypeOK, SwapLast, GoTyped, GoRecord
<1>2. ~seenClock.back => Winning(go[g], phys, last) /\ last <= phys
  BY DEF Wins
<1>3. ~seenClock.back => last <= last' /\ last' <= phys /\ Winning(go'[g], phys, last')
  BY <1>1, <1>2, SwapLocals DEF Winning
<1>4. QED
  BY <1>1, <1>3, SwapLocals, WinsStep DEF Wins, Kept

LEMMA WinsReload ==
  ASSUME Typed, Typed', Wins, NEW g \in Goroutine, ReloadLast(g)
  PROVE  Wins'
<1>1. /\ last \in Nat /\ phys \in Nat /\ phys' = phys /\ seenClock' = seenClock /\ last' = last
      /\ go[g].new \in Nat /\ go[g].old \in Nat
  BY Numbers DEF Typed, ClockTypeOK, ReloadLast, GoTyped, GoRecord
<1>2. ~seenClock.back => Winning(go[g], phys, last) /\ last <= phys
  BY DEF Wins
<1>3. ~seenClock.back => Winning(go'[g], phys, last')
  BY <1>1, <1>2, ReloadLocals DEF Winning
<1>4. QED
  BY <1>1, <1>2, <1>3, ReloadLocals, WinsStep DEF Wins, Kept

LEMMA WinsCheck ==
  ASSUME Typed, Typed', Wins, NEW g \in Goroutine, CheckPhysicalClock(g)
  PROVE  Wins'
<1>1. /\ last \in Nat /\ phys \in Nat /\ phys' = phys /\ last' = last
      /\ go[g].new \in Nat /\ go[g].old \in Nat
  BY Numbers DEF Typed, ClockTypeOK, CheckPhysicalClock, GoTyped, GoRecord
<1>2. ~seenClock.back => Winning(go[g], phys, last) /\ last <= phys /\ ~seenClock.alarm
  BY DEF Wins
<1>3. ~seenClock.back => Winning(go'[g], phys, last)
  BY <1>1, <1>2, CheckLocals DEF Winning, AtRest
<1>4. ~seenClock.back => ~Backward(g)
  <2>1. SUFFICES ASSUME ~seenClock.back PROVE ~(go[g].old - go[g].new > MaxOffset \div 10)
    BY DEF Backward
  <2>2. go[g].old <= go[g].new
    BY <1>2, <2>1, CheckLocals DEF Winning
  <2>3. MaxOffset \div 10 >= 0 /\ MaxOffset \div 10 \in Int
    BY Numbers
  <2>4. QED
    BY <1>1, <2>2, <2>3
<1>5. Kept({"back"}) /\ (~seenClock.back => ~seenClock'.alarm)
  BY <1>2, <1>4, HistoryCheck DEF Kept
<1>6. QED
  BY <1>1, <1>2, <1>3, <1>5, CheckLocals, WinsStep

LEMMA WinsEnds ==
  ASSUME Typed, Typed', Wins, NEW g \in Goroutine,
         \/ Now(g) \/ Update(g) \/ UpdateAndCheckMaxOffset(g) \/ DisableCheck(g)
         \/ PersistBound(g) \/ StoreBound(g)
  PROVE  Wins'
<1>1. last \in Nat /\ phys \in Nat
  BY Numbers DEF Typed, ClockTypeOK
<1>2. phys' = phys /\ last' = last
  BY Zenon DEF Now, Update, UpdateAndCheckMaxOffset, DisableCheck, PersistBound, StoreBound
<1>3. Others(g) /\ go'[g].pc \in {"idle", "persist", "store"}
  BY NowLocals, RestLocals, PersistLocals DEF AtRest
<1>4. Kept({"back"}) /\ Kept({"alarm"})
  BY HistoryNow, HistoryUpdate, HistoryPersist DEF UpdateAndCheckMaxOffset, DisableCheck, StoreBound, Kept
<1>5. Winning(go'[g], phys, last)
  BY <1>3 DEF Winning
<1>6. QED
  BY <1>1, <1>2, <1>3, <1>4, <1>5, WinsStep DEF Wins, Kept

LEMMA WinsMoves ==
  ASSUME Typed, Typed', Wins, PhysicalClockMoves
  PROVE  Wins'
<1>1. phys \in Nat /\ phys' \in Nat /\ last \in Nat /\ last' = last /\ go' = go
  BY Numbers DEF Typed, ClockTypeOK, PhysicalClockMoves
<1>2. SUFFICES ASSUME ~seenClock'.back
               PROVE  /\ last' <= phys' /\ ~seenClock'.alarm
                      /\ \A h \in Goroutine : Winning(go'[h], phys', last')
  BY DEF Wins
<1>3. ~seenClock.back /\ phys <= phys' /\ seenClock'.alarm = seenClock.alarm
  BY <1>1, <1>2, HistoryMoves DEF Kept
<1>4. last <= phys /\ ~seenClock.alarm /\ \A h \in Goroutine : Winning(go[h], phys, last)
  BY <1>3 DEF Wins
<1>5. \A h \in Goroutine : go[h] \in GoRecord
  BY DEF Typed, GoTyped
<1>6. \A h \in Goroutine : Winning(go[h], phys', last)
  BY <1>1, <1>3, <1>4, <1>5, WinningLater
<1>7. QED
  BY <1>1, <1>3, <1>4, <1>6

\* However the readings of several goroutines race in getPhysicalClockAndCheck, the
\* highest one wins lastPhysicalTime and no backward jump is reported, unless the
\* physical clock itself goes backwards.
THEOREM ClockReadings == ClockSpec => []HighestReadingWins
<1>1. ClockInit => Wins
  BY DEF ClockInit, Wins, Winning, AtRest
<1>2. Typed /\ Wins /\ [ClockNext]_clockVars => Wins'
  <2>1. SUFFICES ASSUME Typed, Wins, [ClockNext]_clockVars PROVE Wins'
    OBVIOUS
  <2>2. Typed'
    BY <2>1, TypeStep
  <2>3. CASE UNCHANGED clockVars \/ ClockExit
    BY <2>1, <2>3 DEF ClockExit, clockVars, Wins
  <2>4. CASE ClockNext /\ ~ClockExit
    BY <2>1, <2>2, <2>4, WinsMoves, WinsCall, WinsRead, WinsSwap, WinsReload, WinsCheck, WinsEnds,
       Zenon DEF ClockNext
  <2>5. QED
    BY <2>1, <2>3, <2>4
<1>3. Wins => HighestReadingWins
  BY DEF Wins, Winning, HighestReadingWins
<1>4. QED
  BY <1>1, <1>2, <1>3, TypeInit, TypeStep, PTL DEF ClockSpec

-----------------------------------------------------------------------------
\* A reading that a goroutine holds is at most r, the highest one so far.
Fresh(o, r) ==
  o.pc \in {"swap", "reload", "check"} \/ (o.pc = "lock" /\ Reads(o.op)) => o.new <= r

Skew == SkewBounded /\ \A g \in Goroutine : Fresh(go[g], seenClock.read)

LEMMA HistoryTypes ==
  ASSUME Typed
  PROVE  /\ seenClock.read \in Nat /\ seenClock.forced \in Nat /\ ts.wall \in Nat /\ phys \in Nat
         /\ \A g \in Goroutine : go[g].new \in Nat /\ go[g].arg.wall \in Nat
  BY Numbers DEF Typed, ClockTypeOK, ClockHistory, Stamp, GoTyped, GoRecord

LEMMA SkewStep ==
  ASSUME Typed, Skew, NEW g \in Goroutine, Others(g),
         seenClock.read <= seenClock'.read, seenClock'.read \in Nat,
         Fresh(go'[g], seenClock'.read)
  PROVE  \A h \in Goroutine : Fresh(go'[h], seenClock'.read)
<1>1. ASSUME NEW h \in Goroutine, h # g PROVE Fresh(go'[h], seenClock'.read)
  <2>1. Fresh(go[h], seenClock.read) /\ go'[h] = go[h]
    BY <1>1 DEF Skew, Others
  <2>2. QED
    BY <2>1, HistoryTypes DEF Fresh
<1>2. QED
  BY <1>1

LEMMA SkewRead ==
  ASSUME Typed, Typed', Skew, NEW g \in Goroutine, ReadPhysical(g)
  PROVE  Skew'
<1>1. seenClock'.read = Higher(seenClock.read, phys) /\ seenClock'.forced = seenClock.forced /\ ts' = ts
  BY HistoryRead DEF Kept, ReadPhysical
<1>2. /\ seenClock.read <= seenClock'.read /\ phys <= seenClock'.read
      /\ seenClock.read \in Nat /\ seenClock'.read \in Nat
  BY <1>1, HistoryTypes DEF Higher
<1>3. Fresh(go'[g], seenClock'.read)
  BY <1>2, ReadLocals DEF Fresh
<1>4. SkewBounded'
  BY <1>1, <1>2, HistoryTypes, Numbers DEF Skew, SkewBounded, Higher
<1>5. QED
  BY <1>2, <1>3, <1>4, ReadLocals, SkewStep DEF Skew

\* The steps between the reading and the section under the mutex.
LEMMA SkewBefore ==
  ASSUME Typed, Typed', Skew, NEW g \in Goroutine, NEW op, NEW arg,
         ClockCall(g, op, arg) \/ SwapLast(g) \/ ReloadLast(g) \/ CheckPhysicalClock(g)
  PROVE  Skew'
<1>1. Kept({"read"}) /\ Kept({"forced"}) /\ ts' = ts
  BY HistoryCall, HistoryCheck, Zenon DEF Kept, ClockCall, SwapLast, ReloadLast, CheckPhysicalClock
<1>2. Fresh(go[g], seenClock.read)
  BY DEF Skew
<1>3. Others(g) /\ Fresh(go'[g], seenClock.read)
  <2>1. CASE ClockCall(g, op, arg)
    <3>1. Others(g) /\ go'[g] = Called(op, arg, IF Reads(op) THEN last ELSE 0)
      BY <2>1, CallLocals, Zenon
    <3>2. go'[g].new = 0
      BY <3>1 DEF Called
    <3>3. QED
      BY <3>1, <3>2, HistoryTypes DEF Fresh
  <2>2. CASE ~ClockCall(g, op, arg)
    BY <1>2, <2>2, SwapLocals, ReloadLocals, CheckLocals DEF Fresh, AtRest
  <2>3. QED
    BY <2>1, <2>2
<1>4. seenClock'.read = seenClock.read /\ seenClock'.forced = seenClock.forced
  BY <1>1 DEF Kept
<1>5. SkewBounded'
  BY <1>1, <1>4 DEF Skew, SkewBounded
<1>6. QED
  BY <1>3, <1>4, <1>5, HistoryTypes, SkewStep DEF Skew

\* The sections under the mutex and the steps after them hold no reading any more.
LEMMA SkewEnds ==
  ASSUME Typed, Typed', Skew, NEW g \in Goroutine, Others(g), Kept({"read"}),
         go'[g].pc \in {"idle", "persist", "store"}, SkewBounded'
  PROVE  Skew'
<1>1. seenClock'.read = seenClock.read /\ Fresh(go'[g], seenClock'.read)
  BY DEF Kept, Fresh
<1>2. QED
  BY <1>1, HistoryTypes, SkewStep DEF Skew

LEMMA SkewNow ==
  ASSUME Typed, Typed', Skew, NEW g \in Goroutine, Now(g)
  PROVE  Skew'
<1>1. seenClock'.read = seenClock.read /\ seenClock'.forced = seenClock.forced
  BY HistoryNow DEF Kept
<1>2. go[g].new <= seenClock.read
  BY NowLocals DEF Skew, Fresh, Reads
<1>3. ts'.wall \in {ts.wall, go[g].new}
  BY NowAdvances
<1>4. SkewBounded'
  BY <1>1, <1>2, <1>3, HistoryTypes, Numbers DEF Skew, SkewBounded, Higher
<1>5. QED
  BY <1>4, NowLocals, HistoryNow, SkewEnds DEF AtRest, Kept

LEMMA SkewUpdate ==
  ASSUME Typed, Typed', Skew, NEW g \in Goroutine, Update(g)
  PROVE  Skew'
<1>1. /\ seenClock'.read = seenClock.read
      /\ seenClock'.forced = Higher(seenClock.forced, go[g].arg.wall)
  BY HistoryUpdate DEF Kept
<1>2. ts'.wall \in {ts.wall, go[g].arg.wall}
  BY UpdateAdvances
<1>3. SkewBounded'
  BY <1>1, <1>2, HistoryTypes, Numbers DEF Skew, SkewBounded, Higher
<1>4. QED
  BY <1>3, RestLocals, HistoryUpdate, SkewEnds DEF AtRest, Kept

LEMMA SkewChecked ==
  ASSUME Typed, Typed', Skew, NEW g \in Goroutine, UpdateAndCheckMaxOffset(g)
  PROVE  Skew'
<1>1. seenClock' = seenClock /\ go[g].pc = "lock" /\ go[g].op = "checked"
  BY DEF UpdateAndCheckMaxOffset
<1>2. go[g].new <= seenClock.read
  BY <1>1 DEF Skew, Fresh, Reads
<1>3. \/ ts' = ts
      \/ /\ ~TooFarAhead(go[g].arg, go[g].new)
         /\ ts'.wall \in {ts.wall, go[g].arg.wall, go[g].new}
  BY CheckedAdvances
<1>4. SkewBounded'
  BY <1>1, <1>2, <1>3, HistoryTypes, Numbers DEF Skew, SkewBounded, Higher, TooFarAhead
<1>5. QED
  BY <1>1, <1>4, RestLocals, SkewEnds DEF AtRest, Kept

LEMMA SkewRest ==
  ASSUME Typed, Typed', Skew, NEW g \in Goroutine, DisableCheck(g) \/ PersistBound(g) \/ StoreBound(g)
  PROVE  Skew'
<1>1. Kept({"read"}) /\ Kept({"forced"}) /\ ts' = ts
  BY HistoryPersist DEF Kept, DisableCheck, StoreBound, PersistBound
<1>2. SkewBounded'
  BY <1>1 DEF Skew, SkewBounded, Kept
<1>3. Others(g) /\ go'[g].pc \in {"idle", "persist", "store"}
  BY RestLocals, PersistLocals DEF AtRest
<1>4. QED
  BY <1>1, <1>2, <1>3, SkewEnds

\* Unless Update forces it, the wall time is never more than maxOffset ahead of the
\* highest reading of the physical clock: TooFarAhead of UpdateAndCheckMaxOffset is
\* tested with a reading taken before the mutex, which may be old by then.
THEOREM ClockSkew == ClockSpec => []SkewBounded
<1>1. ClockInit => Skew
  BY Numbers DEF ClockInit, Skew, Fresh, AtRest, SkewBounded, Higher, NoStamp
<1>2. Typed /\ Skew /\ [ClockNext]_clockVars => Skew'
  <2>1. SUFFICES ASSUME Typed, Skew, [ClockNext]_clockVars PROVE Skew'
    OBVIOUS
  <2>2. Typed'
    BY <2>1, TypeStep
  <2>3. CASE UNCHANGED clockVars \/ ClockExit
    BY <2>1, <2>3 DEF ClockExit, clockVars, Skew, SkewBounded
  <2>4. CASE PhysicalClockMoves
    <3>1. ts' = ts /\ go' = go /\ seenClock'.read = seenClock.read /\ seenClock'.forced = seenClock.forced
      BY <2>1, <2>4, HistoryMoves DEF PhysicalClockMoves, Kept
    <3>2. QED
      BY <2>1, <3>1 DEF Skew, SkewBounded
  <2>5. CASE ClockNext /\ ~ClockExit /\ ~PhysicalClockMoves
    BY <2>1, <2>2, <2>5, SkewBefore, SkewRead, SkewNow, SkewUpdate, SkewChecked, SkewRest, Zenon
       DEF ClockNext
  <2>6. QED
    BY <2>1, <2>3, <2>4, <2>5
<1>3. Skew => SkewBounded
  BY DEF Skew
<1>4. QED
  BY <1>1, <1>2, <1>3, TypeInit, TypeStep, PTL DEF ClockSpec

-----------------------------------------------------------------------------
\* The goroutine that refreshes or resets the bound holds the next one, when b is
\* in force, s is stored, p was promised and w is the wall time.
Promising(o, b, s, p, w) ==
  /\ o.pc = "persist" /\ o.op = "refresh" => b <= o.new /\ s <= o.new /\ p <= o.new /\ o.new <= w + Delta
  /\ o.pc = "persist" /\ o.op = "reset" => o.new = 0
  /\ o.pc = "store" => o.new = s

Bounds(b, s, p, w) ==
  /\ b <= w + Delta /\ s <= w + Delta /\ p <= w
  /\ b # 0 /\ s # 0 => b <= s
  /\ s # 0 => p <= s

Promises == /\ Bounds(bound, stored, seenClock.promised, ts.wall)
            /\ \A g \in Goroutine : Promising(go[g], bound, stored, seenClock.promised, ts.wall)

LEMMA BoundTypes ==
  ASSUME Typed
  PROVE  /\ bound \in Nat /\ stored \in Nat /\ seenClock.promised \in Nat /\ ts.wall \in Nat
         /\ \A g \in Goroutine : go[g].new \in Nat
  BY Numbers DEF Typed, ClockTypeOK, ClockHistory, Stamp, GoTyped, GoRecord

\* One goroutine refreshes and resets.
LEMMA OneRefresher ==
  ASSUME Typed, NEW g \in Goroutine, NEW h \in Goroutine,
         go[g].pc \in {"persist", "store"}, go[h].pc \in {"persist", "store"}
  PROVE  g = h
<1>1. go[g].op \in {"refresh", "reset"} /\ go[h].op \in {"refresh", "reset"}
  BY DEF Typed, GoTyped, Phase
<1>2. go[g].op \in OpsOf[g] /\ go[h].op \in OpsOf[h]
  BY <1>1 DEF Typed, GoTyped, Phase
<1>3. {"refresh", "reset"} \cap OpsOf[g] # {} /\ {"refresh", "reset"} \cap OpsOf[h] # {}
  BY <1>1, <1>2
<1>4. QED
  BY <1>3, ClockAssumption, Zenon

\* A step of one goroutine that changes neither bound: the wall time may advance,
\* and what was promised grows only within the bound.
LEMMA PromisesStep ==
  ASSUME Typed, Typed', Promises, NEW g \in Goroutine, Others(g),
         bound' = bound, stored' = stored, ts.wall <= ts'.wall,
         \/ seenClock'.promised = seenClock.promised
         \/ /\ bound # 0 /\ ts'.wall <= bound
            /\ seenClock'.promised = Higher(seenClock.promised, ts'.wall),
         Promising(go'[g], bound, stored, seenClock'.promised, ts'.wall)
  PROVE  Promises'
<1>1. Bounds(bound', stored', seenClock'.promised, ts'.wall)
  BY BoundTypes, Numbers DEF Promises, Bounds, Higher, Typed, ClockTypeOK, Stamp
<1>2. ASSUME NEW h \in Goroutine, h # g
      PROVE  Promising(go'[h], bound', stored', seenClock'.promised, ts'.wall)
  <2>1. Promising(go[h], bound, stored, seenClock.promised, ts.wall) /\ go'[h] = go[h] /\ go[h].new \in Nat
    BY <1>2, BoundTypes DEF Promises, Others
  <2>2. ts'.wall \in Nat
    BY DEF Typed, ClockTypeOK, Stamp
  <2>3. QED
    BY <2>1, <2>2, BoundTypes, Numbers DEF Promising, Higher
<1>3. QED
  BY <1>1, <1>2 DEF Promises

LEMMA PromisesCall ==
  ASSUME Typed, Typed', Promises, NEW g \in Goroutine, NEW op, NEW arg, ClockCall(g, op, arg)
  PROVE  Promises'
<1>1. Others(g) /\ go'[g] = Called(op, arg, IF Reads(op) THEN last ELSE 0)
  BY CallLocals, Zenon
<1>2. go'[g].pc = FirstStep(op) /\ go'[g].op = op /\ go'[g].new = 0
  BY <1>1 DEF Called
<1>3. FirstStep(op) # "store" /\ (FirstStep(op) = "persist" => op = "reset")
  BY DEF FirstStep
<1>4. Promising(go'[g], bound, stored, seenClock'.promised, ts'.wall)
  BY <1>2, <1>3 DEF Promising
<1>5. seenClock'.promised = seenClock.promised
  BY HistoryCall DEF Kept
<1>6. ts' = ts /\ bound' = bound /\ stored' = stored
  BY DEF ClockCall
<1>7. ts.wall <= ts'.wall
  BY <1>6, BoundTypes
<1>8. QED
  BY <1>1, <1>4, <1>5, <1>6, <1>7, PromisesStep

\* The steps after which a goroutine holds no bound.
LEMMA PromisesOther ==
  ASSUME Typed, Typed', Promises, NEW g \in Goroutine,
         \/ ReadPhysical(g) \/ SwapLast(g) \/ ReloadLast(g) \/ CheckPhysicalClock(g)
         \/ DisableCheck(g) \/ Update(g) \/ UpdateAndCheckMaxOffset(g)
  PROVE  Promises'
<1>1. Others(g) /\ go'[g].pc \in {"idle", "swap", "reload", "check", "lock"}
  <2> DEFINE Goal == Others(g) /\ go'[g].pc \in {"idle", "swap", "reload", "check", "lock"}
  <2>1. AtRest.pc = "idle"
    BY DEF AtRest
  <2>2. ASSUME ReadPhysical(g) PROVE Goal
    BY <2>2, ReadLocals, Zenon
  <2>3. ASSUME SwapLast(g) PROVE Goal
    BY <2>3, SwapLocals, Zenon
  <2>4. ASSUME ReloadLast(g) PROVE Goal
    BY <2>4, ReloadLocals, Zenon
  <2>5. ASSUME CheckPhysicalClock(g) PROVE Goal
    BY <2>1, <2>5, CheckLocals, Zenon
  <2>6. ASSUME DisableCheck(g) \/ Update(g) \/ UpdateAndCheckMaxOffset(g) PROVE Goal
    BY <2>1, <2>6, RestLocals, Zenon
  <2> QED
    BY <2>2, <2>3, <2>4, <2>5, <2>6, Zenon
<1>2. seenClock'.promised = seenClock.promised
  BY HistoryRead, HistoryCheck, HistoryUpdate
     DEF Kept, SwapLast, ReloadLast, DisableCheck, UpdateAndCheckMaxOffset
<1>3. bound' = bound /\ stored' = stored
  BY Zenon DEF ReadPhysical, SwapLast, ReloadLast, CheckPhysicalClock, DisableCheck, Update,
               UpdateAndCheckMaxOffset
<1>4. ts.wall <= ts'.wall
  <2>1. CASE Update(g) \/ UpdateAndCheckMaxOffset(g)
    BY <2>1, UpdateAdvances, CheckedAdvances
  <2>2. CASE ReadPhysical(g) \/ SwapLast(g) \/ ReloadLast(g) \/ CheckPhysicalClock(g) \/ DisableCheck(g)
    <3>1. ts' = ts
      BY <2>2, OthersKeepTimestamp
    <3>2. QED
      BY <3>1, BoundTypes
  <2>3. QED
    BY <2>1, <2>2
<1>5. Promising(go'[g], bound, stored, seenClock'.promised, ts'.wall)
  BY <1>1 DEF Promising
<1>6. QED
  BY <1>1, <1>2, <1>3, <1>4, <1>5, PromisesStep

LEMMA PromisesNow ==
  ASSUME Typed, Typed', Promises, NEW g \in Goroutine, Now(g)
  PROVE  Promises'
<1>1. bound' = bound /\ stored' = stored
  BY DEF Now
<1>2. ts.wall <= ts'.wall /\ ts'.wall \in Nat
  BY NowAdvances DEF Typed, ClockTypeOK, Stamp
<1>3. \/ seenClock'.promised = seenClock.promised
      \/ /\ bound # 0 /\ ts'.wall <= bound
         /\ seenClock'.promised = Higher(seenClock.promised, ts'.wall)
  BY <1>2, HistoryNow, BoundTypes DEF BeyondBound
<1>4. Bounds(bound, stored, seenClock.promised, ts.wall)
  BY DEF Promises
<1>5. Promising(go'[g], bound, stored, seenClock'.promised, ts'.wall)
  <2>1. CASE go'[g] = AtRest
    <3>1. AtRest.pc = "idle"
      BY DEF AtRest
    <3>2. go'[g].pc # "persist" /\ go'[g].pc # "store"
      BY <2>1, <3>1
    <3> QED
      BY <3>2, Zenon DEF Promising
  <2>2. CASE go'[g].pc = "persist" /\ go'[g].op = "refresh" /\ go'[g].new = ts'.wall + Delta
    BY <1>2, <1>3, <1>4, <2>2, BoundTypes, Numbers DEF Promising, Bounds, Higher
  <2>3. QED
    BY <2>1, <2>2, NowLocals
<1>6. QED
  BY <1>1, <1>2, <1>3, <1>5, NowLocals, PromisesStep

LEMMA PromisesPersist ==
  ASSUME Typed, Typed', Promises, NEW g \in Goroutine, PersistBound(g)
  PROVE  Promises'
<1>1. bound' = bound /\ ts' = ts /\ Others(g) /\ go[g].pc = "persist"
  BY PersistLocals DEF PersistBound
<1>2. CASE go'[g] = AtRest /\ stored' = stored /\ seenClock' = seenClock
  <2>1. Promising(go'[g], bound, stored, seenClock'.promised, ts'.wall)
    BY <1>2 DEF Promising, AtRest
  <2>2. ts.wall <= ts'.wall
    BY <1>1, BoundTypes
  <2>3. QED
    BY <1>1, <1>2, <2>1, <2>2, PromisesStep
<1>3. CASE /\ go'[g].pc = "store" /\ go'[g].op = go[g].op /\ go'[g].new = go[g].new
           /\ stored' = go[g].new
           /\ seenClock'.promised = IF go[g].op = "reset" THEN 0 ELSE seenClock.promised
  <2>1. go[g].op \in {"refresh", "reset"}
    BY <1>1 DEF Typed, GoTyped, Phase
  <2>2. /\ Bounds(bound, stored, seenClock.promised, ts.wall)
        /\ Promising(go[g], bound, stored, seenClock.promised, ts.wall)
    BY DEF Promises
  <2>3. Bounds(bound', stored', seenClock'.promised, ts'.wall)
    BY <1>1, <1>3, <2>1, <2>2, BoundTypes, Numbers DEF Bounds, Promising
  <2>4. Promising(go'[g], bound', stored', seenClock'.promised, ts'.wall)
    BY <1>3 DEF Promising
  <2>5. ASSUME NEW h \in Goroutine, h # g
        PROVE  Promising(go'[h], bound', stored', seenClock'.promised, ts'.wall)
    BY <1>1, <2>5, OneRefresher DEF Promising, Others
  <2>6. QED
    BY <2>3, <2>4, <2>5 DEF Promises
<1>4. QED
  BY <1>2, <1>3, PersistLocals

LEMMA PromisesStore ==
  ASSUME Typed, Typed', Promises, NEW g \in Goroutine, StoreBound(g)
  PROVE  Promises'
<1>1. /\ bound' = go[g].new /\ stored' = stored /\ ts' = ts /\ seenClock' = seenClock
      /\ go[g].pc = "store" /\ Others(g) /\ go'[g] = AtRest
  BY RestLocals, Zenon DEF StoreBound
<1>2. /\ Bounds(bound, stored, seenClock.promised, ts.wall)
      /\ Promising(go[g], bound, stored, seenClock.promised, ts.wall)
  BY DEF Promises
<1>3. Bounds(bound', stored', seenClock'.promised, ts'.wall)
  BY <1>1, <1>2, BoundTypes, Numbers DEF Bounds, Promising
<1>4. Promising(go'[g], bound', stored', seenClock'.promised, ts'.wall)
  BY <1>1 DEF Promising, AtRest
<1>5. ASSUME NEW h \in Goroutine, h # g
      PROVE  Promising(go'[h], bound', stored', seenClock'.promised, ts'.wall)
  BY <1>1, <1>5, OneRefresher DEF Promising, Others
<1>6. QED
  BY <1>3, <1>4, <1>5 DEF Promises

\* No wall time that Now returned with an upper bound in force is beyond the bound
\* that persistHLCUpperBound stored last, whatever steps of other goroutines come
\* between persistFn and the store in memory, and whether persistFn fails or not.
THEOREM ClockPromises == ClockSpec => []PromisesPersisted
<1>1. ClockInit => Promises
  BY Numbers DEF ClockInit, Promises, Bounds, Promising, AtRest, NoStamp
<1>2. Typed /\ Promises /\ [ClockNext]_clockVars => Promises'
  <2>1. SUFFICES ASSUME Typed, Promises, [ClockNext]_clockVars PROVE Promises'
    OBVIOUS
  <2>2. Typed'
    BY <2>1, TypeStep
  <2>3. CASE UNCHANGED clockVars \/ ClockExit
    BY <2>1, <2>3 DEF ClockExit, clockVars, Promises
  <2>4. CASE PhysicalClockMoves
    <3>1. /\ ts' = ts /\ go' = go /\ bound' = bound /\ stored' = stored
          /\ seenClock'.promised = seenClock.promised
      BY <2>1, <2>4, HistoryMoves DEF PhysicalClockMoves, Kept
    <3>2. QED
      BY <2>1, <3>1 DEF Promises
  <2>5. CASE ClockNext /\ ~ClockExit /\ ~PhysicalClockMoves
    BY <2>1, <2>2, <2>5, PromisesCall, PromisesOther, PromisesNow, PromisesPersist, PromisesStore, Zenon
       DEF ClockNext
  <2>6. QED
    BY <2>1, <2>3, <2>4, <2>5
<1>3. Promises => PromisesPersisted
  BY DEF Promises, Bounds, PromisesPersisted
<1>4. QED
  BY <1>1, <1>2, <1>3, TypeInit, TypeStep, PTL DEF ClockSpec
=============================================================================
