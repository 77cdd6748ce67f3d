---------------------------- MODULE WaitingProofs ----------------------------
(***************************************************************************)
(* The authentication pipe reports decisions faithfully, the timer pool    *)
(* hands out time.Timers that no tick of an earlier use can reach, and     *)
(* Group shares executions as Do promises, for any number of messages,     *)
(* users, time.Timers, callers and keys and of calls of Forget.            *)
(***************************************************************************)
EXTENDS SingleFlight, AuthPipe, TimerPool, FiniteSetTheorems, TLAPS

-----------------------------------------------------------------------------
(* AuthPipe *)

Writers == [pc : {"serving", "sending", "closing", "closed", "waiting", "ended"},
            then : {"ended", "waiting"}, sent : 0 .. MaxMessages,
            got : Decisions \cup {Undecided}]
AuthShape ==
  /\ writerDone \in [closed : BOOLEAN, isNil : BOOLEAN]
  /\ readerDone \in {<<>>} \cup {<<d>> : d \in Decisions}
  /\ writer \in Writers
  /\ reader \in [pc : {"checking", "asked", "getting", "reporting", "ended"},
                 done : {"none", "channel", "nil"}, asked : BOOLEAN, fed : BOOLEAN,
                 decision : Decisions \cup {Undecided}]

\* A decision is made once, and not "ok" for want of the data that was asked for;
\* only then is it in readerDone, or has the connection taken it from there.
OneDecision ==
  /\ reader.pc = "checking" => ~reader.asked
  /\ reader.pc \in {"checking", "asked", "getting"} => reader.decision = Undecided
  /\ reader.pc \in {"reporting", "ended"} => reader.decision \in Decisions
  /\ reader.decision = "ok" /\ reader.asked => reader.fed
  /\ readerDone # <<>> => reader.pc = "ended" /\ readerDone = <<reader.decision>>
  /\ writer.got # Undecided => reader.pc = "ended" /\ writer.got = reader.decision

\* The channel that the field refers to is closed only between the two steps of
\* noMorePwdData, and the field is nil only after both.
ClosedOnce ==
  /\ writerDone.closed => writerDone.isNil \/ writer.pc = "closed"
  /\ writerDone.isNil => writerDone.closed
  /\ writer.pc = "closed" => writerDone.closed /\ ~writerDone.isNil

AuthInv == AuthShape /\ OneDecision /\ ClosedOnce

\* A new pipe has no decision and is open.
LEMMA AuthInitInv == AuthInit => AuthInv
BY AuthAssumption DEF AuthInit, AuthInv, AuthShape, Writers, OneDecision, ClosedOnce, Decisions, Undecided

\* readerDone has room for one decision.
LEMMA DecisionTaken ==
  ASSUME AuthShape
  PROVE  /\ readerDone # <<>> => Tail(readerDone) = <<>> /\ readerDone = <<Head(readerDone)>>
                                 /\ Head(readerDone) \in Decisions
         /\ Len(readerDone) < 1 => readerDone = <<>>
<1>1. CASE readerDone = <<>>
  BY <1>1, Zenon
<1>2. ASSUME NEW d \in Decisions, readerDone = <<d>>
      PROVE  /\ readerDone # <<>> /\ Len(readerDone) = 1 /\ Head(readerDone) = d
             /\ Tail(readerDone) = <<>>
  BY <1>2
<1> QED
  BY <1>1, <1>2 DEF AuthShape, Writers

\* The connection goes on to noMorePwdData.
LEMMA WriterCloses ==
  ASSUME NEW w \in Writers, NEW then \in {"ended", "waiting"}
  PROVE  [w EXCEPT !.pc = "closing", !.then = then] \in Writers
<1> DEFINE one == [w EXCEPT !.pc = "closing"]
<1>1. one \in Writers
  BY Zenon DEF Writers
<1>2. [w EXCEPT !.pc = "closing", !.then = then] = [one EXCEPT !.then = then]
  BY Zenon DEF Writers
<1> HIDE DEF one
<1> QED
  BY <1>1, <1>2, Zenon DEF Writers

\* The fields of the two goroutines.
LEMMA AuthFields ==
  ASSUME AuthShape
  PROVE  /\ \A x : [writer EXCEPT !.pc = x].got = writer.got /\ [writer EXCEPT !.pc = x].pc = x
         /\ \A x, y : LET w == [writer EXCEPT !.pc = x, !.then = y] IN w.got = writer.got /\ w.pc = x
         /\ \A x, y : LET w == [writer EXCEPT !.pc = x, !.sent = y] IN w.got = writer.got /\ w.pc = x
         /\ \A x, y, z : LET w == [writer EXCEPT !.pc = x, !.then = y, !.got = z] IN w.got = z /\ w.pc = x
BY Zenon DEF AuthShape, Writers

\* Every step of the pipe preserves its invariant.
LEMMA AuthNextInv == AuthInv /\ [AuthNext]_authVars => AuthInv'
<1> SUFFICES ASSUME AuthInv, [AuthNext]_authVars PROVE AuthInv'
  BY Zenon
<1> USE AuthAssumption DEF AuthInv, Decisions, Undecided
<1>1. CASE SendPwdData
  <2>1. writer.sent + 1 \in 0 .. MaxMessages
    BY <1>1 DEF SendPwdData, AuthShape, Writers
  <2>2. AuthShape'
    BY <1>1, <2>1, ZenonT(60) DEF SendPwdData, AuthShape, Writers
  <2> QED
    BY <1>1, <2>2, AuthFields DEF SendPwdData, OneDecision, ClosedOnce
<1>2. CASE SendPwdDataFails
  <2>1. AuthShape'
    <3>1. readerDone' = <<>>
      BY <1>2, DecisionTaken, Zenon DEF SendPwdDataFails
    <3> QED
      BY <1>2, <3>1, WriterCloses, ZenonT(60) DEF SendPwdDataFails, AuthShape
  <2> QED
    BY <1>2, <2>1, AuthFields, DecisionTaken DEF SendPwdDataFails, OneDecision, ClosedOnce
<1>3. ASSUME NEW then \in {"ended", "waiting"}, Finishes(then) PROVE AuthInv'
  <2>1. AuthShape'
    <3>1. writer' = [writer EXCEPT !.pc = "closing", !.then = then]
          /\ UNCHANGED <<writerDone, readerDone, reader>>
      BY <1>3, Zenon DEF Finishes
    <3> QED
      BY <3>1, WriterCloses, ZenonT(60) DEF AuthShape
  <2> QED
    BY <1>3, <2>1, AuthFields DEF Finishes, OneDecision, ClosedOnce
<1>4. CASE NoMorePwdData
  <2>1. /\ writer' = [writer EXCEPT !.pc = IF writerDone.isNil THEN writer.then ELSE "closed"]
        /\ writerDone' = IF writerDone.isNil THEN writerDone ELSE [writerDone EXCEPT !.closed = TRUE]
        /\ UNCHANGED <<readerDone, reader>>
    BY <1>4, Zenon DEF NoMorePwdData, Closed
  <2>2. AuthShape'
    <3>1. (IF writerDone.isNil THEN writer.then ELSE "closed") \in {"ended", "waiting", "closed"}
      BY Zenon DEF AuthShape, Writers
    <3>2. writerDone' \in [closed : BOOLEAN, isNil : BOOLEAN]
      BY <2>1, ZenonT(60) DEF AuthShape, Writers
    <3> QED
      BY <2>1, <3>1, <3>2 DEF AuthShape, Writers
  <2>4. OneDecision'
    BY <2>1, AuthFields DEF OneDecision
  <2>3. ClosedOnce'
    BY <1>4, AuthFields DEF NoMorePwdData, Closed, ClosedOnce, AuthShape, Writers
  <2> QED
    BY <2>2, <2>3, <2>4, Zenon
<1>5. CASE NoMorePwdDataSetsNil
  <2>1. AuthShape'
    BY <1>5, ZenonT(60) DEF NoMorePwdDataSetsNil, AuthShape, Writers
  <2>2. OneDecision'
    BY <1>5, AuthFields, Zenon DEF NoMorePwdDataSetsNil, OneDecision
  <2>3. ClosedOnce'
    BY <1>5, AuthFields, Zenon DEF NoMorePwdDataSetsNil, ClosedOnce, AuthShape, Writers
  <2> QED
    BY <2>1, <2>2, <2>3, Zenon
<1>6. CASE AuthResultReturns
  <2>1. AuthShape'
    <3>1. readerDone' = <<>> /\ Head(readerDone) \in Decisions
      BY <1>6, DecisionTaken, Zenon DEF AuthResultReturns
    <3> QED
      BY <1>6, <3>1, ZenonT(60) DEF AuthResultReturns, AuthShape, Writers
  <2> QED
    BY <1>6, <2>1, AuthFields, DecisionTaken DEF AuthResultReturns, OneDecision, ClosedOnce
<1> USE DEF AuthShape, Writers, OneDecision, ClosedOnce
<1>7. CASE DecidesWithoutData
  <2>1. PICK d \in Decisions : reader' = [reader EXCEPT !.pc = "reporting", !.decision = d]
    BY <1>7, ZenonT(60) DEF DecidesWithoutData, Decides
  <2> QED
    BY <1>7, <2>1, ZenonT(60) DEF DecidesWithoutData
<1>8. CASE SendAuthRequest
  <2>1. CASE reader' = [reader EXCEPT !.pc = "asked", !.asked = TRUE]
    BY <1>8, <2>1, ZenonT(60) DEF SendAuthRequest
  <2>2. CASE reader' = [reader EXCEPT !.pc = "reporting", !.decision = "fail"]
    BY <1>8, <2>2, ZenonT(60) DEF SendAuthRequest
  <2> QED
    BY <1>8, <2>1, <2>2, Zenon DEF SendAuthRequest, Decides
<1>9. CASE GetPwdData
  BY <1>9, ZenonT(60) DEF GetPwdData
<1>10. CASE PwdDataPasses
  BY <1>10, ZenonT(60) DEF PwdDataPasses
<1>11. CASE GetPwdDataFails
  BY <1>11, ZenonT(60) DEF GetPwdDataFails, Decides, OnNoData
<1>12. CASE Report
  <2>1. readerDone = <<>> /\ reader.decision \in Decisions
    BY <1>12, DecisionTaken, Zenon DEF Report
  <2>2. readerDone' = <<reader.decision>>
    BY <1>12, <2>1 DEF Report, Reported
  <2> QED
    BY <1>12, <2>1, <2>2 DEF Report
<1>13. CASE UNCHANGED authVars
  BY <1>13 DEF authVars
<1> QED
  BY <1>1, <1>2, <1>3, <1>4, <1>5, <1>6, <1>7, <1>8, <1>9, <1>10, <1>11, <1>12, <1>13, ZenonT(60)
     DEF AuthNext, WriterStep, ReaderStep, ClientStep, AuthRests, Drops, AuthResult

\* The pipe's invariant always holds.
LEMMA AuthAlwaysInv == AuthSpec => []AuthInv
BY AuthInitInv, AuthNextInv, PTL DEF AuthSpec

\* AuthTypeOK: there is one decision in the pipe at most, and no more messages are
\* sent than the client has.
THEOREM AuthTypeCorrect == AuthSpec => []AuthTypeOK
<1>1. AuthInv => AuthTypeOK
  BY Zenon DEF AuthInv, AuthShape, Writers, AuthTypeOK
<1> QED
  BY <1>1, AuthAlwaysInv, PTL

\* AcceptedOnlyWithData: what authResult returns is the authenticator's decision,
\* and it is not "ok" when a password was asked for and none arrived.
THEOREM AcceptsOnlyWithData == AuthSpec => []AcceptedOnlyWithData
<1>1. AuthInv => AcceptedOnlyWithData
  BY Zenon DEF AuthInv, OneDecision, AcceptedOnlyWithData
<1> QED
  BY <1>1, AuthAlwaysInv, PTL

\* close of a closed channel panics: noMorePwdData, which is called again when the
\* connection ends, does not do that.
NoDoubleClose == writer.pc = "closing" /\ ~writerDone.isNil => ~writerDone.closed
\* NoDoubleClose holds in every behaviour of the pipe.
THEOREM NeverClosesTwice == AuthSpec => []NoDoubleClose
<1>1. AuthInv => NoDoubleClose
  BY Zenon DEF AuthInv, ClosedOnce, NoDoubleClose
<1> QED
  BY <1>1, AuthAlwaysInv, PTL

-----------------------------------------------------------------------------
(* TimerPool *)

TimerRecs(S) == [timer : S \cup {NoTimer}, read : BOOLEAN]
TimeTimers == [state : {"idle", "armed", "expiring"}, for : Nat, chan : {<<>>} \cup {<<n>> : n \in Nat}]
TimerShape ==
  /\ timer \in [TimerUser -> TimerRecs(Made)]
  /\ timerPC \in [TimerUser -> {"idle", "draining", "resetting"}]
  /\ arming \in [TimerUser -> Nat] /\ armings \in Nat
  /\ timers \in [Made -> TimeTimers] /\ Made \subseteq TimeTimer
  /\ timerPool \subseteq Made

\* A time.Timer has one user, or it is in the pool, or it was left to expire.
OneHolder ==
  /\ \A u, v \in TimerUser : timer[u].timer = timer[v].timer /\ timer[u].timer # NoTimer => u = v
  /\ \A u \in TimerUser : timer[u].timer \notin timerPool
  /\ \A u \in TimerUser : timerPC[u] # "idle" => timer[u].timer # NoTimer

\* Stopped, with nothing in its channel: it may be set again.
Quiet(x) == x.state = "idle" /\ x.chan = <<>>

\* What the time.Timer x of a Timer is like, whose user has come to at and set it for n.
\* As long as the tick was not read, it is in the channel or still to come.
HeldOK(x, read, at, n) ==
  /\ x.state \in {"armed", "expiring"} => x.chan = <<>>
  /\ at = "idle" => /\ x.state \in {"armed", "expiring"} => x.for = n
                    /\ x.chan # <<>> => x.chan = <<n>>
                    /\ read <=> Quiet(x)
  /\ at = "draining" => x.state # "armed" /\ ~Quiet(x)
  /\ at = "resetting" => Quiet(x)

TimerInv ==
  /\ TimerShape /\ OneHolder
  /\ \A x \in timerPool : Quiet(timers[x])
  /\ \A u \in TimerUser : timer[u].timer # NoTimer =>
       HeldOK(timers[timer[u].timer], timer[u].read, timerPC[u], arming[u])
  /\ \A u \in TimerUser : timer[u].timer = NoTimer => ~timer[u].read

\* The pool starts empty, and no Timer has a time.Timer.
LEMMA TimerInitInv == TimerInit => TimerInv
<1> SUFFICES ASSUME TimerInit PROVE TimerInv
  BY Zenon
<1>1. Made = {} /\ ZeroTimer \in TimerRecs({}) /\ ZeroTimer.timer = NoTimer /\ ~ZeroTimer.read
  BY Zenon DEF TimerInit, Made, ZeroTimer, TimerRecs
<1>2. \A u \in TimerUser : timer[u] = ZeroTimer /\ timerPC[u] = "idle"
  BY Zenon DEF TimerInit
<1>3. TimerShape
  BY <1>1, Zenon DEF TimerInit, TimerShape
<1> QED
  BY <1>1, <1>2, <1>3, Zenon DEF TimerInit, TimerInv, OneHolder

\* The fields of the Timers and the time.Timers.
LEMMA TimerFields ==
  ASSUME TimerShape
  PROVE  /\ \A u \in TimerUser : /\ timer[u] \in TimerRecs(Made)
                                 /\ timer[u].timer \in Made \cup {NoTimer}
                                 /\ timer[u].read \in BOOLEAN
                                 /\ timer[u] = [timer |-> timer[u].timer, read |-> timer[u].read]
         /\ \A x \in Made : /\ timers[x] \in TimeTimers /\ timers[x].for \in Nat
                            /\ timers[x].state \in {"idle", "armed", "expiring"}
                            /\ timers[x].chan \in {<<>>} \cup {<<n>> : n \in Nat}
                            /\ x \in TimeTimer /\ x # NoTimer
BY TimerAssumption, Zenon DEF TimerShape, TimerRecs, TimeTimers

\* The time.Timers when x is new, or not as it was.
Put(x, rec) == [y \in Made \cup {x} |-> IF y = x THEN rec ELSE timers[y]]

\* Values of the fields, for the provers.
LEMMA Literals ==
  /\ TRUE \in BOOLEAN /\ FALSE \in BOOLEAN
  /\ "idle" \in {"idle", "draining", "resetting"}
  /\ "resetting" \in {"idle", "draining", "resetting"}
BY Zenon

\* A user has x afterwards, which is as rec then.
Works(u, x, rec, r, pcu, n) ==
  /\ timers' = Put(x, rec)
  /\ timer' = [timer EXCEPT ![u] = [timer |-> x, read |-> r]]
  /\ timerPC' = [timerPC EXCEPT ![u] = pcu]
  /\ arming' = [arming EXCEPT ![u] = n]
  /\ timerPool' = timerPool \ {x} /\ armings' \in Nat

\* A user works on a time.Timer that is its own, or that nobody has.
LEMMA HolderStep ==
  ASSUME TimerInv, NEW u \in TimerUser, NEW x \in TimeTimer,
         x \notin Made \/ x \in timerPool \/ x = timer[u].timer,
         timer[u].timer \in {NoTimer, x},
         NEW rec \in TimeTimers, NEW r \in BOOLEAN,
         NEW pcu \in {"idle", "draining", "resetting"}, NEW n \in Nat,
         HeldOK(rec, r, pcu, n), Works(u, x, rec, r, pcu, n)
  PROVE  TimerInv'
<1> USE DEF Works
<1>1. TimerShape /\ x # NoTimer
  BY TimerAssumption, Zenon DEF TimerInv
<1>2. /\ \A v \in TimerUser :
           /\ timer'[v] = IF v = u THEN [timer |-> x, read |-> r] ELSE timer[v]
           /\ timerPC'[v] = IF v = u THEN pcu ELSE timerPC[v]
           /\ arming'[v] = IF v = u THEN n ELSE arming[v]
      /\ Made' = Made \cup {x}
      /\ \A y \in Made \cup {x} : timers'[y] = IF y = x THEN rec ELSE timers[y]
  BY <1>1, Zenon DEF TimerShape, Made, Put
<1>3. [timer |-> x, read |-> r].timer = x /\ [timer |-> x, read |-> r].read = r
  BY Zenon
<1>4. \A v \in TimerUser : v # u => timer[v].timer # x
  BY <1>1, TimerFields, ZenonT(60) DEF TimerInv, OneHolder
<1>5. TimerShape'
  <2>1. [timer |-> x, read |-> r] \in TimerRecs(Made')
    BY <1>2, Zenon DEF TimerRecs
  <2>2. \A v \in TimerUser : timer[v] \in TimerRecs(Made')
    BY <1>1, <1>2, TimerFields, ZenonT(60) DEF TimerRecs
  <2>3. timer' \in [TimerUser -> TimerRecs(Made')]
    BY <2>1, <2>2, <1>1, Zenon DEF TimerShape
  <2>4. timers' \in [Made' -> TimeTimers]
    BY <1>1, <1>2, Zenon DEF TimerShape, Put
  <2> QED
    BY <2>3, <2>4, <1>1, <1>2, ZenonT(60) DEF TimerShape
<1>6. OneHolder'
  BY <1>1, <1>2, <1>3, <1>4 DEF TimerInv, OneHolder
<1>7. \A y \in timerPool' : Quiet(timers'[y])
  BY <1>1, <1>2, Zenon DEF TimerInv, TimerShape
<1>8. ASSUME NEW v \in TimerUser, timer'[v].timer # NoTimer
      PROVE  HeldOK(timers'[timer'[v].timer], timer'[v].read, timerPC'[v], arming'[v])
  <2>1. CASE v = u
    BY <2>1, <1>2, <1>3
  <2>2. CASE v # u
    <3>1. timer'[v] = timer[v] /\ timers'[timer[v].timer] = timers[timer[v].timer]
          /\ timerPC'[v] = timerPC[v] /\ arming'[v] = arming[v]
      <4>1. timer'[v] = timer[v]
        BY <2>2, <1>2, Zenon
      <4>2. timer[v].timer \in Made
        BY <4>1, <1>8, <1>1, TimerFields, ZenonT(60)
      <4> QED
        BY <4>1, <4>2, <2>2, <1>2, <1>4, Zenon
    <3> QED
      BY <3>1, <1>8, Zenon DEF TimerInv
  <2> QED
    BY <2>1, <2>2, Zenon
<1>9. \A v \in TimerUser : timer'[v].timer = NoTimer => ~timer'[v].read
  BY <1>1, <1>2, <1>3 DEF TimerInv
<1> QED
  BY <1>5, <1>6, <1>7, <1>8, <1>9, Zenon DEF TimerInv

\* What stopping, draining and setting make of a time.Timer.
Stopped(x) == [x EXCEPT !.state = "idle"]
Drained(x) == [x EXCEPT !.chan = Tail(x.chan)]
LEMMA TimeTimerSteps ==
  ASSUME NEW x \in TimeTimers, NEW n \in Nat
  PROVE  /\ Stopped(x) \in TimeTimers /\ Stopped(x).state = "idle" /\ Stopped(x).chan = x.chan
         /\ x.chan # <<>> => /\ Drained(x) \in TimeTimers /\ Drained(x).state = x.state
                             /\ Drained(x).chan = <<>>
         /\ Armed(n, x.chan) \in TimeTimers /\ Armed(n, <<>>) \in TimeTimers
<1>1. Stopped(x) \in TimeTimers /\ Stopped(x).state = "idle" /\ Stopped(x).chan = x.chan
  BY Zenon DEF TimeTimers, Stopped
<1>2. ASSUME x.chan # <<>> PROVE Tail(x.chan) = <<>>
  <2>1. PICK k \in Nat : x.chan = <<k>>
    BY <1>2, Zenon DEF TimeTimers
  <2> QED
    BY <2>1
<1>3. x.chan # <<>> => /\ Drained(x) \in TimeTimers /\ Drained(x).state = x.state
                       /\ Drained(x).chan = <<>>
  BY <1>2, Zenon DEF TimeTimers, Drained
<1>4. Armed(n, x.chan) \in TimeTimers /\ Armed(n, <<>>) \in TimeTimers
  BY Zenon DEF Armed, TimeTimers
<1> QED
  BY <1>1, <1>3, <1>4, Zenon

\* A time.Timer that was just set for n, with nothing in its channel.
LEMMA ArmedOK ==
  ASSUME NEW n \in Nat, NEW chan, chan = <<>>
  PROVE  HeldOK(Armed(n, chan), FALSE, "idle", n)
BY Zenon DEF HeldOK, Armed, Quiet

\* Reset and reading change a Timer that has a time.Timer.
WorksOnOwn(u, x, rec, r, pcu, n) ==
  /\ timers' = [timers EXCEPT ![x] = rec]
  /\ timer' = [timer EXCEPT ![u] = [timer |-> x, read |-> r]]
  /\ timerPC' = [timerPC EXCEPT ![u] = pcu]
  /\ arming' = [arming EXCEPT ![u] = n]
  /\ timerPool' = timerPool /\ armings' \in Nat
LEMMA OwnStep ==
  ASSUME TimerInv, NEW u \in TimerUser, NEW x, x = timer[u].timer, x # NoTimer,
         NEW rec \in TimeTimers, NEW r \in BOOLEAN,
         NEW pcu \in {"idle", "draining", "resetting"}, NEW n \in Nat,
         HeldOK(rec, r, pcu, n), WorksOnOwn(u, x, rec, r, pcu, n)
  PROVE  TimerInv'
<1>1. TimerShape /\ x \in Made /\ x \in TimeTimer
  BY TimerFields, ZenonT(60) DEF TimerInv
<1>2. timers' = Put(x, rec)
  BY <1>1, ZenonT(60) DEF TimerShape, Put, WorksOnOwn
<1>3. timerPool' = timerPool \ {x}
  BY Zenon DEF TimerInv, OneHolder, WorksOnOwn
<1>4. Works(u, x, rec, r, pcu, n)
  BY <1>2, <1>3, Zenon DEF Works, WorksOnOwn
<1>5. /\ timer[u].timer \in {NoTimer, x}
      /\ x \notin Made \/ x \in timerPool \/ x = timer[u].timer
  BY Zenon
<1> QED
  BY <1>1, <1>4, <1>5, HolderStep, Zenon

\* What TimerInv says of a Timer that has a time.Timer.
LEMMA OwnFacts ==
  ASSUME TimerInv, NEW u \in TimerUser, NEW x, x = timer[u].timer, x # NoTimer
  PROVE  /\ TimerShape /\ x \in Made /\ timers[x] \in TimeTimers
         /\ timer[u].read \in BOOLEAN /\ arming[u] \in Nat /\ armings \in Nat
         /\ timerPC[u] \in {"idle", "draining", "resetting"}
         /\ HeldOK(timers[x], timer[u].read, timerPC[u], arming[u])
         /\ timer = [timer EXCEPT ![u] = [timer |-> x, read |-> timer[u].read]]
         /\ timerPC = [timerPC EXCEPT ![u] = timerPC[u]]
         /\ arming = [arming EXCEPT ![u] = arming[u]]
         /\ timers = [timers EXCEPT ![x] = timers[x]]
<1>1. TimerShape /\ x \in Made
  BY TimerFields, ZenonT(60) DEF TimerInv
<1>2. timer[u] = [timer |-> x, read |-> timer[u].read] /\ timer[u] \in TimerRecs(Made)
  BY <1>1, TimerFields, Zenon
<1>4. timer = [timer EXCEPT ![u] = [timer |-> x, read |-> timer[u].read]]
  BY <1>1, <1>2, Zenon DEF TimerShape
<1>5. /\ timerPC = [timerPC EXCEPT ![u] = timerPC[u]] /\ arming = [arming EXCEPT ![u] = arming[u]]
      /\ timers = [timers EXCEPT ![x] = timers[x]]
  BY <1>1, Zenon DEF TimerShape
<1>6. /\ timers[x] \in TimeTimers /\ timer[u].read \in BOOLEAN
      /\ arming[u] \in Nat /\ armings \in Nat /\ timerPC[u] \in {"idle", "draining", "resetting"}
  BY <1>1, TimerFields, Zenon DEF TimerShape
<1>7. HeldOK(timers[x], timer[u].read, timerPC[u], arming[u])
  BY Zenon DEF TimerInv
<1> QED
  BY <1>1, <1>4, <1>5, <1>6, <1>7, Zenon

\* Setting Read leaves the time.Timer.
WithRead(u, r) == [timer EXCEPT ![u].read = r]
LEMMA SetRead ==
  ASSUME TimerInv, NEW u \in TimerUser, NEW x, x = timer[u].timer, NEW r
  PROVE  WithRead(u, r) = [timer EXCEPT ![u] = [timer |-> x, read |-> r]]
<1>1. timer[u] = [timer |-> x, read |-> timer[u].read]
  BY TimerFields, Zenon DEF TimerInv
<1>2. [timer[u] EXCEPT !.read = r] = [timer |-> x, read |-> r]
  BY <1>1
<1>3. WithRead(u, r) = [timer EXCEPT ![u] = [timer[u] EXCEPT !.read = r]]
  BY Zenon DEF WithRead
<1> QED
  BY <1>2, <1>3, ZenonT(60)

\* Reset of a Timer that has none: the time.Timer is new, or the pool's.
LEMMA ResetFirstInv ==
  ASSUME TimerInv, NEW u \in TimerUser, NEW x \in TimeTimer,
         ResetNew(u, x) \/ ResetFromPool(u, x)
  PROVE  TimerInv'
<1> DEFINE n == armings + 1
           chan == IF x \in timerPool THEN timers[x].chan ELSE <<>>
<1>1. /\ TimerShape /\ n \in Nat /\ timer[u].timer = NoTimer /\ timer[u].read = FALSE
      /\ x \notin Made \/ x \in timerPool
  BY TimerFields DEF TimerInv, TimerShape, ResetNew, ResetFromPool
<1>2. chan = <<>>
  BY Zenon DEF TimerInv, Quiet
<1>3. Armed(n, chan) \in TimeTimers
  BY <1>1, <1>2, Zenon DEF Armed, TimeTimers
<1>4. HeldOK(Armed(n, chan), FALSE, "idle", n)
  BY <1>1, <1>2, ArmedOK, ZenonT(60)
<1>5. timer' = [timer EXCEPT ![u] = [timer |-> x, read |-> FALSE]]
  <2>1. timer' = [timer EXCEPT ![u] = [timer[u] EXCEPT !.timer = x]]
    BY Zenon DEF ResetNew, ResetFromPool
  <2>2. timer[u] = [timer |-> NoTimer, read |-> FALSE]
    BY <1>1, TimerFields, ZenonT(60)
  <2>3. ASSUME NEW r PROVE [[timer |-> NoTimer, read |-> r] EXCEPT !.timer = x] = [timer |-> x, read |-> r]
    OBVIOUS
  <2>4. [timer[u] EXCEPT !.timer = x] = [timer |-> x, read |-> FALSE]
    BY <2>2, <2>3, Zenon
  <2> QED
    BY <2>1, <2>4, Zenon
<1>6. armings' = n /\ arming' = [arming EXCEPT ![u] = n] /\ timerPC' = timerPC /\ timerPC[u] = "idle"
      /\ timerPC = [timerPC EXCEPT ![u] = "idle"]
  BY <1>1, Zenon DEF ResetNew, ResetFromPool, Counts, TimerShape
<1>7. timers' = Put(x, Armed(n, chan)) /\ timerPool' = timerPool \ {x}
  <2>1. CASE ResetNew(u, x)
    <3>1. x \notin timerPool /\ timerPool' = timerPool /\ armings' = n
      BY <2>1, <1>1, <1>6, Zenon DEF ResetNew, TimerShape
    <3> QED
      BY <2>1, <3>1, Zenon DEF ResetNew, Put
  <2>2. CASE ResetFromPool(u, x)
    <3>1. x \in timerPool /\ x \in Made
      BY <2>2, <1>1, Zenon DEF ResetFromPool, TimerShape
    <3>2. timers' = [timers EXCEPT ![x] = Armed(n, chan)]
      BY <2>2, <3>1, <1>6, Zenon DEF ResetFromPool
    <3>3. timers' = Put(x, Armed(n, chan))
      <4> DEFINE rec == Armed(n, chan)
      <4>1. timers' = [timers EXCEPT ![x] = rec] /\ timers \in [Made -> TimeTimers]
        BY <3>2, <1>1, Zenon DEF TimerShape
      <4> HIDE DEF rec
      <4>2. timers' = Put(x, rec)
        BY <4>1, <3>1, ZenonT(60) DEF Put
      <4> QED
        BY <4>2, Zenon DEF rec
    <3> QED
      BY <2>2, <3>3, ZenonT(60) DEF ResetFromPool
  <2> QED
    BY <2>1, <2>2, Zenon
<1> HIDE DEF n, chan
<1>8. Works(u, x, Armed(n, chan), FALSE, "idle", n)
  BY <1>1, <1>5, <1>6, <1>7, Zenon DEF Works
<1> QED
  BY <1>1, <1>3, <1>4, <1>8, HolderStep, ZenonT(60)

\* Reset of a Timer that has one stops it.
LEMMA ResetStopsInv ==
  ASSUME TimerInv, NEW u \in TimerUser, ResetStops(u)
  PROVE  TimerInv'
<1>1. PICK x : x = timer[u].timer /\ x # NoTimer
  BY Zenon DEF ResetStops
<1> DEFINE n == armings + 1
           r == timer[u].read
           armed == timers[x].state = "armed"
           rec == IF armed THEN Stopped(timers[x]) ELSE timers[x]
           pcu == IF ~armed /\ ~r THEN "draining" ELSE "resetting"
<1>2. /\ TimerShape /\ x \in Made /\ timers[x] \in TimeTimers /\ r \in BOOLEAN /\ n \in Nat
      /\ HeldOK(timers[x], r, "idle", arming[u])
      /\ timer = [timer EXCEPT ![u] = [timer |-> x, read |-> r]]
      /\ timers = [timers EXCEPT ![x] = timers[x]]
  BY <1>1, OwnFacts DEF ResetStops
<1>3. rec \in TimeTimers
  BY <1>2, TimeTimerSteps, Zenon
<1>4. HeldOK(rec, r, pcu, n)
  <2>1. CASE armed
    BY <2>1, <1>2, TimeTimerSteps, Zenon DEF HeldOK, Quiet
  <2>2. CASE ~armed
    BY <2>2, <1>2, Zenon DEF HeldOK, Quiet
  <2> QED
    BY <2>1, <2>2, Zenon
<1>5. WorksOnOwn(u, x, rec, r, pcu, n)
  <2>1. timers' = [timers EXCEPT ![x] = rec]
    BY <1>1, <1>2, ZenonT(60) DEF ResetStops, Stopped
  <2>2. timerPC' = [timerPC EXCEPT ![u] = pcu] /\ timer' = timer /\ timerPool' = timerPool
        /\ armings' = n /\ arming' = [arming EXCEPT ![u] = n]
    BY <1>1, Zenon DEF ResetStops, Drains, Counts
  <2> QED
    BY <2>1, <2>2, <1>2, Zenon DEF WorksOnOwn
<1>6. pcu \in {"idle", "draining", "resetting"}
  BY Zenon
<1> HIDE DEF n, r, rec, pcu
<1> QED
  BY <1>1, <1>2, <1>3, <1>4, <1>5, <1>6, OwnStep

\* Reset drains the channel of a time.Timer that expired.
LEMMA ResetDrainsInv ==
  ASSUME TimerInv, NEW u \in TimerUser, ResetDrains(u)
  PROVE  TimerInv'
<1>1. PICK x : x = timer[u].timer /\ x # NoTimer
  BY Zenon DEF ResetDrains, TimerInv, OneHolder
<1> DEFINE n == arming[u]
           r == timer[u].read
           rec == Drained(timers[x])
<1>2. /\ TimerShape /\ x \in Made /\ timers[x] \in TimeTimers /\ r \in BOOLEAN /\ n \in Nat
      /\ armings \in Nat /\ HeldOK(timers[x], r, "draining", n) /\ timers[x].chan # <<>>
      /\ timer = [timer EXCEPT ![u] = [timer |-> x, read |-> r]]
      /\ arming = [arming EXCEPT ![u] = n]
  BY <1>1, OwnFacts DEF ResetDrains
<1>3. rec \in TimeTimers /\ rec.chan = <<>> /\ rec.state = timers[x].state
  BY <1>2, TimeTimerSteps, Zenon
<1>4. HeldOK(rec, r, "resetting", n)
  BY <1>2, <1>3, Zenon DEF HeldOK, Quiet, TimeTimers
<1>5. WorksOnOwn(u, x, rec, r, "resetting", n)
  <2>1. timers' = [timers EXCEPT ![x] = rec]
    BY <1>1, Zenon DEF ResetDrains, Drained
  <2> QED
    BY <2>1, <1>2, ZenonT(60) DEF WorksOnOwn, ResetDrains
<1> HIDE DEF n, r, rec
<1> QED
  BY <1>1, <1>2, <1>3, <1>4, <1>5, OwnStep

\* Reset sets the time.Timer, which is quiet.
LEMMA ResetArmsInv ==
  ASSUME TimerInv, NEW u \in TimerUser, ResetArms(u)
  PROVE  TimerInv'
<1>1. PICK x : x = timer[u].timer /\ x # NoTimer
  BY Zenon DEF ResetArms, TimerInv, OneHolder
<1> DEFINE n == arming[u]
           rec == Armed(n, timers[x].chan)
<1>2. /\ TimerShape /\ x \in Made /\ timers[x] \in TimeTimers /\ n \in Nat /\ armings \in Nat
      /\ HeldOK(timers[x], timer[u].read, "resetting", n)
      /\ arming = [arming EXCEPT ![u] = n]
  BY <1>1, OwnFacts DEF ResetArms
<1>6. timer' = [timer EXCEPT ![u] = [timer |-> x, read |-> FALSE]]
  <2>1. timer' = WithRead(u, FALSE)
    BY Zenon DEF ResetArms, WithRead
  <2>2. \A r : WithRead(u, r) = [timer EXCEPT ![u] = [timer |-> x, read |-> r]]
    BY <1>1, SetRead
  <2> QED
    BY <2>1, <2>2, Zenon
<1>3. rec \in TimeTimers /\ timers[x].chan = <<>>
  BY <1>2, TimeTimerSteps, ZenonT(60) DEF HeldOK, Quiet
<1>4. HeldOK(rec, FALSE, "idle", n)
  BY <1>2, <1>3, ArmedOK, ZenonT(60)
<1>5. WorksOnOwn(u, x, rec, FALSE, "idle", n)
  BY <1>1, <1>2, <1>6, ZenonT(60) DEF WorksOnOwn, ResetArms
<1> HIDE DEF n, rec
<1> QED
  BY <1>1, <1>2, <1>3, <1>4, <1>5, Literals, OwnStep, Zenon

\* The user reads the tick, and sets Read.
LEMMA ReadsTickInv ==
  ASSUME TimerInv, NEW u \in TimerUser, ReadsTick(u)
  PROVE  TimerInv'
<1>1. PICK x : x = timer[u].timer /\ x # NoTimer
  BY Zenon DEF ReadsTick
<1> DEFINE n == arming[u]
           rec == Drained(timers[x])
<1>2. /\ TimerShape /\ x \in Made /\ timers[x] \in TimeTimers /\ n \in Nat /\ armings \in Nat
      /\ HeldOK(timers[x], timer[u].read, "idle", n) /\ timers[x].chan # <<>>
      /\ arming = [arming EXCEPT ![u] = n]
      /\ timerPC = [timerPC EXCEPT ![u] = "idle"]
  BY <1>1, OwnFacts DEF ReadsTick
<1>6. timer' = [timer EXCEPT ![u] = [timer |-> x, read |-> TRUE]]
  <2>1. timer' = WithRead(u, TRUE)
    BY Zenon DEF ReadsTick, WithRead
  <2>2. \A r : WithRead(u, r) = [timer EXCEPT ![u] = [timer |-> x, read |-> r]]
    BY <1>1, SetRead
  <2> QED
    BY <2>1, <2>2, Zenon
<1>3. rec \in TimeTimers /\ rec.chan = <<>> /\ rec.state = timers[x].state
  BY <1>2, TimeTimerSteps, Zenon
<1>4. HeldOK(rec, TRUE, "idle", n)
  BY <1>2, <1>3, Zenon DEF HeldOK, Quiet, TimeTimers
<1>5. WorksOnOwn(u, x, rec, TRUE, "idle", n)
  <2>1. timers' = [timers EXCEPT ![x] = rec]
    BY <1>1, Zenon DEF ReadsTick, Drained
  <2> QED
    BY <2>1, <1>2, <1>6, ZenonT(60) DEF WorksOnOwn, ReadsTick
<1> HIDE DEF n, rec
<1> QED
  BY <1>1, <1>2, <1>3, <1>4, <1>5, Literals, OwnStep, Zenon

\* Nothing happens.
LEMMA TimerUnchanged ==
  ASSUME TimerInv, UNCHANGED timerVars
  PROVE  TimerInv'
<1>1. UNCHANGED <<timer, timerPC, arming, timers, timerPool, armings>> /\ Made' = Made
  BY Zenon DEF timerVars, Made
<1>2. TimerShape' /\ OneHolder'
  BY <1>1, Zenon DEF TimerInv, TimerShape, OneHolder
<1> QED
  BY <1>1, <1>2, Zenon DEF TimerInv

\* Stop: the time.Timer is left to expire, or it is quiet and goes to the pool.
LEMMA StopTimerInv ==
  ASSUME TimerInv, NEW u \in TimerUser, StopTimer(u)
  PROVE  TimerInv'
<1>1. TimerShape /\ timer' = [timer EXCEPT ![u] = ZeroTimer] /\ UNCHANGED <<timerPC, arming, armings>>
      /\ ZeroTimer = [timer |-> NoTimer, read |-> FALSE]
      /\ ZeroTimer.timer = NoTimer /\ ~ZeroTimer.read /\ timerPC[u] = "idle"
  BY Zenon DEF StopTimer, TimerInv, ZeroTimer
<1>2. \A v \in TimerUser : timer'[v] = IF v = u THEN ZeroTimer ELSE timer[v]
  BY <1>1, Zenon DEF TimerShape
<1>3. timer' \in [TimerUser -> TimerRecs(Made)]
  <2>1. ZeroTimer \in TimerRecs(Made)
    BY <1>1, Zenon DEF TimerRecs
  <2> QED
    BY <2>1, <1>1, Zenon DEF TimerShape
<1>4. CASE timer[u].timer = NoTimer
  <2>1. UNCHANGED <<timers, timerPool>>
    BY <1>4, Zenon DEF StopTimer
  <2>2. timer[u] = ZeroTimer
    <3>1. timer[u] = [timer |-> NoTimer, read |-> timer[u].read] /\ ~timer[u].read
          /\ timer[u].read \in BOOLEAN
      BY <1>1, <1>4, TimerFields, Zenon DEF TimerInv
    <3> QED
      BY <1>1, <3>1, Zenon
  <2>3. timer' = timer
    BY <2>2, <1>1, Zenon DEF TimerShape
  <2>4. UNCHANGED timerVars
    BY <2>1, <2>3, <1>1, Zenon DEF timerVars
  <2> QED
    BY <2>4, TimerUnchanged, Zenon
<1>5. CASE timer[u].timer # NoTimer
  <2>1. PICK x : x = timer[u].timer
    BY Zenon
  <2> DEFINE armed == timers[x].state = "armed"
             rec == IF armed THEN Stopped(timers[x]) ELSE timers[x]
  <2>2. x \in Made /\ timers[x] \in TimeTimers /\ x # NoTimer
    BY <2>1, <1>1, <1>5, TimerFields, ZenonT(60)
  <2>3. timerPool' = IF armed THEN timerPool \cup {x} ELSE timerPool
    BY <2>1, <1>5, Zenon DEF StopTimer, GoesToPool
  <2>4. timers' = [timers EXCEPT ![x] = rec]
    BY <2>1, <2>2, <1>1, <1>5, Zenon DEF StopTimer, Stopped, TimerShape
  <2>5. rec \in TimeTimers /\ (armed => Quiet(rec))
    <3>1. armed => timers[x].chan = <<>>
      BY <2>1, <1>5, ZenonT(60) DEF TimerInv, HeldOK
    <3> QED
      BY <3>1, <2>2, TimeTimerSteps, Zenon DEF Quiet
  <2> HIDE DEF armed, rec
  <2>6. Made' = Made /\ \A y \in Made : timers'[y] = IF y = x THEN rec ELSE timers[y]
    BY <2>4, <1>1, Zenon DEF TimerShape, Made
  <2>7. \A v \in TimerUser : v # u => timer[v].timer # x
    BY <2>1, <2>2, Zenon DEF TimerInv, OneHolder
  <2>8. TimerShape'
    BY <2>2, <2>3, <2>4, <2>5, <2>6, <1>1, <1>3, Zenon DEF TimerShape
  <2>9. OneHolder'
    <3>1. NoTimer \notin timerPool'
      BY <2>2, <2>3, <1>1, TimerFields, Zenon DEF TimerShape
    <3> QED
      BY <3>1, <2>3, <2>7, <1>1, <1>2 DEF TimerInv, OneHolder
  <2>10. \A y \in timerPool' : Quiet(timers'[y])
    <3>1. timerPool \subseteq Made /\ x \notin timerPool /\ \A y \in timerPool : Quiet(timers[y])
      BY <2>1, <1>1, Zenon DEF TimerInv, OneHolder, TimerShape
    <3> QED
      BY <3>1, <2>2, <2>3, <2>5, <2>6, Zenon
  <2>11. ASSUME NEW v \in TimerUser, timer'[v].timer # NoTimer
         PROVE  HeldOK(timers'[timer'[v].timer], timer'[v].read, timerPC'[v], arming'[v])
    <3>1. timer'[v] = timer[v] /\ timers'[timer[v].timer] = timers[timer[v].timer]
          /\ timerPC'[v] = timerPC[v] /\ arming'[v] = arming[v]
      <4>1. v # u /\ timer[v].timer \in Made
        <5>1. v # u /\ timer[v].timer # NoTimer
          BY <2>11, <1>1, <1>2, Zenon
        <5> QED
          BY <5>1, <1>1, TimerFields, ZenonT(60)
      <4> QED
        BY <4>1, <1>1, <1>2, <2>6, <2>7, Zenon
    <3> QED
      BY <3>1, <2>11, ZenonT(60) DEF TimerInv
  <2>12. \A v \in TimerUser : timer'[v].timer = NoTimer => ~timer'[v].read
    BY <1>1, <1>2 DEF TimerInv
  <2> QED
    BY <2>8, <2>9, <2>10, <2>11, <2>12, Zenon DEF TimerInv
<1> QED
  BY <1>4, <1>5, Zenon

\* A time.Timer expires, and then sends.  Those of the pool do neither.
LEMMA RuntimeInv ==
  ASSUME TimerInv, NEW x \in TimeTimer, RuntimeStep(x)
  PROVE  TimerInv'
<1>1. TimerShape /\ x \in Made /\ timers[x] \in TimeTimers /\ x \notin timerPool
      /\ UNCHANGED <<timer, timerPC, arming, timerPool, armings>>
  BY TimerFields, Zenon DEF TimerInv, RuntimeStep, Expires, Sends, Quiet
<1>2. PICK rec : /\ rec \in TimeTimers /\ timers' = [timers EXCEPT ![x] = rec]
                 /\ \A r, pcu, n : HeldOK(timers[x], r, pcu, n) => HeldOK(rec, r, pcu, n)
  <2>1. CASE Expires(x)
    <3> DEFINE rec == [timers[x] EXCEPT !.state = "expiring"]
    <3>1. rec \in TimeTimers /\ rec.state = "expiring" /\ rec.for = timers[x].for
          /\ rec.chan = timers[x].chan /\ timers[x].state = "armed"
      BY <2>1, <1>1, Zenon DEF TimeTimers, Expires
    <3>2. timers' = [timers EXCEPT ![x] = rec]
      BY <2>1, Zenon DEF Expires
    <3> HIDE DEF rec
    <3>3. \A r, pcu, n : HeldOK(timers[x], r, pcu, n) => HeldOK(rec, r, pcu, n)
      BY <3>1, Zenon DEF HeldOK, Quiet
    <3> QED
      BY <3>1, <3>2, <3>3, Zenon
  <2>2. CASE Sends(x)
    <3> DEFINE c == IF timers[x].chan = <<>> THEN <<timers[x].for>> ELSE timers[x].chan
               rec == [timers[x] EXCEPT !.state = "idle", !.chan = c]
    <3>1. c \in {<<>>} \cup {<<n>> : n \in Nat}
      BY <1>1, Zenon DEF TimeTimers
    <3>2. timers' = [timers EXCEPT ![x] = rec]
      BY <2>2, ZenonT(60) DEF Sends
    <3>3. <<timers[x].for>> # <<>>
      BY Zenon
    <3>4. timers[x].chan = <<>> => c = <<timers[x].for>>
      BY Zenon
    <3> HIDE DEF c
    <3>5. rec \in TimeTimers /\ rec.state = "idle" /\ rec.for = timers[x].for /\ rec.chan = c
          /\ timers[x].state = "expiring"
      BY <2>2, <3>1, <1>1, ZenonT(60) DEF TimeTimers, Sends
    <3> HIDE DEF rec
    <3>6. \A r, pcu, n : HeldOK(timers[x], r, pcu, n) => HeldOK(rec, r, pcu, n)
      BY <3>3, <3>4, <3>5, ZenonT(60) DEF HeldOK, Quiet
    <3> QED
      BY <3>2, <3>5, <3>6, Zenon
  <2> QED
    BY <2>1, <2>2, Zenon DEF RuntimeStep
<1>3. Made' = Made /\ timers' \in [Made -> TimeTimers]
      /\ \A y \in Made : timers'[y] = IF y = x THEN rec ELSE timers[y]
  BY <1>1, <1>2, Zenon DEF TimerShape, Made
<1>4. TimerShape' /\ OneHolder'
  BY <1>1, <1>3, Zenon DEF TimerInv, TimerShape, OneHolder
<1>5. \A y \in timerPool' : Quiet(timers'[y])
  BY <1>1, <1>3, Zenon DEF TimerInv, TimerShape
<1>6. ASSUME NEW v \in TimerUser, timer[v].timer # NoTimer
      PROVE  HeldOK(timers'[timer[v].timer], timer[v].read, timerPC[v], arming[v])
  <2>1. timer[v].timer \in Made /\ HeldOK(timers[timer[v].timer], timer[v].read, timerPC[v], arming[v])
    BY <1>6, <1>1, TimerFields, ZenonT(60) DEF TimerInv
  <2> QED
    BY <2>1, <1>2, <1>3, ZenonT(60)
<1>7. \A v \in TimerUser : timer[v].timer = NoTimer => ~timer[v].read
  BY Zenon DEF TimerInv
<1> QED
  BY <1>1, <1>4, <1>5, <1>6, <1>7, ZenonT(60) DEF TimerInv

\* The pool loses a time.Timer.
LEMMA PoolLosesInv ==
  ASSUME TimerInv, NEW x \in TimeTimer, PoolLoses(x)
  PROVE  TimerInv'
BY Zenon DEF PoolLoses, TimerInv, TimerShape, OneHolder, Made

\* Every step of the users, the runtime and the pool preserves TimerInv.
LEMMA TimerNextInv == TimerInv /\ [TimerNext]_timerVars => TimerInv'
<1> SUFFICES ASSUME TimerInv, [TimerNext]_timerVars PROVE TimerInv'
  BY Zenon
<1>1. ASSUME NEW u \in TimerUser, UserStep(u) PROVE TimerInv'
  BY <1>1, ResetFirstInv, ResetStopsInv, ResetDrainsInv, ResetArmsInv, StopTimerInv, ReadsTickInv, Zenon
     DEF UserStep, ResetStep
<1>2. ASSUME NEW x \in TimeTimer, RuntimeStep(x) \/ PoolLoses(x) PROVE TimerInv'
  BY <1>2, RuntimeInv, PoolLosesInv, Zenon
<1>3. CASE UNCHANGED timerVars
  BY <1>3, TimerUnchanged, Zenon
<1> QED
  BY <1>1, <1>2, <1>3, Zenon DEF TimerNext

\* TimerInv always holds.
LEMMA TimerAlwaysInv == TimerSpec => []TimerInv
BY TimerInitInv, TimerNextInv, PTL DEF TimerSpec

\* TimerTypeOK: the channel of a time.Timer has one tick at most, and users and the
\* pool have time.Timers that were made.
THEOREM TimerTypeCorrect == TimerSpec => []TimerTypeOK
<1>1. TimerInv => TimerTypeOK
  <2> SUFFICES ASSUME TimerInv PROVE TimerTypeOK
    BY Zenon
  <2>1. TimerShape
    BY Zenon DEF TimerInv
  <2>2. ASSUME NEW x \in Made PROVE Len(timers[x].chan) \in 0 .. 1
    <3>1. CASE timers[x].chan = <<>>
      BY <3>1
    <3>2. ASSUME NEW n \in Nat, timers[x].chan = <<n>> PROVE Len(timers[x].chan) \in 0 .. 1
      BY <3>2
    <3> QED
      BY <2>1, <3>1, <3>2, TimerFields, Zenon
  <2> QED
    BY <2>1, <2>2, TimerFields, Zenon DEF TimerShape, TimerTypeOK, TimerRecs
<1> QED
  BY <1>1, TimerAlwaysInv, PTL

\* TicksAreCurrent: a user sees no tick of an earlier Reset, its own or that of a
\* user that had the time.Timer before.
THEOREM OnlyCurrentTicks == TimerSpec => []TicksAreCurrent
<1>1. TimerInv => TicksAreCurrent
  <2> SUFFICES ASSUME TimerInv, NEW u \in TimerUser, timer[u].timer # NoTimer, timerPC[u] = "idle",
                      NEW x, x = timers[timer[u].timer]
               PROVE  /\ x.state \in {"armed", "expiring"} => x.for = arming[u]
                      /\ x.chan # <<>> => Head(x.chan) = arming[u]
    BY Zenon DEF TicksAreCurrent
  <2>1. /\ x.state \in {"armed", "expiring"} => x.for = arming[u]
        /\ x.chan # <<>> => x.chan = <<arming[u]>>
    BY Zenon DEF TimerInv, HeldOK
  <2> QED
    BY <2>1
<1> QED
  BY <1>1, TimerAlwaysInv, PTL

\* What ResetReturns rests on: a Reset that waits for the channel has a tick there,
\* or the time.Timer is about to send one; one that goes on to set the time.Timer
\* leaves nothing in the channel.
ResetNotStuck ==
  \A u \in TimerUser :
    LET x == timers[timer[u].timer] IN
      /\ timerPC[u] = "draining" => x.chan # <<>> \/ x.state = "expiring"
      /\ timerPC[u] = "resetting" => x.chan = <<>> /\ x.state = "idle"
\* ResetNotStuck holds in every behaviour of the pool.
THEOREM ResetNeverStuck == TimerSpec => []ResetNotStuck
<1>1. TimerInv => ResetNotStuck
  <2> SUFFICES ASSUME TimerInv, NEW u \in TimerUser, NEW x, x = timers[timer[u].timer],
                      timerPC[u] \in {"draining", "resetting"}
               PROVE  /\ timerPC[u] = "draining" => x.chan # <<>> \/ x.state = "expiring"
                      /\ timerPC[u] = "resetting" => x.chan = <<>> /\ x.state = "idle"
    BY Zenon DEF ResetNotStuck
  <2>1. timer[u].timer # NoTimer
    BY Zenon DEF TimerInv, OneHolder
  <2>2. x.state \in {"idle", "armed", "expiring"} /\ HeldOK(x, timer[u].read, timerPC[u], arming[u])
    BY <2>1, TimerFields, ZenonT(60) DEF TimerInv
  <2> QED
    BY <2>2, Zenon DEF HeldOK, Quiet
<1> QED
  BY <1>1, TimerAlwaysInv, PTL

-----------------------------------------------------------------------------
(* SingleFlight *)

Phases == {"running", "done", "finished"}
CallStructs == [key : Key, phase : Phases, dups : Nat, chans : SUBSET Proc,
                forgotten : BOOLEAN]
States == {"idle", "lead", "wait", "chan", "returned"}

\* The shape of the state.
Shape ==
  /\ calls \in Seq(CallStructs)
  /\ m \in [Key -> 0 .. Len(calls)]
  /\ pc \in [Proc -> States]
  /\ joined \in [Proc -> 0 .. Len(calls)]
  /\ result \in [Proc -> [val : 0 .. Len(calls), shared : BOOLEAN]]
  /\ forgets \in Nat

\* The map has calls of its keys that are not finished, so that nobody joins a
\* finished call.
MapIsLive ==
  \A k \in Key : m[k] # NoCall => calls[m[k]].key = k /\ calls[m[k]].phase # "finished"

\* dups counts the callers of a call but the one that made it.
DupsCount ==
  /\ \A p \in Proc : pc[p] = "idle" <=> joined[p] = NoCall
  /\ \A c \in DOMAIN calls : Cardinality(Callers(c)) = calls[c].dups + 1

\* The channels of a call are those of its callers that wait for one.
ChansWait ==
  /\ \A c \in DOMAIN calls : \A p \in calls[c].chans :
       joined[p] = c /\ (calls[c].phase # "finished" => pc[p] = "chan")
  /\ \A p \in Proc : pc[p] = "chan" => /\ p \in calls[joined[p]].chans
                                       /\ calls[joined[p]].phase # "finished"

\* A caller that waits for the group is a duplicate.  One that has returned was
\* told about the duplicates, and either one was there by then, or none can come.
ToldAboutDups ==
  /\ \A p \in Proc : pc[p] = "wait" => Shared(calls[joined[p]])
  /\ \A p \in Proc : pc[p] = "returned" =>
       /\ result[p].val = joined[p]
       /\ result[p].shared <=> Shared(calls[joined[p]])
       /\ Shared(calls[joined[p]]) \/ calls[joined[p]].phase = "finished"

\* A call that is not finished is in the map, unless Forget was called for its key.
NeverForgotten(k) == \A c \in DOMAIN calls : calls[c].key = k => ~calls[c].forgotten
InMapUntilForgotten ==
  \A c \in DOMAIN calls :
    calls[c].phase # "finished" /\ NeverForgotten(calls[c].key) => m[calls[c].key] = c

Inv == Shape /\ MapIsLive /\ DupsCount /\ ChansWait /\ ToldAboutDups /\ InMapUntilForgotten

-----------------------------------------------------------------------------
(* Callers *)

\* The callers of a call can be counted.
LEMMA CallersFinite ==
  ASSUME NEW c
  PROVE  IsFiniteSet(Callers(c)) /\ Cardinality(Callers(c)) \in Nat
         /\ Cardinality(Callers(c)) <= Cardinality(Proc) /\ Cardinality(Proc) \in Nat
<1>1. Callers(c) \in SUBSET Proc
  BY Zenon DEF Callers
<1>2. IsFiniteSet(Callers(c)) /\ Cardinality(Callers(c)) <= Cardinality(Proc)
  BY <1>1, FS_Subset, SingleFlightAssumption, Zenon
<1> QED
  BY <1>2, FS_CardinalityType, SingleFlightAssumption, Zenon

\* A caller that starts adds itself to the callers of one call.
LEMMA CallersJoin ==
  ASSUME Shape, NEW p \in Proc, NEW c, joined[p] # c, joined' = [joined EXCEPT ![p] = c]
  PROVE  /\ Cardinality(Callers(c)') = Cardinality(Callers(c)) + 1
         /\ \A d : d # c /\ joined[p] # d => Callers(d)' = Callers(d)
<1>1. Callers(c)' = Callers(c) \cup {p} /\ p \notin Callers(c)
  BY Zenon DEF Callers, Shape
<1>2. Cardinality(Callers(c) \cup {p}) = Cardinality(Callers(c)) + 1
  BY <1>1, CallersFinite, FS_AddElement, Zenon
<1>3. ASSUME NEW d, d # c, joined[p] # d PROVE Callers(d)' = Callers(d)
  BY <1>3, Zenon DEF Callers, Shape
<1> QED
  BY <1>1, <1>2, <1>3, Zenon

\* Callers that join nothing leave the counts as they are.
LEMMA CallersUnchanged ==
  ASSUME UNCHANGED joined
  PROVE  \A c : Callers(c)' = Callers(c)
BY Zenon DEF Callers

\* The fields of a call.
LEMMA CallFields ==
  ASSUME Shape, NEW c \in DOMAIN calls
  PROVE  /\ calls[c] \in CallStructs /\ calls[c].key \in Key /\ calls[c].phase \in Phases
         /\ calls[c].dups \in Nat /\ calls[c].chans \in SUBSET Proc
         /\ calls[c].forgotten \in BOOLEAN
<1>1. calls[c] \in CallStructs
  BY DEF Shape
<1> QED
  BY <1>1, Zenon DEF CallStructs

\* A call that one more caller joins.
JoinedBy(call, chans) ==
  [call EXCEPT !.dups = call.dups + 1, !.chans = call.chans \cup chans]
LEMMA JoinedCall ==
  ASSUME NEW call \in CallStructs, NEW chans \in SUBSET Proc, NEW new, new = JoinedBy(call, chans)
  PROVE  /\ new \in CallStructs /\ new.key = call.key /\ new.phase = call.phase
         /\ new.dups = call.dups + 1 /\ new.chans = call.chans \cup chans
         /\ new.forgotten = call.forgotten
<1>1. call.dups + 1 \in Nat /\ call.chans \cup chans \in SUBSET Proc
  BY DEF CallStructs
<1> DEFINE one == [call EXCEPT !.dups = call.dups + 1]
<1>2. one \in CallStructs /\ one.dups = call.dups + 1 /\ one.chans = call.chans
      /\ one.key = call.key /\ one.phase = call.phase /\ one.forgotten = call.forgotten
  BY <1>1, Zenon DEF CallStructs
<1>3. new = [one EXCEPT !.chans = call.chans \cup chans]
  BY Zenon DEF CallStructs, JoinedBy
<1> HIDE DEF one
<1> QED
  BY <1>1, <1>2, <1>3, Zenon DEF CallStructs

-----------------------------------------------------------------------------
(* Inv is inductive *)

\* The group starts with no call.
LEMMA InitInv == Init => Inv
<1> SUFFICES ASSUME Init PROVE Inv
  BY Zenon
<1>1. DOMAIN calls = {} /\ Len(calls) = 0
  BY DEF Init
<1>2. Shape
  BY <1>1 DEF Init, Shape, NoCall, NoResult, States
<1> QED
  BY <1>1, <1>2, Zenon DEF Init, Inv, MapIsLive, DupsCount, ChansWait, ToldAboutDups,
     InMapUntilForgotten, NoCall

\* Do and DoChan of a key that has no call.
LEMMA LeadInv ==
  ASSUME Inv, NEW p \in Proc, NEW k \in Key, NEW next \in {"lead", "chan"},
         NEW chans \in SUBSET Proc, chans = (IF next = "chan" THEN {p} ELSE {}),
         Lead(p, k, next, chans)
  PROVE  Inv'
<1> DEFINE n == Len(calls) + 1
           new == NewCall(k, chans)
<1>1. Shape /\ Len(calls) \in Nat /\ n \in Nat /\ DOMAIN calls = 1 .. Len(calls)
  BY DEF Inv, Shape
<1>2. new \in CallStructs /\ new.key = k /\ new.phase = "running" /\ new.dups = 0
      /\ new.chans = chans /\ new.forgotten = FALSE
  BY Zenon DEF NewCall, CallStructs, Phases
<1>3. calls' = Append(calls, new)
  BY Zenon DEF Lead
<1>4. Len(calls') = n /\ calls' \in Seq(CallStructs) /\ DOMAIN calls' = 1 .. n
      /\ calls'[n] = new /\ \A c \in DOMAIN calls : calls'[c] = calls[c]
  BY <1>1, <1>2, <1>3 DEF Shape
<1>5. /\ m' = [m EXCEPT ![k] = n] /\ joined' = [joined EXCEPT ![p] = n]
      /\ pc' = [pc EXCEPT ![p] = next] /\ result' = result /\ forgets' = forgets
      /\ pc[p] = "idle" /\ m[k] = NoCall
  BY <1>4, Zenon DEF Lead, Stored
<1> HIDE DEF n, new
<1>6. joined[p] = NoCall
  BY <1>5, Zenon DEF Inv, DupsCount
<1>7. n \notin 0 .. Len(calls) /\ n # NoCall /\ DOMAIN calls' = DOMAIN calls \cup {n}
      /\ 0 .. Len(calls) = DOMAIN calls \cup {NoCall} /\ NoCall \notin DOMAIN calls
  BY <1>1, <1>4 DEF n, NoCall
<1>8. /\ \A j \in Key : /\ m'[j] = IF j = k THEN n ELSE m[j]
                        /\ m[j] \in DOMAIN calls \cup {NoCall}
      /\ \A q \in Proc : /\ joined'[q] = IF q = p THEN n ELSE joined[q]
                         /\ pc'[q] = IF q = p THEN next ELSE pc[q]
                         /\ joined[q] \in DOMAIN calls \cup {NoCall}
  BY <1>1, <1>5, <1>7, Zenon DEF Shape
<1>9. Shape'
  BY <1>1, <1>4, <1>5 DEF Shape, States, n
<1>10. MapIsLive'
  BY <1>2, <1>4, <1>7, <1>8 DEF Inv, MapIsLive
<1>11. DupsCount'
  <2>1. ASSUME NEW c, c = n PROVE Cardinality(Callers(c)') = 1
    <3>1. Callers(c)' = {p}
      BY <2>1, <1>7, <1>8, Zenon DEF Callers
    <3> QED
      BY <3>1, FS_Singleton, Zenon
  <2>2. ASSUME NEW c \in DOMAIN calls PROVE Callers(c)' = Callers(c)
    BY <1>6, <1>7, <1>8 DEF Callers
  <2>3. ASSUME NEW c \in DOMAIN calls' PROVE Cardinality(Callers(c)') = calls'[c].dups + 1
    <3>1. CASE c = n
      BY <3>1, <2>1, <1>2, <1>4
    <3>2. CASE c \in DOMAIN calls
      BY <3>2, <2>2, <1>4, Zenon DEF Inv, DupsCount
    <3> QED
      BY <3>1, <3>2, <1>7, Zenon
  <2>4. \A q \in Proc : pc'[q] = "idle" <=> joined'[q] = NoCall
    BY <1>7, <1>8, Zenon DEF Inv, DupsCount
  <2> QED
    BY <2>3, <2>4, Zenon DEF DupsCount
<1>12. ChansWait'
  <2>1. ASSUME NEW c \in DOMAIN calls', NEW q \in calls'[c].chans
        PROVE  joined'[q] = c /\ (calls'[c].phase # "finished" => pc'[q] = "chan")
    <3>1. CASE c = n
      BY <3>1, <2>1, <1>2, <1>4, <1>8
    <3>2. CASE c \in DOMAIN calls
      <4>1. q \in calls[c].chans /\ q \in Proc
        BY <3>2, <2>1, <1>1, <1>4, CallFields, Zenon
      <4>2. joined[q] = c /\ (calls[c].phase # "finished" => pc[q] = "chan")
        BY <3>2, <4>1, Zenon DEF Inv, ChansWait
      <4> QED
        BY <3>2, <4>1, <4>2, <1>4, <1>6, <1>7, <1>8, Zenon
    <3> QED
      BY <3>1, <3>2, <1>7, Zenon
  <2>2. ASSUME NEW q \in Proc, pc'[q] = "chan"
        PROVE  q \in calls'[joined'[q]].chans /\ calls'[joined'[q]].phase # "finished"
    BY <2>2, <1>2, <1>4, <1>7, <1>8 DEF Inv, ChansWait, DupsCount
  <2> QED
    BY <2>1, <2>2, Zenon DEF ChansWait
<1>13. ToldAboutDups'
  BY <1>4, <1>5, <1>7, <1>8 DEF Inv, ToldAboutDups, DupsCount, Shared
<1>14. InMapUntilForgotten'
  <2> SUFFICES ASSUME NEW c \in DOMAIN calls', calls'[c].phase # "finished",
                      NeverForgotten(calls[c].key)'
               PROVE  m'[calls'[c].key] = c
    BY Zenon DEF InMapUntilForgotten
  <2>1. CASE c = n
    BY <2>1, <1>2, <1>4, <1>8, Zenon
  <2>2. CASE c \in DOMAIN calls
    <3>1. calls'[c] = calls[c] /\ calls[c].key \in Key
      BY <2>2, <1>1, <1>4, CallFields, Zenon
    <3>2. NeverForgotten(calls[c].key)
      <4>1. \A d \in DOMAIN calls' : calls'[d].key = calls'[c].key => ~calls'[d].forgotten
        BY Zenon DEF NeverForgotten
      <4> QED
        BY <4>1, <3>1, <1>4, <1>7, Zenon DEF NeverForgotten
    <3>3. m[calls[c].key] = c
      BY <2>2, <3>1, <3>2, Zenon DEF Inv, InMapUntilForgotten
    <3> QED
      BY <2>2, <3>1, <3>3, <1>5, <1>7, <1>8
  <2> QED
    BY <2>1, <2>2, <1>7, Zenon
<1> QED
  BY <1>9, <1>10, <1>11, <1>12, <1>13, <1>14, Zenon DEF Inv

\* Do and DoChan of a key that has a call.
LEMMA JoinInv ==
  ASSUME Inv, NEW p \in Proc, NEW k \in Key, NEW next \in {"wait", "chan"},
         NEW chans \in SUBSET Proc, chans = (IF next = "chan" THEN {p} ELSE {}),
         Join(p, k, next, chans)
  PROVE  Inv'
<1>1. PICK c \in DOMAIN calls : c = m[k]
  BY DEF Join, Inv, Shape, NoCall
<1>2. /\ pc[p] = "idle" /\ c # NoCall /\ m[k] = c /\ calls[c].key = k
      /\ calls[c].phase # "finished"
  BY <1>1, Zenon DEF Join, Inv, MapIsLive
<1>3. Shape /\ calls[c] \in CallStructs /\ calls[c].dups \in Nat /\ calls[c].chans \in SUBSET Proc
  BY <1>1, CallFields, Zenon DEF Inv
<1> DEFINE new == JoinedBy(calls[c], chans)
<1>4. new \in CallStructs /\ new.key = k /\ new.phase = calls[c].phase
      /\ new.dups = calls[c].dups + 1 /\ new.chans = calls[c].chans \cup chans
      /\ new.forgotten = calls[c].forgotten
  BY <1>2, <1>3, JoinedCall
<1>5. /\ calls' = [calls EXCEPT ![c] = new] /\ joined' = [joined EXCEPT ![p] = c]
      /\ pc' = [pc EXCEPT ![p] = next] /\ m' = m /\ result' = result /\ forgets' = forgets
  BY <1>1, ZenonT(60) DEF Join, Counted, JoinedBy
<1> HIDE DEF new
<1>6. /\ calls' \in Seq(CallStructs) /\ Len(calls') = Len(calls) /\ DOMAIN calls' = DOMAIN calls
      /\ \A d \in DOMAIN calls : calls'[d] = IF d = c THEN new ELSE calls[d]
  BY <1>1, <1>3, <1>4, <1>5 DEF Shape
<1>7. /\ joined[p] = NoCall /\ NoCall \notin DOMAIN calls
      /\ 0 .. Len(calls) = DOMAIN calls \cup {NoCall}
  BY <1>2, <1>3 DEF Inv, DupsCount, Shape, NoCall
<1>8. /\ \A j \in Key : m[j] \in DOMAIN calls \cup {NoCall}
      /\ \A q \in Proc : /\ joined'[q] = IF q = p THEN c ELSE joined[q]
                         /\ pc'[q] = IF q = p THEN next ELSE pc[q]
                         /\ joined[q] \in DOMAIN calls \cup {NoCall}
                         /\ pc[q] # "idle" => joined[q] \in DOMAIN calls
  BY <1>3, <1>5, <1>7, Zenon DEF Shape, Inv, DupsCount
<1>9. Shape'
  BY <1>1, <1>3, <1>5, <1>6, <1>7, Zenon DEF Shape, States
<1>10. MapIsLive'
  BY <1>4, <1>5, <1>6, <1>2, <1>8 DEF Inv, MapIsLive
<1>11. DupsCount'
  <2>1. Cardinality(Callers(c)') = Cardinality(Callers(c)) + 1
    BY <1>2, <1>3, <1>5, <1>7, CallersJoin, ZenonT(60)
  <2>2. ASSUME NEW d \in DOMAIN calls, d # c PROVE Callers(d)' = Callers(d)
    BY <2>2, <1>2, <1>3, <1>5, <1>7, CallersJoin, ZenonT(60)
  <2>3. ASSUME NEW d \in DOMAIN calls' PROVE Cardinality(Callers(d)') = calls'[d].dups + 1
    <3>1. CASE d = c
      BY <3>1, <2>1, <1>1, <1>3, <1>4, <1>6 DEF Inv, DupsCount
    <3>2. CASE d # c
      BY <3>2, <2>2, <1>6, Zenon DEF Inv, DupsCount
    <3> QED
      BY <3>1, <3>2, Zenon
  <2>4. \A q \in Proc : pc'[q] = "idle" <=> joined'[q] = NoCall
    BY <1>2, <1>8 DEF Inv, DupsCount
  <2> QED
    BY <2>3, <2>4, Zenon DEF DupsCount
<1>12. ChansWait'
  <2>1. ASSUME NEW d \in DOMAIN calls', NEW q \in calls'[d].chans
        PROVE  joined'[q] = d /\ (calls'[d].phase # "finished" => pc'[q] = "chan")
    <3>1. CASE d = c /\ q \in chans
      BY <3>1, <1>8, Zenon
    <3>2. CASE ~(d = c /\ q \in chans)
      <4>1. q \in calls[d].chans /\ q \in Proc /\ d \in DOMAIN calls
        BY <3>2, <2>1, <1>3, <1>4, <1>6, CallFields, Zenon
      <4>2. joined[q] = d /\ (calls[d].phase # "finished" => pc[q] = "chan")
        BY <4>1 DEF Inv, ChansWait
      <4> QED
        BY <4>1, <4>2, <1>4, <1>6, <1>7, <1>8, Zenon
    <3> QED
      BY <3>1, <3>2, Zenon
  <2>2. ASSUME NEW q \in Proc, pc'[q] = "chan"
        PROVE  q \in calls'[joined'[q]].chans /\ calls'[joined'[q]].phase # "finished"
    BY <2>2, <1>1, <1>2, <1>4, <1>6, <1>8 DEF Inv, ChansWait
  <2> QED
    BY <2>1, <2>2, Zenon DEF ChansWait
<1>13. ToldAboutDups'
  <2>1. \A d \in DOMAIN calls : Shared(calls[d]) => Shared(calls'[d])
    BY <1>3, <1>4, <1>6 DEF Shared
  <2>2. Shared(calls'[c])
    BY <1>1, <1>3, <1>4, <1>6 DEF Shared
  <2>3. \A q \in Proc : pc'[q] = "wait" => Shared(calls'[joined'[q]])
    BY <2>1, <2>2, <1>8, Zenon DEF Inv, ToldAboutDups
  <2>4. ASSUME NEW q \in Proc, pc'[q] = "returned"
        PROVE  /\ result'[q].val = joined'[q]
               /\ result'[q].shared <=> Shared(calls'[joined'[q]])
               /\ Shared(calls'[joined'[q]]) \/ calls'[joined'[q]].phase = "finished"
    <3>1. pc[q] = "returned" /\ joined'[q] = joined[q] /\ result'[q] = result[q]
          /\ joined[q] \in DOMAIN calls
      BY <2>4, <1>5, <1>8, Zenon
    <3>2. /\ result[q].val = joined[q]
          /\ result[q].shared <=> Shared(calls[joined[q]])
          /\ Shared(calls[joined[q]]) \/ calls[joined[q]].phase = "finished"
      BY <3>1, Zenon DEF Inv, ToldAboutDups
    <3>3. CASE joined[q] = c
      BY <3>1, <3>2, <3>3, <2>1, <1>2
    <3>4. CASE joined[q] # c
      BY <3>1, <3>2, <3>4, <1>6, Zenon
    <3> QED
      BY <3>3, <3>4, Zenon
  <2> QED
    BY <2>3, <2>4, Zenon DEF ToldAboutDups
<1>14. InMapUntilForgotten'
  BY <1>2, <1>4, <1>5, <1>6 DEF Inv, InMapUntilForgotten, NeverForgotten
<1> QED
  BY <1>9, <1>10, <1>11, <1>12, <1>13, <1>14, Zenon DEF Inv

\* fn returns: the call changes its phase only.
LEMMA FnReturnsInv ==
  ASSUME Inv, NEW c \in DOMAIN calls, FnReturns(c)
  PROVE  Inv'
<1> DEFINE new == [calls[c] EXCEPT !.phase = "done"]
<1>1. Shape /\ calls[c] \in CallStructs /\ calls[c].phase = "running"
  BY CallFields, Zenon DEF Inv, FnReturns
<1>2. new \in CallStructs /\ new.key = calls[c].key /\ new.phase = "done"
      /\ new.dups = calls[c].dups /\ new.chans = calls[c].chans
      /\ new.forgotten = calls[c].forgotten
  BY <1>1, Zenon DEF CallStructs, Phases
<1>3. calls' = [calls EXCEPT ![c] = new] /\ UNCHANGED <<m, pc, joined, result, forgets>>
  BY Zenon DEF FnReturns
<1> HIDE DEF new
<1>4. /\ calls' \in Seq(CallStructs) /\ Len(calls') = Len(calls) /\ DOMAIN calls' = DOMAIN calls
      /\ \A d \in DOMAIN calls : calls'[d] = IF d = c THEN new ELSE calls[d]
  BY <1>1, <1>2, <1>3 DEF Shape
<1>5. Shape'
  BY <1>1, <1>3, <1>4, Zenon DEF Shape
<1>6. /\ \A j \in Key : m[j] # NoCall => m[j] \in DOMAIN calls
      /\ \A q \in Proc : pc[q] # "idle" => joined[q] \in DOMAIN calls
  BY <1>1 DEF Shape, Inv, DupsCount, NoCall
<1>7. \A d \in DOMAIN calls : /\ calls'[d].key = calls[d].key /\ calls'[d].dups = calls[d].dups
                              /\ calls'[d].chans = calls[d].chans
                              /\ calls'[d].forgotten = calls[d].forgotten
                              /\ calls'[d].phase = "finished" <=> calls[d].phase = "finished"
                              /\ Shared(calls'[d]) <=> Shared(calls[d])
  BY <1>1, <1>2, <1>4, Zenon DEF Shared
<1>8. MapIsLive'
  BY <1>3, <1>6, <1>7 DEF Inv, MapIsLive
<1>9. DupsCount'
  BY <1>3, <1>4, <1>7, CallersUnchanged DEF Inv, DupsCount
<1>10. ChansWait'
  BY <1>3, <1>4, <1>6, <1>7 DEF Inv, ChansWait
<1>11. ToldAboutDups'
  BY <1>3, <1>4, <1>6, <1>7 DEF Inv, ToldAboutDups
<1>12. InMapUntilForgotten'
  BY <1>3, <1>4, <1>7 DEF Inv, InMapUntilForgotten, NeverForgotten
<1> QED
  BY <1>5, <1>8, <1>9, <1>10, <1>11, <1>12, Zenon DEF Inv

\* The end of doCall: the key is deleted, and the channels get their results.
LEMMA FinishInv ==
  ASSUME Inv, NEW c \in DOMAIN calls, Finish(c)
  PROVE  Inv'
<1> DEFINE new == [calls[c] EXCEPT !.phase = "finished"]
           key == calls[c].key
<1>1. Shape /\ calls[c] \in CallStructs /\ calls[c].phase = "done" /\ key \in Key
      /\ calls[c].chans \in SUBSET Proc /\ Shared(calls[c]) \in BOOLEAN
  BY CallFields DEF Inv, Finish, Shared
<1>2. new \in CallStructs /\ new.key = key /\ new.phase = "finished"
      /\ new.dups = calls[c].dups /\ new.chans = calls[c].chans
      /\ new.forgotten = calls[c].forgotten
  BY <1>1, Zenon DEF CallStructs, Phases
<1>3. /\ calls' = [calls EXCEPT ![c] = new] /\ m' = [m EXCEPT ![key] = NoCall]
      /\ result' = [p \in Proc |-> IF p \in calls[c].chans
                                   THEN [val |-> c, shared |-> Shared(calls[c])] ELSE result[p]]
      /\ pc' = [p \in Proc |-> IF p \in calls[c].chans THEN "returned" ELSE pc[p]]
      /\ UNCHANGED <<joined, forgets>>
  BY Zenon DEF Finish, Receivers, DeleteKey
<1> HIDE DEF new
<1>4. /\ calls' \in Seq(CallStructs) /\ Len(calls') = Len(calls) /\ DOMAIN calls' = DOMAIN calls
      /\ \A d \in DOMAIN calls : calls'[d] = IF d = c THEN new ELSE calls[d]
  BY <1>1, <1>2, <1>3 DEF Shape
<1>5. /\ \A j \in Key : /\ m'[j] = IF j = key THEN NoCall ELSE m[j]
                        /\ m[j] # NoCall => m[j] \in DOMAIN calls
      /\ \A q \in Proc : /\ pc'[q] = IF q \in calls[c].chans THEN "returned" ELSE pc[q]
                         /\ pc[q] # "idle" => joined[q] \in DOMAIN calls
                         /\ q \in calls[c].chans => joined[q] = c /\ pc[q] = "chan"
                         /\ result'[q] = IF q \in calls[c].chans
                              THEN [val |-> c, shared |-> Shared(calls[c])] ELSE result[q]
  BY <1>1, <1>3 DEF Shape, Inv, DupsCount, ChansWait, NoCall
<1>6. \A d \in DOMAIN calls : /\ calls'[d].key = calls[d].key /\ calls'[d].dups = calls[d].dups
                              /\ calls'[d].chans = calls[d].chans
                              /\ calls'[d].forgotten = calls[d].forgotten
                              /\ calls'[d].phase = IF d = c THEN "finished" ELSE calls[d].phase
                              /\ Shared(calls'[d]) <=> Shared(calls[d])
  BY <1>2, <1>4, Zenon DEF Shared
<1>7. Shape'
  <2>1. [val |-> c, shared |-> Shared(calls[c])] \in [val : 0 .. Len(calls), shared : BOOLEAN]
    BY <1>1 DEF Shape
  <2>2. result' \in [Proc -> [val : 0 .. Len(calls), shared : BOOLEAN]]
    BY <2>1, <1>1, <1>3, Zenon DEF Shape
  <2> QED
    BY <2>2, <1>1, <1>3, <1>4 DEF Shape, States, NoCall
<1>8. MapIsLive'
  <2> SUFFICES ASSUME NEW j \in Key, m'[j] # NoCall
               PROVE  calls'[m'[j]].key = j /\ calls'[m'[j]].phase # "finished"
    BY Zenon DEF MapIsLive
  <2>1. j # key /\ m'[j] = m[j] /\ m[j] \in DOMAIN calls
    BY <1>5
  <2>2. calls[m[j]].key = j /\ calls[m[j]].phase # "finished"
    BY <2>1, <1>5, Zenon DEF Inv, MapIsLive
  <2> QED
    BY <2>1, <2>2, <1>6, Zenon
<1>9. DupsCount'
  BY <1>3, <1>4, <1>5, <1>6, CallersUnchanged DEF Inv, DupsCount
<1>10. ChansWait'
  <2>1. ASSUME NEW d \in DOMAIN calls, NEW q \in calls[d].chans
        PROVE  joined[q] = d /\ (calls'[d].phase # "finished" => pc'[q] = "chan")
    <3>1. q \in Proc
      BY <1>1, CallFields
    <3>2. joined[q] = d /\ (calls[d].phase # "finished" => pc[q] = "chan")
      BY Zenon DEF Inv, ChansWait
    <3> QED
      BY <3>1, <3>2, <1>5, <1>6
  <2>2. ASSUME NEW q \in Proc, pc'[q] = "chan"
        PROVE  q \in calls'[joined[q]].chans /\ calls'[joined[q]].phase # "finished"
    <3>1. q \notin calls[c].chans /\ pc[q] = "chan" /\ joined[q] \in DOMAIN calls
      BY <2>2, <1>5
    <3>2. q \in calls[joined[q]].chans /\ calls[joined[q]].phase # "finished"
      BY <3>1 DEF Inv, ChansWait
    <3> QED
      BY <3>1, <3>2, <1>6, Zenon
  <2>3. joined' = joined /\ DOMAIN calls' = DOMAIN calls
        /\ \A d \in DOMAIN calls : calls'[d].chans = calls[d].chans
    BY <1>3, <1>4, <1>6
  <2> QED
    BY <2>1, <2>2, <2>3 DEF ChansWait
<1>11. ToldAboutDups'
  <2>1. ASSUME NEW q \in Proc, pc'[q] = "wait" PROVE Shared(calls'[joined[q]])
    <3>1. pc[q] = "wait" /\ joined[q] \in DOMAIN calls
      BY <2>1, <1>5
    <3>2. Shared(calls[joined[q]])
      BY <3>1 DEF Inv, ToldAboutDups
    <3> QED
      BY <3>1, <3>2, <1>6, Zenon
  <2>2. ASSUME NEW q \in Proc, pc'[q] = "returned"
        PROVE  /\ result'[q].val = joined[q]
               /\ result'[q].shared <=> Shared(calls'[joined[q]])
               /\ Shared(calls'[joined[q]]) \/ calls'[joined[q]].phase = "finished"
    <3>1. CASE q \in calls[c].chans
      BY <3>1, <1>1, <1>5, <1>6
    <3>2. CASE q \notin calls[c].chans
      <4>1. pc[q] = "returned" /\ joined[q] \in DOMAIN calls /\ result'[q] = result[q]
        BY <3>2, <2>2, <1>5, Zenon
      <4>2. /\ result[q].val = joined[q]
            /\ result[q].shared <=> Shared(calls[joined[q]])
            /\ Shared(calls[joined[q]]) \/ calls[joined[q]].phase = "finished"
        BY <4>1 DEF Inv, ToldAboutDups
      <4> QED
        BY <4>1, <4>2, <1>6, Zenon
    <3> QED
      BY <3>1, <3>2
  <2> QED
    BY <2>1, <2>2, <1>3 DEF ToldAboutDups
<1>12. InMapUntilForgotten'
  <2> SUFFICES ASSUME NEW d \in DOMAIN calls', calls'[d].phase # "finished",
                      NeverForgotten(calls[d].key)'
               PROVE  m'[calls'[d].key] = d
    BY Zenon DEF InMapUntilForgotten
  <2>1. d \in DOMAIN calls /\ d # c /\ calls[d].phase # "finished" /\ calls'[d].key = calls[d].key
        /\ calls[d].key \in Key
    BY <1>1, <1>4, <1>6, CallFields, Zenon
  <2>2. NeverForgotten(calls[d].key)
    <3>1. \A e \in DOMAIN calls' : calls'[e].key = calls'[d].key => ~calls'[e].forgotten
      BY Zenon DEF NeverForgotten
    <3> QED
      BY <3>1, <2>1, <1>4, <1>6, Zenon DEF NeverForgotten
  <2>3. m[calls[d].key] = d
    BY <2>1, <2>2, Zenon DEF Inv, InMapUntilForgotten
  <2>4. calls[d].key # key
    BY <2>1, <2>2, <2>3, <1>1 DEF Inv, InMapUntilForgotten
  <2> QED
    BY <2>1, <2>3, <2>4, <1>5
<1> QED
  BY <1>7, <1>8, <1>9, <1>10, <1>11, <1>12, Zenon DEF Inv

\* Do returns.
LEMMA ReturnInv ==
  ASSUME Inv, NEW p \in Proc, pc[p] \in {"lead", "wait"}, NEW shared \in BOOLEAN,
         shared <=> Shared(calls[joined[p]]),
         Shared(calls[joined[p]]) \/ calls[joined[p]].phase = "finished",
         Return(p, shared)
  PROVE  Inv'
<1>1. /\ result' = [result EXCEPT ![p] = [val |-> joined[p], shared |-> shared]]
      /\ pc' = [pc EXCEPT ![p] = "returned"] /\ UNCHANGED <<m, calls, joined, forgets>>
      /\ Shape
  BY Zenon DEF Return, Inv
<1>2. \A q \in Proc : /\ pc'[q] = IF q = p THEN "returned" ELSE pc[q]
                      /\ result'[q] = IF q = p THEN [val |-> joined[p], shared |-> shared]
                                               ELSE result[q]
  BY <1>1, Zenon DEF Shape
<1>3. Shape'
  <2>1. [val |-> joined[p], shared |-> shared] \in [val : 0 .. Len(calls), shared : BOOLEAN]
    BY <1>1, Zenon DEF Shape
  <2> QED
    BY <2>1, <1>1, Zenon DEF Shape, States
<1>4. MapIsLive' /\ InMapUntilForgotten'
  BY <1>1, Zenon DEF Inv, MapIsLive, InMapUntilForgotten, NeverForgotten
<1>5. DupsCount'
  BY <1>1, <1>2, CallersUnchanged DEF Inv, DupsCount
<1>6. ChansWait'
  <2>1. ASSUME NEW c \in DOMAIN calls, NEW q \in calls[c].chans
        PROVE  joined[q] = c /\ (calls[c].phase # "finished" => pc'[q] = "chan")
    <3>1. q \in Proc
      BY <1>1, CallFields, Zenon
    <3> QED
      BY <3>1, <1>2 DEF Inv, ChansWait
  <2>2. ASSUME NEW q \in Proc, pc'[q] = "chan"
        PROVE  q \in calls[joined[q]].chans /\ calls[joined[q]].phase # "finished"
    BY <2>2, <1>2 DEF Inv, ChansWait
  <2> QED
    BY <2>1, <2>2, <1>1 DEF ChansWait
<1>7. ToldAboutDups'
  <2>1. \A q \in Proc : pc'[q] = "wait" => Shared(calls[joined[q]])
    BY <1>2, Zenon DEF Inv, ToldAboutDups
  <2>2. ASSUME NEW q \in Proc, pc'[q] = "returned"
        PROVE  /\ result'[q].val = joined[q]
               /\ result'[q].shared <=> Shared(calls[joined[q]])
               /\ Shared(calls[joined[q]]) \/ calls[joined[q]].phase = "finished"
    <3>1. CASE q = p
      BY <3>1, <1>2
    <3>2. CASE q # p
      BY <3>2, <2>2, <1>2, Zenon DEF Inv, ToldAboutDups
    <3> QED
      BY <3>1, <3>2, Zenon
  <2> QED
    BY <2>1, <2>2, <1>1 DEF ToldAboutDups
<1> QED
  BY <1>3, <1>4, <1>5, <1>6, <1>7, Zenon DEF Inv

\* Forget: the call in the map, if there is one, stays as it is, marked as forgotten.
LEMMA ForgetInv ==
  ASSUME Inv, NEW k \in Key, Forget(k)
  PROVE  Inv'
<1>1. /\ calls' = [c \in DOMAIN calls |-> [calls[c] EXCEPT !.forgotten = @ \/ c = m[k]]]
      /\ m' = [m EXCEPT ![k] = NoCall] /\ forgets' = forgets + 1
      /\ UNCHANGED <<pc, joined, result>> /\ Shape
  BY Zenon DEF Forget, Forgotten, Inv
<1>2. \A c \in DOMAIN calls : /\ calls'[c] \in CallStructs /\ calls'[c].key = calls[c].key
                              /\ calls'[c].phase = calls[c].phase
                              /\ calls'[c].dups = calls[c].dups
                              /\ calls'[c].chans = calls[c].chans
                              /\ calls'[c].forgotten = (calls[c].forgotten \/ c = m[k])
                              /\ Shared(calls'[c]) <=> Shared(calls[c])
  <2> SUFFICES ASSUME NEW c \in DOMAIN calls
               PROVE  /\ calls'[c] \in CallStructs /\ calls'[c].key = calls[c].key
                      /\ calls'[c].phase = calls[c].phase
                      /\ calls'[c].dups = calls[c].dups
                      /\ calls'[c].chans = calls[c].chans
                      /\ calls'[c].forgotten = (calls[c].forgotten \/ c = m[k])
                      /\ Shared(calls'[c]) <=> Shared(calls[c])
    BY Zenon
  <2>1. calls[c] \in CallStructs
    BY <1>1, CallFields, Zenon
  <2>2. calls'[c] = [calls[c] EXCEPT !.forgotten = calls[c].forgotten \/ c = m[k]]
    BY <1>1, Zenon
  <2>3. (calls[c].forgotten \/ c = m[k]) \in BOOLEAN
    BY Zenon
  <2> QED
    BY <2>1, <2>2, <2>3, ZenonT(60) DEF CallStructs, Shared
<1>3. DOMAIN calls' = DOMAIN calls /\ Len(calls') = Len(calls) /\ calls' \in Seq(CallStructs)
  <2>1. DOMAIN calls = 1 .. Len(calls) /\ Len(calls) \in Nat
    BY <1>1 DEF Shape
  <2>2. calls' \in [1 .. Len(calls) -> CallStructs]
    BY <2>1, <1>1, <1>2, ZenonT(60)
  <2>3. calls' \in Seq(CallStructs)
    BY <2>1, <2>2
  <2> QED
    BY <2>1, <2>2, <2>3
<1>4. /\ \A j \in Key : /\ m'[j] = IF j = k THEN NoCall ELSE m[j]
                        /\ m[j] # NoCall => m[j] \in DOMAIN calls
      /\ \A q \in Proc : pc[q] # "idle" => joined[q] \in DOMAIN calls
  BY <1>1 DEF Shape, Inv, DupsCount, NoCall
<1>5. Shape'
  BY <1>1, <1>3 DEF Shape, NoCall
<1>6. MapIsLive'
  BY <1>2, <1>4 DEF Inv, MapIsLive
<1> pc' = pc /\ joined' = joined /\ result' = result /\ DOMAIN calls' = DOMAIN calls
  BY <1>1, <1>3, Zenon
<1>7. DupsCount'
  BY <1>2, CallersUnchanged DEF Inv, DupsCount
<1>8. ChansWait'
  BY <1>2, <1>4 DEF Inv, ChansWait
<1>9. ToldAboutDups'
  BY <1>2, <1>4 DEF Inv, ToldAboutDups
<1>10. InMapUntilForgotten'
  <2> SUFFICES ASSUME NEW c \in DOMAIN calls', calls'[c].phase # "finished",
                      NeverForgotten(calls[c].key)'
               PROVE  m'[calls'[c].key] = c
    BY Zenon DEF InMapUntilForgotten
  <2>1. \A d \in DOMAIN calls' : calls'[d].key = calls'[c].key => ~calls'[d].forgotten
    BY Zenon DEF NeverForgotten
  <2>2. /\ c \in DOMAIN calls /\ calls[c].phase # "finished" /\ calls'[c].key = calls[c].key
        /\ calls[c].key \in Key /\ c # m[k]
    BY <2>1, <1>1, <1>2, <1>3, CallFields, ZenonT(60)
  <2>3. NeverForgotten(calls[c].key)
    BY <2>1, <2>2, <1>2, <1>3, ZenonT(60) DEF NeverForgotten
  <2>4. m[calls[c].key] = c
    BY <2>2, <2>3 DEF Inv, InMapUntilForgotten
  <2> QED
    BY <2>2, <2>4, <1>4, Zenon
<1> QED
  BY <1>5, <1>6, <1>7, <1>8, <1>9, <1>10 DEF Inv

\* Every step preserves Inv.
LEMMA NextInv == Inv /\ [Next]_vars => Inv'
<1> SUFFICES ASSUME Inv, [Next]_vars PROVE Inv'
  BY Zenon
<1>1. ASSUME NEW p \in Proc, NEW k \in Key, DoLead(p, k) PROVE Inv'
  BY <1>1, LeadInv DEF DoLead
<1>2. ASSUME NEW p \in Proc, NEW k \in Key, DoChanLead(p, k) PROVE Inv'
  BY <1>2, LeadInv, Zenon DEF DoChanLead
<1>3. ASSUME NEW p \in Proc, NEW k \in Key, DoJoin(p, k) PROVE Inv'
  BY <1>3, JoinInv DEF DoJoin
<1>4. ASSUME NEW p \in Proc, NEW k \in Key, DoChanJoin(p, k) PROVE Inv'
  BY <1>4, JoinInv, Zenon DEF DoChanJoin
<1>5. ASSUME NEW p \in Proc, DoLeadReturns(p) PROVE Inv'
  <2>1. Shared(calls[joined[p]]) \in BOOLEAN
    BY DEF Shared
  <2> QED
    BY <1>5, <2>1, ReturnInv, Zenon DEF DoLeadReturns
<1>6. ASSUME NEW p \in Proc, DoJoinReturns(p) PROVE Inv'
  <2>1. Shared(calls[joined[p]])
    BY <1>6, Zenon DEF DoJoinReturns, Inv, ToldAboutDups
  <2> QED
    BY <1>6, <2>1, ReturnInv, ZenonT(60) DEF DoJoinReturns
<1>7. ASSUME NEW c \in DOMAIN calls, CallStep(c) PROVE Inv'
  BY <1>7, FnReturnsInv, FinishInv, Zenon DEF CallStep
<1>8. ASSUME NEW k \in Key, Forget(k) PROVE Inv'
  BY <1>8, ForgetInv, Zenon
<1>9. CASE UNCHANGED vars
  <2>1. UNCHANGED <<m, calls, pc, joined, result, forgets>>
    BY <1>9, Zenon DEF vars
  <2>2. Shape' /\ MapIsLive' /\ InMapUntilForgotten' /\ ChansWait' /\ ToldAboutDups'
    BY <2>1 DEF Inv, Shape, MapIsLive, InMapUntilForgotten, NeverForgotten, ChansWait,
       ToldAboutDups
  <2>3. DupsCount'
    BY <2>1, CallersUnchanged, Zenon DEF Inv, DupsCount
  <2> QED
    BY <2>2, <2>3 DEF Inv
<1> QED
  BY <1>1, <1>2, <1>3, <1>4, <1>5, <1>6, <1>7, <1>8, <1>9 DEF Next, Starts, ProcStep, Stop

\* Inv always holds.
LEMMA AlwaysInv == Spec => []Inv
BY InitInv, NextInv, PTL DEF Spec

-----------------------------------------------------------------------------
(* What Do promises *)

\* TypeOK: a call that is in the map is of its key and not finished, and it has no
\* more duplicates than there are callers.
THEOREM TypeCorrect == Spec => []TypeOK
<1>1. Inv => TypeOK
  <2> SUFFICES ASSUME Inv PROVE TypeOK
    BY Zenon
  <2>1. ASSUME NEW c \in DOMAIN calls
        PROVE  /\ calls[c].key \in Key /\ calls[c].phase \in Phases
               /\ calls[c].dups \in 0 .. Cardinality(Proc) /\ calls[c].chans \subseteq Proc
    <3>1. Cardinality(Callers(c)) = calls[c].dups + 1
      BY Zenon DEF Inv, DupsCount
    <3> QED
      BY <3>1, CallFields, CallersFinite DEF Inv
  <2> QED
    BY <2>1, Zenon DEF Inv, Shape, MapIsLive, TypeOK, States, Phases
<1> QED
  BY <1>1, AlwaysInv, PTL

\* SharedExact: "shared indicates whether v was given to multiple callers".  A
\* caller that has returned has the value of the call it joined, and was told that
\* it is shared if and only if that call has another caller by now.
THEOREM SharedIsExact == Spec => []SharedExact
<1>1. Inv => SharedExact
  <2> SUFFICES ASSUME Inv, NEW p \in Proc, pc[p] = "returned"
               PROVE  /\ result[p].val = joined[p]
                      /\ result[p].shared <=> Cardinality(Callers(joined[p])) > 1
    BY Zenon DEF SharedExact
  <2>1. joined[p] \in DOMAIN calls
    BY DEF Inv, DupsCount, Shape, NoCall
  <2>2. Cardinality(Callers(joined[p])) = calls[joined[p]].dups + 1
        /\ calls[joined[p]].dups \in Nat
    BY <2>1, CallFields, Zenon DEF Inv, DupsCount
  <2>3. result[p].val = joined[p] /\ (result[p].shared <=> Shared(calls[joined[p]]))
    BY Zenon DEF Inv, ToldAboutDups
  <2> QED
    BY <2>2, <2>3 DEF Shared
<1> QED
  BY <1>1, AlwaysInv, PTL

\* OneInFlightUntilForget: "only one execution is in-flight for a given key at a
\* time", as long as Forget was not called while the key had a call.
THEOREM OnlyOneInFlight == Spec => []OneInFlightUntilForget
<1>1. Inv => OneInFlightUntilForget
  BY DEF Inv, InMapUntilForgotten, NeverForgotten, OneInFlightUntilForget
<1> QED
  BY <1>1, AlwaysInv, PTL
=============================================================================
