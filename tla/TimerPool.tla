----------------------------- MODULE TimerPool ------------------------------
(***************************************************************************)
(* Timer of utils/timeutil: a time.Timer that can be reset at any moment,  *)
(* and that goes back to a pool when it is stopped.  Each user has a Timer *)
(* of its own, follows the comment on Timer (Read is set to true when the  *)
(* channel was read), and shares the pool with the others.                 *)
(*                                                                         *)
(* time.Timer and sync.Pool are external.  A time.Timer that expires sends *)
(* to a channel with room for one, a moment after Stop has begun to return *)
(* false; a pool may lose what it holds.                                   *)
(***************************************************************************)
EXTENDS Naturals, Sequences

CONSTANTS TimerUser,    \* the goroutines, each with a Timer
          TimeTimer,    \* the time.Timers that can be made
          MaxArmings    \* how often the Timers are set in all

\* A Timer that was not Reset since it was made has timer = nil and C = nil.
NoTimer == "nil"

ASSUME TimerAssumption == MaxArmings \in Nat /\ NoTimer \notin TimeTimer

VARIABLES timer,     \* Timer of each user: the field timer or NoTimer, and Read
          timerPC,   \* what each user is doing
          arming,    \* the number of the last Reset of each user
          timers,    \* each time.Timer made: its state and its channel
          timerPool, \* timeTimerPool
          armings    \* the number of Resets so far

timerVars == <<timer, timerPC, arming, timers, timerPool, armings>>

ZeroTimer == [timer |-> NoTimer, read |-> FALSE]
Made == DOMAIN timers

TimerInit ==
  /\ timer = [u \in TimerUser |-> ZeroTimer]
  /\ timerPC = [u \in TimerUser |-> "idle"]
  /\ arming = [u \in TimerUser |-> 0]
  /\ timers = [x \in {} |-> 0]
  /\ timerPool = {}
  /\ armings = 0

\* time.Timer (external): set for an arming.  A stopped one is "idle".
Armed(n, chan) == [state |-> "armed", for |-> n, chan |-> chan]
Counts(u) == /\ armings < MaxArmings
             /\ armings' = armings + 1
             /\ arming' = [arming EXCEPT ![u] = armings']

\* Reset of a Timer whose timer is nil: one of the pool, or a new one.
ResetNew(u, x) ==
  /\ timerPC[u] = "idle" /\ timer[u].timer = NoTimer /\ Counts(u)
  /\ x \notin Made
  /\ timers' = [y \in Made \cup {x} |-> IF y = x THEN Armed(armings', <<>>) ELSE timers[y]]
  /\ timer' = [timer EXCEPT ![u].timer = x]
  /\ UNCHANGED <<timerPC, timerPool>>
ResetFromPool(u, x) ==
  /\ timerPC[u] = "idle" /\ timer[u].timer = NoTimer /\ Counts(u)
  /\ x \in timerPool
  /\ timerPool' = timerPool \ {x}
  /\ timers' = [timers EXCEPT ![x] = Armed(armings', timers[x].chan)]
  /\ timer' = [timer EXCEPT ![u].timer = x]
  /\ UNCHANGED <<timerPC>>

\* Reset of a Timer that has one: t.timer.Stop(), and if that is false and the
\* channel was not read, a receive from the channel.  The mutant ignores Read.
IgnoresRead(t, stopped) == ~stopped
Drains(t, stopped) == ~stopped /\ ~t.read
ResetStops(u) ==
  /\ timerPC[u] = "idle" /\ timer[u].timer # NoTimer /\ Counts(u)
  /\ LET x == timer[u].timer IN
       /\ timerPC' = [timerPC EXCEPT ![u] =
            IF Drains(timer[u], timers[x].state = "armed") THEN "draining" ELSE "resetting"]
       /\ timers' = IF timers[x].state = "armed" THEN [timers EXCEPT ![x].state = "idle"]
                                                 ELSE timers
  /\ UNCHANGED <<timer, timerPool>>
ResetDrains(u) ==
  /\ timerPC[u] = "draining" /\ timers[timer[u].timer].chan # <<>>
  /\ timers' = [timers EXCEPT ![timer[u].timer].chan = Tail(@)]
  /\ timerPC' = [timerPC EXCEPT ![u] = "resetting"]
  /\ UNCHANGED <<timer, arming, timerPool, armings>>

\* The end of Reset: t.timer.Reset(d), Read = false.
ResetArms(u) ==
  /\ timerPC[u] = "resetting"
  /\ timers' = [timers EXCEPT ![timer[u].timer] = Armed(arming[u], timers[timer[u].timer].chan)]
  /\ timer' = [timer EXCEPT ![u].read = FALSE]
  /\ timerPC' = [timerPC EXCEPT ![u] = "idle"]
  /\ UNCHANGED <<arming, timerPool, armings>>

\* Stop: the time.Timer goes to the pool only if it was stopped before it expired,
\* and the Timer is cleared.  The mutant pools it in any case.
Always(stopped) == TRUE
GoesToPool(stopped) == stopped
StopTimer(u) ==
  /\ timerPC[u] = "idle"
  /\ LET x == timer[u].timer IN
       IF x = NoTimer THEN UNCHANGED <<timers, timerPool>>
       ELSE /\ timerPool' = IF GoesToPool(timers[x].state = "armed")
                            THEN timerPool \cup {x} ELSE timerPool
            /\ timers' = IF timers[x].state = "armed" THEN [timers EXCEPT ![x].state = "idle"]
                                                      ELSE timers
  /\ timer' = [timer EXCEPT ![u] = ZeroTimer]
  /\ UNCHANGED <<timerPC, arming, armings>>

\* The user selects on C, reads, and sets Read.
ReadsTick(u) ==
  /\ timerPC[u] = "idle" /\ timer[u].timer # NoTimer
  /\ timers[timer[u].timer].chan # <<>>
  /\ timers' = [timers EXCEPT ![timer[u].timer].chan = Tail(@)]
  /\ timer' = [timer EXCEPT ![u].read = TRUE]
  /\ UNCHANGED <<timerPC, arming, timerPool, armings>>

\* The runtime (external): a time.Timer expires, and then sends, if there is room.
Expires(x) ==
  /\ x \in Made /\ timers[x].state = "armed"
  /\ timers' = [timers EXCEPT ![x].state = "expiring"]
  /\ UNCHANGED <<timer, timerPC, arming, timerPool, armings>>
Sends(x) ==
  /\ x \in Made /\ timers[x].state = "expiring"
  /\ timers' = [timers EXCEPT ![x].state = "idle",
                              ![x].chan = IF @ = <<>> THEN <<timers[x].for>> ELSE @]
  /\ UNCHANGED <<timer, timerPC, arming, timerPool, armings>>

\* The pool (external) drops what it holds.
PoolLoses(x) ==
  /\ x \in timerPool
  /\ timerPool' = timerPool \ {x}
  /\ UNCHANGED <<timer, timerPC, arming, timers, armings>>

ResetStep(u) == ResetDrains(u) \/ ResetArms(u)
UserStep(u) == \/ \E x \in TimeTimer : ResetNew(u, x) \/ ResetFromPool(u, x)
               \/ ResetStops(u) \/ ResetStep(u) \/ StopTimer(u) \/ ReadsTick(u)
RuntimeStep(x) == Expires(x) \/ Sends(x)

TimerNext == \/ \E u \in TimerUser : UserStep(u)
             \/ \E x \in TimeTimer : RuntimeStep(x) \/ PoolLoses(x)
TimerSpec == TimerInit /\ [][TimerNext]_timerVars

\* A Reset that can go on does, and an expired time.Timer sends.
FairTimerSpec == /\ TimerSpec
                 /\ \A u \in TimerUser : WF_timerVars(ResetStep(u))
                 /\ \A x \in TimeTimer : WF_timerVars(Sends(x))

-----------------------------------------------------------------------------
TimerTypeOK ==
  /\ timer \in [TimerUser -> [timer : Made \cup {NoTimer}, read : BOOLEAN]]
  /\ timerPC \in [TimerUser -> {"idle", "draining", "resetting"}]
  /\ timerPool \subseteq Made /\ Made \subseteq TimeTimer
  /\ \A x \in Made : /\ timers[x].state \in {"idle", "armed", "expiring"}
                     /\ Len(timers[x].chan) \in 0..1

\* A user never sees a tick of an earlier Reset, of its own or of another user
\* that had the time.Timer before: what is in the channel that it can read, or
\* about to be sent to it, is of its last Reset.
TicksAreCurrent ==
  \A u \in TimerUser : timer[u].timer # NoTimer /\ timerPC[u] = "idle" =>
    LET x == timers[timer[u].timer] IN
      /\ x.state \in {"armed", "expiring"} => x.for = arming[u]
      /\ x.chan # <<>> => Head(x.chan) = arming[u]

\* "If Timer.Read is not set to true when the channel is read from, the next call
\* to Timer.Reset will deadlock" (Timer): and if it is, the next call returns.
ResetReturns == \A u \in TimerUser : timerPC[u] # "idle" ~> timerPC[u] = "idle"
=============================================================================
