----------------------------- MODULE MCWaiting ------------------------------
(***************************************************************************)
(* Instances of the components in which goroutines wait for each other:    *)
(* SingleFlight, AuthPipe and TimerPool.  They share nothing, so one of    *)
(* them is picked at the start and the others stay as they are.            *)
(***************************************************************************)
EXTENDS SingleFlight, AuthPipe, TimerPool

VARIABLE active  \* the component that runs

MCInit == /\ Init /\ AuthInit /\ TimerInit
          /\ active \in {"singleflight", "auth", "timer"}

MCNext == /\ UNCHANGED active
          /\ \/ /\ active = "singleflight" /\ Next
                /\ UNCHANGED <<authVars, timerVars>>
             \/ /\ active = "auth" /\ AuthNext
                /\ UNCHANGED <<vars, timerVars>>
             \/ /\ active = "timer" /\ TimerNext
                /\ UNCHANGED <<vars, authVars>>

MCVars == <<active, vars, authVars, timerVars>>

\* The fairness of FairSpec, FairAuthSpec and FairTimerSpec.
MCFairness ==
  /\ \A p \in Proc : WF_vars(ProcStep(p))
  /\ \A c \in CallIds : WF_vars(CallStep(c))
  /\ WF_authVars(active = "auth" /\ WriterStep)
  /\ WF_authVars(active = "auth" /\ ReaderStep)
  /\ \A u \in TimerUser : WF_timerVars(ResetStep(u))
  /\ \A x \in TimeTimer : WF_timerVars(Sends(x))

MCSpec == MCInit /\ [][MCNext]_MCVars /\ MCFairness

\* What is true of every state of every component.
MCTypeOK == TypeOK /\ AuthTypeOK /\ TimerTypeOK
=============================================================================
