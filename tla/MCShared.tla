------------------------------ MODULE MCShared ------------------------------
(***************************************************************************)
(* Instances of the objects that many goroutines use at once: BytesMonitor *)
(* (monitors, their root and their accounts), HybridClock and IntMap.      *)
(* They share nothing, so one of them is picked at the start and the       *)
(* others stay as they are.                                                *)
(***************************************************************************)
EXTENDS BytesMonitor, HybridClock, IntMap, TLC

CONSTANTS m1, m2, a1, a2, a3,  \* monitors, and accounts
          g1, g2, g3           \* goroutines that use the clock

VARIABLE active  \* the object that is used

MCOwnerOf == a1 :> m1 @@ a2 :> m1 @@ a3 :> m2
MCChunk == m1 :> 2 @@ m2 :> 3 @@ Root :> 3
MCLimit == m1 :> 9 @@ m2 :> 8 @@ Root :> 40

\* One goroutine refreshes the bound on the wall time and one watches for jumps.
MCOpsOf == g1 :> {"now", "refresh", "reset"} @@ g2 :> {"now", "update", "checked"}
           @@ g3 :> {"enable", "disable", "tick"}
MCRemote == {[wall |-> 2, logical |-> 1], [wall |-> 5, logical |-> 0]}

MCInit == /\ MonInit /\ ClockInit /\ IntMapInit
          /\ active \in {"monitors", "clock", "map"}

MonitorStep == active = "monitors" /\ MonNext /\ UNCHANGED <<active, clockVars, imVars>>
ClockStep == active = "clock" /\ ClockNext /\ UNCHANGED <<active, monVars, imVars>>
MapStep == active = "map" /\ IntMapNext /\ UNCHANGED <<active, monVars, clockVars>>

MCNext == MonitorStep \/ ClockStep \/ MapStep
MCVars == <<active, monVars, clockVars, imVars>>
MCSpec == MCInit /\ [][MCNext]_MCVars

\* The users and the keys of the map are alike.
MCSymmetry == Permutations(MapUser) \cup Permutations(MapKey)
=============================================================================
