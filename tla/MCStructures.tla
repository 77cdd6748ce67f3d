---------------------------- MODULE MCStructures ----------------------------
(***************************************************************************)
(* Instances of the data structures that one goroutine uses at a time:     *)
(* RingBuffer, ScannerArena, Cache, IntervalTree and RangeGroup.  They     *)
(* share nothing, so one of them is picked at the start and the others     *)
(* stay as they are.                                                       *)
(***************************************************************************)
EXTENDS RingBuffer, ScannerArena, Cache, IntervalTree, RangeGroup

VARIABLE active  \* the structure that is used

\* Two entries with a key, and one each with two others.
MCCacheKey == [e \in CacheEntry |-> IF e = 1 THEN 1 ELSE e - 1]

\* Intervals that nest, overlap, touch and share a start.
Elem(s, e, i) == [start |-> s, end |-> e, id |-> i]
MCTreeElem == {Elem(0, 2, 3), Elem(0, 1, 1), Elem(1, 5, 2), Elem(2, 3, 5), Elem(3, 4, 4),
               Elem(4, 6, 6)}

MCInit == /\ Init /\ ArenaInit /\ CacheInit /\ TreeInit /\ RangeInit
          /\ active \in {"ring", "arena", "cache", "tree", "ranges"}
          /\ active # "cache" => policy = "LRU"
          /\ active # "tree" => llrbMode = "BU23" /\ treeInclusive
          /\ active # "ranges" => rgKind = "list"

RingStep == /\ active = "ring" /\ ClientNext
            /\ UNCHANGED <<active, arenaVars, cacheVars, treeVars, rgVars>>
ArenaStep == /\ active = "arena" /\ ArenaNext
             /\ UNCHANGED <<active, vars, cacheVars, treeVars, rgVars>>
CacheStep == /\ active = "cache" /\ CacheNext
             /\ UNCHANGED <<active, vars, arenaVars, treeVars, rgVars>>
IntervalStep == /\ active = "tree" /\ TreeNext
                /\ UNCHANGED <<active, vars, arenaVars, cacheVars, rgVars>>
GroupStep == /\ active = "ranges" /\ RangeNext
             /\ UNCHANGED <<active, vars, arenaVars, cacheVars, treeVars>>

MCNext == RingStep \/ ArenaStep \/ CacheStep \/ IntervalStep \/ GroupStep
MCVars == <<active, vars, arenaVars, cacheVars, treeVars, rgVars>>
MCSpec == MCInit /\ [][MCNext]_MCVars
=============================================================================
