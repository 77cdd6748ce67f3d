---------------------------- MODULE IntervalTree ----------------------------
(***************************************************************************)
(* llrbTree of utils/interval as its clients see it, through the interface *)
(* Tree: any order of insertions and deletions, each one fast (the extents *)
(* of the nodes are left as they are) or not.                              *)
(***************************************************************************)
EXTENDS Integers, Sequences, FiniteSets

CONSTANTS TreeElem,  \* the elements: [start, end, id], with an id each
          MaxPoint   \* the largest bound of an element

ASSUME TreeAssumption == \A e, f \in TreeElem : /\ 0 <= e.start /\ e.start < e.end
                                                /\ e.end <= MaxPoint
                                                /\ e.id = f.id => e = f

VARIABLES llrbMode,   \* the LLRBMode that the package was built with
          treeInclusive,  \* the Overlapper of the tree
          treeRoot,       \* llrbTree.Root
          treeCount,      \* llrbTree.Count
          treeStored,     \* the elements that are to be in the tree
          treeStale       \* "no", or the kind of fast operation since AdjustRanges

treeVars == <<llrbMode, treeInclusive, treeRoot, treeCount, treeStored, treeStale>>

Tree == INSTANCE LLRB WITH LLRBMode <- llrbMode

TreeInit == /\ llrbMode \in {"TD234", "BU23"} /\ treeInclusive \in BOOLEAN
            /\ treeRoot = <<>> /\ treeCount = 0 /\ treeStored = {} /\ treeStale = "no"

TreeBecomes(res) == treeRoot' = res.root /\ treeCount' = treeCount + res.d
StaleAfter(kind, fast) == IF fast /\ treeStale # "insert" THEN kind ELSE treeStale

TreeInsert(e, fast) ==
  /\ TreeBecomes(Tree!Insert(treeRoot, e, fast))
  /\ treeStored' = treeStored \cup {e}
  /\ treeStale' = StaleAfter("insert", fast)
  /\ UNCHANGED <<llrbMode, treeInclusive>>

\* Delete relies on the extent of the root, which a fast insertion does not
\* widen.
TreeDelete(e, fast) ==
  /\ treeStale # "insert"
  /\ TreeBecomes(Tree!Delete(treeRoot, e, treeInclusive, fast))
  /\ treeStored' = treeStored \ {e}
  /\ treeStale' = StaleAfter("delete", fast)
  /\ UNCHANGED <<llrbMode, treeInclusive>>

IsFirst(e) == \A f \in treeStored : ~Tree!Before(f, e)
IsLast(e) == \A f \in treeStored : ~Tree!Before(e, f)
TreeDeleteMin(fast) ==
  /\ TreeBecomes(Tree!DeleteMin(treeRoot, fast))
  /\ treeStored' = {e \in treeStored : ~IsFirst(e)}
  /\ treeStale' = StaleAfter("delete", fast)
  /\ UNCHANGED <<llrbMode, treeInclusive>>
TreeDeleteMax(fast) ==
  /\ TreeBecomes(Tree!DeleteMax(treeRoot, fast))
  /\ treeStored' = {e \in treeStored : ~IsLast(e)}
  /\ treeStale' = StaleAfter("delete", fast)
  /\ UNCHANGED <<llrbMode, treeInclusive>>

TreeAdjustRanges ==
  /\ treeRoot' = Tree!AdjustRanges(treeRoot)
  /\ treeStale' = "no"
  /\ UNCHANGED <<llrbMode, treeInclusive, treeCount, treeStored>>

TreeClear == /\ treeRoot' = <<>> /\ treeCount' = 0 /\ treeStored' = {} /\ treeStale' = "no"
             /\ UNCHANGED <<llrbMode, treeInclusive>>

TreeNext == \/ \E e \in TreeElem, fast \in BOOLEAN : TreeInsert(e, fast) \/ TreeDelete(e, fast)
            \/ \E fast \in BOOLEAN : TreeDeleteMin(fast) \/ TreeDeleteMax(fast)
            \/ TreeAdjustRanges \/ TreeClear
TreeSpec == TreeInit /\ [][TreeNext]_treeVars

-----------------------------------------------------------------------------
\* The number of black nodes on every path down from t, or -1 if they differ.
RECURSIVE BlackHeight(_)
BlackHeight(t) ==
  IF t = <<>> THEN 0
  ELSE LET l == BlackHeight(t[1].left) r == BlackHeight(t[1].right)
       IN IF l # r \/ l = -1 THEN -1 ELSE l + (IF t[1].red THEN 0 ELSE 1)

RECURSIVE NodesOf(_)
NodesOf(t) == IF t = <<>> THEN {} ELSE {t[1]} \cup NodesOf(t[1].left) \cup NodesOf(t[1].right)

\* fixUp "ensures that black link balance is correct, that red nodes lean left, and
\* that 4 nodes are split in the case of BU23 and properly balanced in TD234":
\* every path has as many black nodes, no red node has a red child, and a red node
\* on the right has a red sibling, and in BU23 there is none.
Balanced ==
  /\ BlackHeight(treeRoot) # -1 /\ ~Tree!Red(treeRoot)
  /\ \A n \in NodesOf(treeRoot) :
       /\ n.red => ~Tree!Red(n.left) /\ ~Tree!Red(n.right)
       /\ Tree!Red(n.right) => Tree!Red(n.left) /\ llrbMode = "TD234"

Queries == {[start |-> s, end |-> t] : s \in 0..MaxPoint - 1, t \in 1..MaxPoint}
Matching(r) == {e \in treeStored : Tree!Overlaps(r, e, treeInclusive)}

\* Get returns every stored element that overlaps the range, each one once: the
\* extents that it prunes by are right after every operation that is not fast, and
\* after AdjustRanges.
GetIsExact ==
  treeStale = "no" =>
    \A r \in {q \in Queries : q.start < q.end} :
      LET got == Tree!GetWithOverlapper(treeRoot, r, treeInclusive) IN
        /\ {got[i] : i \in DOMAIN got} = Matching(r)
        /\ Len(got) = Cardinality(Matching(r))

\* Floor and Ceil of an element.
NeighboursOf(e) ==
  LET below == {f \in treeStored : ~Tree!Before(e, f)}
      above == {f \in treeStored : ~Tree!Before(f, e)}
      floor == Tree!Floor(treeRoot, e)
      ceil == Tree!Ceil(treeRoot, e)
  IN /\ floor = <<>> <=> below = {}
     /\ ceil = <<>> <=> above = {}
     /\ below # {} => floor[1] \in below /\ \A f \in below : ~Tree!Before(floor[1], f)
     /\ above # {} => ceil[1] \in above /\ \A f \in above : ~Tree!Before(f, ceil[1])

\* The tree is the ordered set of the elements that were inserted and not deleted,
\* whatever fast operations went before: Do visits them in the order of Compare, Len
\* counts them, Floor and Ceil return the nearest on their side, and Min and Max the
\* first and the last one.
HoldsStored ==
  LET all == Tree!Do(treeRoot) IN
    /\ {all[i] : i \in DOMAIN all} = treeStored
    /\ Len(all) = Cardinality(treeStored) /\ treeCount = Len(all)
    /\ \A i \in 1..Len(all) - 1 : Tree!Before(all[i], all[i + 1])
    /\ \A e \in TreeElem : NeighboursOf(e)
    /\ treeStored # {} => IsFirst(Tree!MinOf(treeRoot[1])) /\ IsLast(Tree!MaxOf(treeRoot[1]))
=============================================================================
