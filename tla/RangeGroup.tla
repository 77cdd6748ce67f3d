----------------------------- MODULE RangeGroup -----------------------------
(***************************************************************************)
(* RangeGroup of utils/interval/range_group.go: a set of points kept as    *)
(* disjoint ranges.  Its two implementations, rangeList (ranges in a       *)
(* linked list of buckets) and rangeTree (ranges in an interval tree), are *)
(* checked against that set.  A range is [start, end], without its end.    *)
(***************************************************************************)
EXTENDS Integers, Sequences
LOCAL INSTANCE SequencesExt

CONSTANTS MaxBound,   \* the largest bound of a range
          BucketSize  \* rangeListNodeBucketSize

ASSUME RangeAssumption == MaxBound \in Nat \ {0} /\ BucketSize \in Nat \ {0}

VARIABLES rgKind,    \* the implementation: "list" or "tree"
          list,      \* rangeList: the buckets, in order, and the number of ranges
          tree,      \* rangeTree.t: the root and the number of ranges
          rgPoints,  \* the points that were added and not subtracted since
          rgRight    \* the last Add or Sub told rightly whether they changed

rgVars == <<rgKind, list, tree, rgPoints, rgRight>>

\* The trees of a package built without the tag td234.
T == INSTANCE LLRB WITH LLRBMode <- "BU23"

Point == 0..MaxBound - 1
Ranges == {[start |-> s, end |-> e] : s \in Point, e \in 1..MaxBound}
ValidRange == {r \in Ranges : r.start < r.end}  \* rangeError refuses the others

\* contains.  The mutant compares the starts strictly.
HoldsStrictly(out, in) == in.start > out.start /\ out.end >= in.end
Holds(out, in) == in.start >= out.start /\ out.end >= in.end
Merge(l, r) == [start |-> IF r.start < l.start THEN r.start ELSE l.start,
                end |-> IF r.end > l.end THEN r.end ELSE l.end]

-----------------------------------------------------------------------------
\* rangeList.  An answer of an operation comes with the new list.
NewRangeList == [nodes |-> << <<>> >>, len |-> 0]
With(l, answer) == [list |-> l, answer |-> answer]
SetNode(l, k, slots, len) == [nodes |-> [l.nodes EXCEPT ![k] = slots], len |-> len]
Full(n) == Len(n) = BucketSize

\* The first position of a sequence where Test holds, or the one past its end.
FirstOrEnd(s, Test(_)) ==
  LET found == {i \in DOMAIN s : Test(s[i])} IN IF found = {} THEN Len(s) + 1 ELSE Min(found)

\* findNode, the position of cur; prev is the one before.
FindNode(nodes, r, inclusive) ==
  FirstOrEnd(nodes, LAMBDA n : n = <<>> \/ (IF inclusive THEN Last(n).end >= r.start
                                                         ELSE Last(n).end > r.start))
\* findNode's inCur.
InCur(nodes, k, r, inclusive) ==
  /\ k <= Len(nodes) /\ nodes[k] # <<>>
  /\ IF inclusive THEN Head(nodes[k]).start < r.end ELSE Head(nodes[k]).start <= r.end

\* findIdx: the slot, and whether what is in it overlaps.
FindIdx(n, r, inclusive) ==
  FirstOrEnd(n, LAMBDA nr : \/ T!Overlaps(nr, r, inclusive)
                            \/ IF inclusive THEN r.end < nr.start ELSE r.end <= nr.start)
Hit(n, i, r, inclusive) == i <= Len(n) /\ T!Overlaps(n[i], r, inclusive)

\* insertAtIdx, the part that finds room for a range beyond the full node k.  The
\* mutant puts it at the end of the next node.
ShiftToEnd(l, k, r) == SetNode(l, k + 1, Append(l.nodes[k + 1], r), l.len + 1)
ShiftInto(l, k, r) == SetNode(l, k + 1, <<r>> \o l.nodes[k + 1], l.len + 1)
ShiftOff(l, k, r) ==
  IF k < Len(l.nodes) /\ ~Full(l.nodes[k + 1]) THEN ShiftInto(l, k, r)
  ELSE [nodes |-> InsertAt(l.nodes, k + 1, <<r>>), len |-> l.len + 1]
Place(l, k, slots) == SetNode(l, k, slots, l.len)
InsertAtIdx(l, k, r, i, n) ==
  CASE ~Full(n)       -> SetNode(l, k, InsertAt(n, i, r), l.len + 1)
    [] i = Len(n) + 1 -> ShiftOff(l, k, r)
    [] OTHER          -> Place(ShiftOff(l, k, Last(n)), k, InsertAt(Front(n), i, r))

\* The merging of Add: the ranges from slot j on that newR overlaps become part of
\* it, and a node of which nothing is left goes away.
RECURSIVE Absorb(_, _, _)
Absorb(n, j, newR) ==
  IF j <= Len(n) /\ T!OverlapsInclusive(newR, n[j]) THEN Absorb(n, j + 1, Merge(newR, n[j]))
                                                    ELSE [j |-> j, r |-> newR]
RECURSIVE MergeNext(_, _, _), MergedNext(_, _, _, _)
MergedNext(l, k, n, a) ==
  IF a.j > Len(n)
  THEN MergeNext([nodes |-> RemoveAt(l.nodes, k + 1), len |-> l.len - Len(n)], k, a.r)
  ELSE SetNode(SetNode(l, k + 1, SubSeq(n, a.j, Len(n)), l.len - (a.j - 1)), k,
               Append(Front(l.nodes[k]), a.r), l.len - (a.j - 1))
MergeNext(l, k, newR) ==
  IF k = Len(l.nodes) THEN Place(l, k, Append(Front(l.nodes[k]), newR))
  ELSE MergedNext(l, k, l.nodes[k + 1], Absorb(l.nodes[k + 1], 1, newR))
MergedInto(l, k, i, n, a) ==
  IF a.j <= Len(n)
  THEN SetNode(l, k, SubSeq(n, 1, i - 1) \o <<a.r>> \o SubSeq(n, a.j, Len(n)),
               l.len - (a.j - i - 1))
  ELSE MergeNext(SetNode(l, k, SubSeq(n, 1, i - 1) \o <<a.r>>, l.len - (a.j - i - 1)), k, a.r)

\* Add: to the end of the previous node, into the current one, or in a new node.
AddToCur(l, k, r, n, i) ==
  CASE ~Hit(n, i, r, TRUE) -> With(InsertAtIdx(l, k, r, i, n), TRUE)
    [] Holds(n[i], r)      -> With(l, FALSE)
    [] OTHER               -> With(MergedInto(l, k, i, n, Absorb(n, i + 1, Merge(n[i], r))), TRUE)
AddAt(l, k, r) ==
  CASE ~InCur(l.nodes, k, r, TRUE) /\ k > 1 /\ ~Full(l.nodes[k - 1]) ->
         With(SetNode(l, k - 1, Append(l.nodes[k - 1], r), l.len + 1), TRUE)
    [] k <= Len(l.nodes) -> AddToCur(l, k, r, l.nodes[k], FindIdx(l.nodes[k], r, TRUE))
    [] OTHER -> With([nodes |-> InsertAt(l.nodes, k, <<r>>), len |-> l.len + 1], TRUE)
ListAdd(l, r) == AddAt(l, FindNode(l.nodes, r, TRUE), r)

\* Sub: from slot i of node k on.
RECURSIVE SubFrom(_, _, _, _), SubSlot(_, _, _, _, _), MoveOn(_, _, _, _)
MoveOn(l, k, i, r) ==
  CASE i <= Len(l.nodes[k]) -> SubFrom(l, k, i, r)
    [] k = Len(l.nodes)     -> l
    [] OTHER                -> SubFrom(l, k + 1, 1, r)
RemoveSlot(l, k, i, r) ==
  CASE Len(l.nodes[k]) > 1 -> MoveOn(SetNode(l, k, RemoveAt(l.nodes[k], i), l.len - 1), k, i, r)
    [] l.len = 1           -> SetNode(l, k, <<>>, 0)
    [] k = Len(l.nodes)    -> [nodes |-> Front(l.nodes), len |-> l.len - 1]
    [] OTHER               -> SubFrom([nodes |-> RemoveAt(l.nodes, k), len |-> l.len - 1], k, 1, r)
SubSlot(l, k, i, r, nr) ==
  CASE ~T!OverlapsExclusive(nr, r) -> l
    [] Holds(r, nr)        -> RemoveSlot(l, k, i, r)
    [] nr.start >= r.start -> Place(l, k, [l.nodes[k] EXCEPT ![i].start = r.end])
    [] nr.end <= r.end     -> MoveOn(Place(l, k, [l.nodes[k] EXCEPT ![i].end = r.start]), k, i + 1, r)
    [] OTHER -> InsertAtIdx(Place(l, k, [l.nodes[k] EXCEPT ![i].end = r.start]), k,
                            [start |-> r.end, end |-> nr.end], i + 1,
                            [l.nodes[k] EXCEPT ![i].end = r.start])
SubFrom(l, k, i, r) == SubSlot(l, k, i, r, l.nodes[k][i])
Finds(l, k, i, r) == InCur(l.nodes, k, r, FALSE) /\ Hit(l.nodes[k], i, r, FALSE)
SubAt(l, k, i, r) == IF Finds(l, k, i, r) THEN With(SubFrom(l, k, i, r), TRUE) ELSE With(l, FALSE)
FindIdxIn(nodes, k, r) == IF k <= Len(nodes) THEN FindIdx(nodes[k], r, FALSE) ELSE 1
SubIn(l, k, r) == SubAt(l, k, FindIdxIn(l.nodes, k, r), r)
ListSub(l, r) == SubIn(l, FindNode(l.nodes, r, FALSE), r)

OverlapsIn(l, k, r) == Finds(l, k, FindIdxIn(l.nodes, k, r), r)
ListOverlaps(l, r) == OverlapsIn(l, FindNode(l.nodes, r, FALSE), r)
EnclosesIn(l, k, i, r) == Finds(l, k, i, r) /\ Holds(l.nodes[k][i], r)
EnclosesAt(l, k, r) == EnclosesIn(l, k, FindIdxIn(l.nodes, k, r), r)
ListEncloses(l, r) == EnclosesAt(l, FindNode(l.nodes, r, FALSE), r)

\* The iterator stops at a node that is empty.
ListRanges(l) == FlattenSeq(SubSeq(l.nodes, 1, FirstOrEnd(l.nodes, LAMBDA n : n = <<>>) - 1))

-----------------------------------------------------------------------------
\* rangeTree.  Its elements are pointers to rangeKeys: a key whose range changes
\* stays where it is in the tree.  makeKey counts ids up; here an id is the least
\* one that is free, since only their being different matters.
NewRangeTree == [root |-> <<>>, count |-> 0]
Extents(elems) == [i \in DOMAIN elems |-> T!Extent(elems[i])]
TreeRanges(t) == Extents(T!Do(t.root))
IdsOf(elems) == {elems[i].id : i \in DOMAIN elems}
Ids(t) == IdsOf(T!Do(t.root))
MakeKey(r, used) == [start |-> r.start, end |-> r.end,
                     id |-> Min((1..MaxBound + 1) \ used)]
Changed(t, res) == [root |-> res.root, count |-> t.count + res.d]
InsertKey(t, key, fast) == Changed(t, T!Insert(t.root, key, fast))
DeleteKey(t, key) == Changed(t, T!Delete(t.root, key, TRUE, TRUE))
RECURSIVE SetIn(_, _, _)
SetIn(sub, id, r) ==
  IF sub = <<>> THEN sub
  ELSE <<[sub[1] EXCEPT !.elem = IF @.id = id THEN [start |-> r.start, end |-> r.end, id |-> id] ELSE @,
                        !.left = SetIn(@, id, r), !.right = SetIn(@, id, r)]>>
SetRange(t, key, r) == [t EXCEPT !.root = SetIn(@, key.id, r)]
Adjusted(t) == [t EXCEPT !.root = T!AdjustRanges(@)]

\* Add: the first of the ranges that overlap takes in the others.
AbsorbAll(t, all, r) ==
  Adjusted(FoldLeft(LAMBDA u, o : DeleteKey(u, o),
                    SetRange(t, Head(all), FoldLeft(Merge, r, all)), Tail(all)))
AddOver(t, all, r) ==
  CASE all = <<>>          -> With(InsertKey(t, MakeKey(r, Ids(t)), FALSE), TRUE)
    [] Holds(Head(all), r) -> With(t, FALSE)
    [] OTHER               -> With(AbsorbAll(t, all, r), TRUE)
TreeAdd(t, r) == AddOver(t, T!GetWithOverlapper(t.root, r, TRUE), r)

\* Sub: every range that overlaps is deleted, cut or split.
Subtract(t, o, r) ==
  CASE Holds(r, o)         -> DeleteKey(t, o)
    [] o.start >= r.start  -> SetRange(t, o, [start |-> r.end, end |-> o.end])
    [] o.end <= r.end      -> SetRange(t, o, [start |-> o.start, end |-> r.start])
    [] OTHER -> InsertKey(SetRange(t, o, [start |-> o.start, end |-> r.start]),
                          MakeKey([start |-> r.end, end |-> o.end], Ids(t)), TRUE)
SubOver(t, all, r) ==
  IF all = <<>> THEN With(t, FALSE)
  ELSE With(Adjusted(FoldLeft(LAMBDA u, o : Subtract(u, o, r), t, all)), TRUE)
TreeSub(t, r) == SubOver(t, T!GetWithOverlapper(t.root, r, FALSE), r)

TreeOverlaps(t, r) == T!GetWithOverlapper(t.root, r, FALSE) # <<>>
OnlyOne(all, r) == Len(all) = 1 /\ Holds(Head(all), r)
TreeEncloses(t, r) == OnlyOne(T!GetWithOverlapper(t.root, r, FALSE), r)

\* RangeGroupsOverlap, of two iterations: the range that starts first goes.
AdvanceFirst(r1, r2) == r1.start < r2.start
RECURSIVE RangeGroupsOverlap(_, _)
RangeGroupsOverlap(rs1, rs2) ==
  /\ rs1 # <<>> /\ rs2 # <<>>
  /\ ~T!OverlapsExclusive(rs1[1], rs2[1]) =>
       IF AdvanceFirst(rs1[1], rs2[1]) THEN RangeGroupsOverlap(Tail(rs1), rs2)
                                       ELSE RangeGroupsOverlap(rs1, Tail(rs2))

-----------------------------------------------------------------------------
PointsOf(r) == r.start..r.end - 1
Covered(rs) == UNION {PointsOf(rs[i]) : i \in DOMAIN rs}

RangeInit == /\ rgKind \in {"list", "tree"}
             /\ list = NewRangeList /\ tree = NewRangeTree
             /\ rgPoints = {} /\ rgRight = TRUE

ListStep(res, points) ==
  /\ rgKind = "list" /\ list' = res.list /\ rgPoints' = points
  /\ rgRight' = (res.answer = (points # rgPoints))
  /\ UNCHANGED <<rgKind, tree>>
TreeStep(res, points) ==
  /\ rgKind = "tree" /\ tree' = res.list /\ rgPoints' = points
  /\ rgRight' = (res.answer = (points # rgPoints))
  /\ UNCHANGED <<rgKind, list>>

RangeAdd(r) == \/ ListStep(ListAdd(list, r), rgPoints \cup PointsOf(r))
               \/ TreeStep(TreeAdd(tree, r), rgPoints \cup PointsOf(r))
RangeSub(r) == \/ ListStep(ListSub(list, r), rgPoints \ PointsOf(r))
               \/ TreeStep(TreeSub(tree, r), rgPoints \ PointsOf(r))
RangeClear == /\ list' = NewRangeList /\ tree' = NewRangeTree
              /\ rgPoints' = {} /\ rgRight' = TRUE
              /\ UNCHANGED rgKind

RangeNext == (\E r \in ValidRange : RangeAdd(r) \/ RangeSub(r)) \/ RangeClear
RangeSpec == RangeInit /\ [][RangeNext]_rgVars

-----------------------------------------------------------------------------
\* The set as the smallest number of ranges.
RangesOf(S) ==
  SetToSortSeq({r \in ValidRange : /\ PointsOf(r) \subseteq S
                                  /\ r.start - 1 \notin S /\ r.end \notin S},
               LAMBDA a, b : a.start < b.start)

TreeHoldsPoints ==
  /\ TreeRanges(tree) = RangesOf(rgPoints) /\ tree.count = Len(TreeRanges(tree))
  /\ \A r \in ValidRange : /\ TreeOverlaps(tree, r) <=> PointsOf(r) \cap rgPoints # {}
                           /\ TreeEncloses(tree, r) <=> PointsOf(r) \subseteq rgPoints

ListHoldsPoints ==
  LET rs == ListRanges(list) IN
    /\ Covered(rs) = rgPoints /\ list.len = Len(rs)
    /\ \A i \in 1..Len(rs) - 1 : rs[i].end <= rs[i + 1].start
    /\ \A k \in DOMAIN list.nodes : /\ Len(list.nodes[k]) <= BucketSize
                                    /\ list.nodes[k] = <<>> => Len(list.nodes) = 1
    /\ \A r \in ValidRange : ListOverlaps(list, r) <=> PointsOf(r) \cap rgPoints # {}
    /\ \A S \in SUBSET Point : RangeGroupsOverlap(rs, RangesOf(S)) <=> rgPoints \cap S # {}

\* The group holds the points that were added and not subtracted, and counts its
\* ranges.  The tree has the points in "its minimum number of disjoint ranges"
\* (RangeGroup), and answers Overlaps and Encloses right; the list has them in ranges
\* that are in order and do not overlap, in nodes none of which is empty but a single
\* one, and answers Overlaps right, and RangeGroupsOverlap with every other group.
HoldsPoints == IF rgKind = "tree" THEN TreeHoldsPoints ELSE ListHoldsPoints

Touching(rs) == \E i \in 1..Len(rs) - 1 : rs[i].end = rs[i + 1].start

\* Add returns "whether the addition increased the range of the group or not", and
\* Sub whether it "reduced" it (RangeGroup), unless two ranges of a list touch.
AnswersRight == [][~Touching(ListRanges(list)) => rgRight']_rgVars

\* "Encloses returns whether the provided Range is fully contained within the group
\* of Ranges in the RangeGroup" (RangeGroup): of a list, too.
EnclosesExact ==
  rgKind = "list" => \A r \in ValidRange : ListEncloses(list, r) <=> PointsOf(r) \subseteq rgPoints
=============================================================================
