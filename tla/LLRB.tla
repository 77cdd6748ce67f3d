-------------------------------- MODULE LLRB --------------------------------
(***************************************************************************)
(* The interval tree of utils/interval/llrb_based_interval.go: a           *)
(* left-leaning red-black tree whose nodes hold the extent of what is      *)
(* below them.  An element is [start, end, id].  A subtree is <<>> (nil)   *)
(* or <<n>> for a node n, so that following a nil pointer, which panics in *)
(* Go, is an error here.  The methods that change a node in place return   *)
(* it.                                                                     *)
(***************************************************************************)
EXTENDS Integers, Sequences, FiniteSetsExt

CONSTANT LLRBMode  \* "TD234" or "BU23", a build tag of the package

Extent(e) == [start |-> e.start, end |-> e.end]
Leaf(e) == <<[elem |-> e, range |-> Extent(e), left |-> <<>>, right |-> <<>>, red |-> TRUE]>>

Red(t) == t # <<>> /\ t[1].red  \* color() of a pointer: nil is black

\* Overlap of two ranges, with ends that belong to them or not.
OverlapsInclusive(a, b) == a.start <= b.end /\ b.start <= a.end
OverlapsExclusive(a, b) == a.start < b.end /\ b.start < a.end
Overlaps(a, b, inclusive) == IF inclusive THEN OverlapsInclusive(a, b)
                                          ELSE OverlapsExclusive(a, b)

MaxRange(n) == Max({n.elem.end} \cup {c[1].range.end : c \in {n.left, n.right} \ {<<>>}})
AdjustEnd(n) == [n EXCEPT !.range.end = MaxRange(n)]
AdjustStart(n) == [n EXCEPT !.range.start = IF n.left = <<>> THEN n.elem.start
                                                             ELSE n.left[1].range.start]
\* adjustRange.  The mutant leaves the end alone.
AdjustStartOnly(n) == AdjustStart(n)
AdjustRange(n) == AdjustEnd(AdjustStart(n))

RotateLeft(n) ==
  AdjustRange([n.right[1] EXCEPT
    !.left = <<AdjustEnd([n EXCEPT !.right = n.right[1].left, !.red = TRUE])>>,
    !.red = n.red])
RotateRight(n) ==
  AdjustEnd([n.left[1] EXCEPT
    !.right = <<AdjustRange([n EXCEPT !.left = n.left[1].right, !.red = TRUE])>>,
    !.red = n.red])
FlipColors(n) == [n EXCEPT !.red = ~@, !.left[1].red = ~@, !.right[1].red = ~@]

IfBothRed(n) == IF Red(n.left) /\ Red(n.right) THEN FlipColors(n) ELSE n
FlipIn(mode, n) == IF LLRBMode = mode THEN IfBothRed(n) ELSE n
RotateRightIfTwoReds(n) ==
  IF Red(n.left) /\ Red(n.left[1].left) THEN RotateRight(n) ELSE n
AdjustUnless(fast, n) == IF fast THEN n ELSE AdjustRange(n)

\* fixUp.  The mutant does not turn the right child first.
TurnLeft(n) == RotateLeft(n)
TurnRightThenLeft(n) ==
  IF LLRBMode = "TD234" /\ Red(n.right[1].left)
  THEN RotateLeft([n EXCEPT !.right = <<RotateRight(n.right[1])>>])
  ELSE RotateLeft(n)
LeanLeft(n) == IF Red(n.right) THEN TurnRightThenLeft(n) ELSE n
FixUp(n, fast) == FlipIn("BU23", RotateRightIfTwoReds(LeanLeft(AdjustUnless(fast, n))))

FixRightRight(n) ==
  IF LLRBMode = "TD234" /\ Red(n.right[1].right)
  THEN [n EXCEPT !.right = <<RotateLeft(n.right[1])>>] ELSE n
BorrowFromRight(n) ==
  IF Red(n.right[1].left)
  THEN FixRightRight(FlipColors(RotateLeft([n EXCEPT !.right = <<RotateRight(n.right[1])>>])))
  ELSE n
MoveRedLeft(n) == BorrowFromRight(FlipColors(n))
BorrowFromLeft(n) == IF Red(n.left[1].left) THEN FlipColors(RotateRight(n)) ELSE n
MoveRedRight(n) == BorrowFromLeft(FlipColors(n))

\* Where the children of a node are black, a red link is moved down before the
\* descent.
TwoBlacks(t) == ~Red(t) /\ ~Red(t[1].left)
RedOnLeft(n) == IF TwoBlacks(n.left) THEN MoveRedLeft(n) ELSE n
RedOnRight(n) == IF TwoBlacks(n.right) THEN MoveRedRight(n) ELSE n

-----------------------------------------------------------------------------
Before(e, f) == e.start < f.start \/ (e.start = f.start /\ e.id < f.id)
Same(e, f) == e.start = f.start /\ e.id = f.id

\* A result is the new subtree and the difference it makes to the number of
\* elements.
Result(t, d) == [root |-> t, d |-> d]

\* llrbNode.insert.
AfterInsert(n, fast) ==
  AdjustUnless(fast, FlipIn("BU23", RotateRightIfTwoReds(
    IF Red(n.right) /\ ~Red(n.left) THEN RotateLeft(n) ELSE n)))
InsertedLeft(n, res, fast) ==
  Result(<<AfterInsert([n EXCEPT !.left = res.root], fast)>>, res.d)
InsertedRight(n, res, fast) ==
  Result(<<AfterInsert([n EXCEPT !.right = res.root], fast)>>, res.d)
Replaced(n, e, fast) ==
  Result(<<AfterInsert([n EXCEPT !.elem = e, !.range.end = IF fast THEN @ ELSE e.end], fast)>>, 0)
RECURSIVE InsertNode(_, _, _), InsertInto(_, _, _)
InsertNode(n, e, fast) ==
  CASE Same(e, n.elem) -> Replaced(n, e, fast)
    [] Before(e, n.elem) -> InsertedLeft(n, InsertInto(n.left, e, fast), fast)
    [] OTHER -> InsertedRight(n, InsertInto(n.right, e, fast), fast)
InsertInto(t, e, fast) ==
  IF t = <<>> THEN Result(Leaf(e), 1) ELSE InsertNode(FlipIn("TD234", t[1]), e, fast)

\* What is left of a node after something was deleted on a side of it.
DeletedLeft(n, res, fast) ==
  Result(<<FixUp([n EXCEPT !.left = res.root,
                           !.range.start = IF res.root = <<>> THEN n.elem.start ELSE @], fast)>>,
         res.d)
DeletedRight(n, res, fast) ==
  Result(<<FixUp([n EXCEPT !.right = res.root,
                           !.range.end = IF res.root = <<>> THEN n.elem.end ELSE @], fast)>>,
         res.d)

RECURSIVE DeleteMinNode(_, _), DeleteMinBelow(_, _)
DeleteMinNode(n, fast) ==
  IF n.left = <<>> THEN Result(<<>>, -1) ELSE DeleteMinBelow(RedOnLeft(n), fast)
DeleteMinBelow(n, fast) == DeletedLeft(n, DeleteMinNode(n.left[1], fast), fast)

RECURSIVE DeleteMaxNode(_, _), DeleteMaxBelow(_, _)
DeleteMaxBelow(n, fast) == DeletedRight(n, DeleteMaxNode(n.right[1], fast), fast)
DeleteMaxLeaned(n, fast) ==
  IF n.right = <<>> THEN Result(<<>>, -1) ELSE DeleteMaxBelow(RedOnRight(n), fast)
DeleteMaxNode(n, fast) ==
  DeleteMaxLeaned(IF Red(n.left) THEN RotateRight(n) ELSE n, fast)

RECURSIVE MinOf(_), MaxOf(_)
MinOf(n) == IF n.left = <<>> THEN n.elem ELSE MinOf(n.left[1])
MaxOf(n) == IF n.right = <<>> THEN n.elem ELSE MaxOf(n.right[1])

\* llrbNode.delete.  An element on the right is recognised by its id.
TakeMinOfRight(n, fast) ==
  DeletedRight([n EXCEPT !.elem = MinOf(n.right[1])], DeleteMinNode(n.right[1], fast), fast)
RECURSIVE DeleteNode(_, _, _), DeleteOnLeft(_, _, _), DeleteOnRight(_, _, _)
DeleteOnLeft(n, e, fast) == DeletedLeft(n, DeleteNode(n.left[1], e, fast), fast)
DeleteOnRight(n, e, fast) ==
  IF e.id = n.elem.id THEN TakeMinOfRight(n, fast)
                      ELSE DeletedRight(n, DeleteNode(n.right[1], e, fast), fast)
\* The mutant deletes the node where the search ends, whatever its id.
DeleteWhereItEnds(n, e, fast) ==
  IF n.right # <<>> THEN DeleteOnRight(RedOnRight(n), e, fast) ELSE Result(<<>>, -1)
DeleteHereOrRight(n, e, fast) ==
  CASE n.right # <<>>  -> DeleteOnRight(RedOnRight(n), e, fast)
    [] e.id = n.elem.id -> Result(<<>>, -1)
    [] OTHER            -> Result(<<FixUp(n, fast)>>, 0)
DeleteNode(n, e, fast) ==
  IF Before(e, n.elem)
  THEN IF n.left = <<>> THEN Result(<<FixUp(n, fast)>>, 0)
                        ELSE DeleteOnLeft(RedOnLeft(n), e, fast)
  ELSE DeleteHereOrRight(IF Red(n.left) THEN RotateRight(n) ELSE n, e, fast)

RECURSIVE AdjustNode(_)
AdjustNode(n) ==
  AdjustRange([n EXCEPT !.left = IF @ = <<>> THEN @ ELSE <<AdjustNode(@[1])>>,
                        !.right = IF @ = <<>> THEN @ ELSE <<AdjustNode(@[1])>>])

-----------------------------------------------------------------------------
\* The methods of llrbTree.  The root is black after an insertion or a deletion.
Black(t) == IF t = <<>> THEN t ELSE [t EXCEPT ![1].red = FALSE]
Blackened(res) == [res EXCEPT !.root = Black(@)]

Insert(t, e, fast) == Blackened(InsertInto(t, e, fast))
DeleteMin(t, fast) == IF t = <<>> THEN Result(t, 0) ELSE Blackened(DeleteMinNode(t[1], fast))
DeleteMax(t, fast) == IF t = <<>> THEN Result(t, 0) ELSE Blackened(DeleteMaxNode(t[1], fast))
AdjustRanges(t) == IF t = <<>> THEN t ELSE <<AdjustNode(t[1])>>

\* Delete does nothing if the extent of the root does not overlap the element.
Reaches(t, e, inclusive) == t # <<>> /\ Overlaps(Extent(e), t[1].range, inclusive)
Delete(t, e, inclusive, fast) ==
  IF Reaches(t, e, inclusive) THEN Blackened(DeleteNode(t[1], e, fast)) ELSE Result(t, 0)

\* GetWithOverlapper, with doMatch: subtrees whose extent does not overlap are
\* skipped.
RECURSIVE DoMatch(_, _, _)
DoMatch(t, r, inclusive) ==
  IF t = <<>> \/ ~Overlaps(r, t[1].range, inclusive) THEN <<>>
  ELSE DoMatch(t[1].left, r, inclusive)
       \o (IF Overlaps(r, t[1].elem, inclusive) THEN <<t[1].elem>> ELSE <<>>)
       \o DoMatch(t[1].right, r, inclusive)
GetWithOverlapper(t, r, inclusive) == DoMatch(t, r, inclusive)

\* Do and Iterator: all elements in order.
RECURSIVE Do(_)
Do(t) == IF t = <<>> THEN <<>> ELSE Do(t[1].left) \o <<t[1].elem>> \o Do(t[1].right)

\* Floor and Ceil: <<>> if there is none.
RECURSIVE Floor(_, _), Ceil(_, _)
OrElse(found, e) == IF found = <<>> THEN <<e>> ELSE found
Floor(t, e) ==
  CASE t = <<>>               -> <<>>
    [] Same(e, t[1].elem)     -> <<t[1].elem>>
    [] Before(e, t[1].elem)   -> Floor(t[1].left, e)
    [] OTHER                  -> OrElse(Floor(t[1].right, e), t[1].elem)
Ceil(t, e) ==
  CASE t = <<>>               -> <<>>
    [] Same(e, t[1].elem)     -> <<t[1].elem>>
    [] Before(t[1].elem, e)   -> Ceil(t[1].right, e)
    [] OTHER                  -> OrElse(Ceil(t[1].left, e), t[1].elem)
=============================================================================
