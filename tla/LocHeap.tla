------------------------------- MODULE LocHeap -------------------------------
(***************************************************************************)
(* The heap of the timer containers: a binary tree that is sorted from top *)
(* to bottom and not from left to right.  A node keeps the size of its     *)
(* subtree, which decides where the next object is pushed.                 *)
(***************************************************************************)
EXTENDS Naturals

CONSTANTS
    Ids,        \* the objects
    Ranks,      \* their ranks; an object keeps its rank while it is in the heap
    Nothing     \* NULL

VARIABLES
    mTree,      \* the node at the top
    popped      \* what the last operation was asked for and returned

heapVars == <<mTree, popped>>

Empty == [size |-> 0]
Leaf(o) == [size |-> 1, data |-> o, left |-> Empty, right |-> Empty]
OutRanks(o, p) == o.rank > p.rank

\* What was asked for and what was given back.
NothingGiven == [asked |-> Nothing, got |-> Nothing]
HeapInit == mTree = Empty /\ popped = NothingGiven

RECURSIVE ContentsOf(_), PushInto(_, _), WithoutTop(_), Without(_, _)

ContentsOf(t) == IF t = Empty THEN {} ELSE {t.data} \cup ContentsOf(t.left) \cup ContentsOf(t.right)

\* LocHeapNode::push: the higher stays, the lower goes to the smaller subtree.
PushInto(t, o) ==
    IF t = Empty THEN Leaf(o)
    ELSE LET swap == OutRanks(o, t.data)
             low == IF swap THEN t.data ELSE o
             top == [t EXCEPT !.data = IF swap THEN o ELSE @, !.size = @ + 1]
         IN  IF t.left = Empty \/ (t.right # Empty /\ t.left.size <= t.right.size)
             THEN [top EXCEPT !.left = PushInto(@, low)]
             ELSE [top EXCEPT !.right = PushInto(@, low)]

\* LocHeapNode::pop: whichever top of a subtree ranks higher moves up.
LeftMovesUp(t) ==
    t.left # Empty /\ (t.right = Empty \/ OutRanks(t.left.data, t.right.data))

WithoutTop(t) ==
    IF t.size = 1 THEN Empty
    ELSE IF LeftMovesUp(t)
    THEN [t EXCEPT !.size = @ - 1, !.data = t.left.data, !.left = WithoutTop(@)]
    ELSE [t EXCEPT !.size = @ - 1, !.data = t.right.data, !.right = WithoutTop(@)]

\* Mutant: an object of the same rank is not looked for below.
MayHoldBelow(t, o) == OutRanks(t.data, o)

\* LocHeapNode::remove: a linear search that leaves out what ranks below the object.
MayHold(t, o) == ~OutRanks(o, t.data)

Without(t, o) ==
    IF t = Empty THEN t
    ELSE IF t.data = o THEN WithoutTop(t)
    ELSE IF ~MayHold(t, o) THEN t
    ELSE LET left == Without(t.left, o)
             right == IF left # t.left THEN t.right ELSE Without(t.right, o)
         IN  IF left = t.left /\ right = t.right THEN t
             ELSE [t EXCEPT !.left = left, !.right = right, !.size = @ - 1]

-----------------------------------------------------------------------------
\* An object is pushed once until it is popped or removed (LocTimerContainer).
HeapPush ==
    /\ \E o \in [id : Ids, rank : Ranks] :
         /\ \A x \in ContentsOf(mTree) : x.id # o.id
         /\ mTree' = PushInto(mTree, o)
    /\ popped' = NothingGiven

HeapPop ==
    IF mTree = Empty THEN popped' = NothingGiven /\ UNCHANGED mTree
    ELSE popped' = [NothingGiven EXCEPT !.got = mTree.data] /\ mTree' = WithoutTop(mTree)

HeapRemove ==
    \E o \in [id : Ids, rank : Ranks] :
        /\ mTree' = Without(mTree, o)
        /\ popped' = [asked |-> o, got |-> IF mTree' # mTree THEN o ELSE Nothing]

HeapNext == HeapPush \/ HeapPop \/ HeapRemove

HeapSpec == HeapInit /\ [][HeapNext]_heapVars

-----------------------------------------------------------------------------
(* Properties.                                                             *)

Set == INSTANCE RankedSet WITH contents <- ContentsOf(mTree), returned <- popped

\* The heap is the set it promises to be: it pops an object that ranks highest and
\* finds every object it is asked to remove by its address, wherever pushes and pops
\* have put it.
HeapIsRankedSet == Set!RankedSpec

\* "find the node that ranks the same as the input data, then remove it from the tree ...
\* or NULL (if failed)" (LocHeap.h, remove): who is given nothing leaves nothing behind
\* that ranks the same.
RemovesTheSameRank ==
    popped.asked # Nothing /\ popped.got = Nothing =>
        \A o \in ContentsOf(mTree) : o.rank # popped.asked.rank
=============================================================================
