------------------------------ MODULE RankedSet ------------------------------
(***************************************************************************)
(* What the timer containers rely on of a LocHeap: a set of ranked objects *)
(* that gives back the one that ranks highest, any of them when there are  *)
(* several, and one that is asked for by its identity, as the comments in  *)
(* LocHeap.cpp say.  LocHeap.h announces something else of the latter (see *)
(* RemovesTheSameRank in LocHeap).                                         *)
(***************************************************************************)
EXTENDS Naturals

CONSTANTS Ids, Ranks, Nothing

VARIABLES
    contents,   \* the objects in the set
    returned    \* what the last operation was asked for and returned

rankedVars == <<contents, returned>>

Objects == [id : Ids, rank : Ranks]
Pushable(o) == \A x \in contents : x.id # o.id
HighestIn(s) == {o \in s : \A x \in s : o.rank >= x.rank}

NothingReturned == [asked |-> Nothing, got |-> Nothing]
RankedInit == contents = {} /\ returned = NothingReturned

RankedPush ==
    \E o \in Objects :
        Pushable(o) /\ contents' = contents \cup {o} /\ returned' = NothingReturned

RankedPop ==
    \/ contents = {} /\ returned' = NothingReturned /\ UNCHANGED contents
    \/ \E o \in HighestIn(contents) : returned' = [asked |-> Nothing, got |-> o] /\ contents' = contents \ {o}

\* "either the same as input (if successfully removed); or NULL" (LocHeap.cpp)
RankedRemove ==
    \E o \in Objects :
        /\ contents' = contents \ {o}
        /\ returned' = [asked |-> o, got |-> IF o \in contents THEN o ELSE Nothing]

RankedNext == RankedPush \/ RankedPop \/ RankedRemove

RankedSpec == RankedInit /\ [][RankedNext]_rankedVars
=============================================================================
