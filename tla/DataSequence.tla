---------------------------- MODULE DataSequence ----------------------------
(***************************************************************************)
(* What a linked list promises its users: the data in the order they were  *)
(* added, newest first.  The list hands the oldest back, finds one, and    *)
(* disposes of data that it was told how to deallocate.                    *)
(***************************************************************************)
EXTENDS Sequences, SequencesExt

CONSTANTS Data, NoData

VARIABLES
    elements,   \* the data, each with whether the list may deallocate it
    given,      \* what the last operation handed out
    disposed    \* data the list deallocated

sequenceVars == <<elements, given, disposed>>

Owned(s) == {e.data : e \in {x \in Range(s) : x.owned}}

SequenceInit == elements = <<>> /\ given = NoData /\ disposed = {}

Prepend ==
    \E d \in Data \ disposed, own \in BOOLEAN :
        /\ \A e \in Range(elements) : e.data # d
        /\ elements' = <<[data |-> d, owned |-> own]>> \o elements
        /\ given' = NoData
        /\ UNCHANGED disposed

TakeOldest ==
    /\ elements # <<>>
    /\ given' = Last(elements).data
    /\ elements' = Front(elements)
    /\ UNCHANGED disposed

Clear ==
    /\ elements' = <<>>
    /\ disposed' = disposed \cup Owned(elements)
    /\ given' = NoData

\* The newest of the wanted data is handed out, taken out, or both; taken out
\* and not handed out it is deallocated.
FindIn(wanted, out, rm) ==
    LET found == SelectInSeq(elements, LAMBDA e : e.data \in wanted)
    IN  IF found = 0 THEN given' = NoData /\ UNCHANGED <<elements, disposed>>
        ELSE /\ given' = IF out THEN elements[found].data ELSE NoData
             /\ elements' = IF rm THEN RemoveAt(elements, found) ELSE elements
             /\ disposed' = disposed \cup
                    (IF rm /\ ~out THEN Owned(<<elements[found]>>) ELSE {})

SequenceNext ==
    \/ Prepend \/ TakeOldest \/ Clear
    \/ \E wanted \in SUBSET Data, out, rm \in BOOLEAN : FindIn(wanted, out, rm)

SequenceSpec == SequenceInit /\ [][SequenceNext]_sequenceVars
=============================================================================
