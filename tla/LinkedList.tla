----------------------------- MODULE LinkedList -----------------------------
(***************************************************************************)
(* The doubly linked list under the message queues (utils/linked_list.c):  *)
(* list elements taken from the heap, linked both ways between a head,     *)
(* where data are added, and a tail, where they are removed.               *)
(***************************************************************************)
EXTENDS Naturals, FiniteSets, Sequences, SequencesExt

CONSTANTS
    Cells,      \* memory for list elements
    Data,       \* the data added; each is in the list once, and never after
                \* the list has deallocated it
    NoData      \* NULL, of cells and of data

VARIABLES
    cell,       \* the contents of the cells in use
    p_head, p_tail,
    handed,     \* *data_p, what the last operation handed out
    freed       \* data that their dealloc_func was called for

listVars == <<cell, p_head, p_tail, handed, freed>>

InUse == DOMAIN cell

\* A write through a pointer; through NULL there is none.
Writing(cells, p, field, value) ==
    IF p = NoData THEN cells ELSE [cells EXCEPT ![p] = [@ EXCEPT ![field] = value]]

Element(d, owned, n) == [data |-> d, owned |-> owned, next |-> n, prev |-> NoData]

ListInit ==
    /\ cell = [x \in {} |-> NoData]
    /\ p_head = NoData /\ p_tail = NoData
    /\ handed = NoData
    /\ freed = {}

linked_list_add ==
    \E c \in Cells \ InUse, d \in Data \ freed, owned \in BOOLEAN :
        /\ \A x \in InUse : cell[x].data # d
        /\ cell' = [x \in InUse \cup {c} |->
                       IF x = c THEN Element(d, owned, p_head)
                       ELSE Writing(cell, p_head, "prev", c)[x]]
        /\ p_head' = c
        /\ p_tail' = IF p_head = NoData THEN c ELSE p_tail
        /\ handed' = NoData
        /\ UNCHANGED freed

linked_list_remove ==
    /\ p_tail # NoData
    /\ LET last == cell[p_tail]
       IN  /\ p_tail' = last.prev
           /\ p_head' = IF last.prev = NoData THEN NoData ELSE p_head
           /\ cell' = [x \in InUse \ {p_tail} |-> Writing(cell, last.prev, "next", NoData)[x]]
           /\ handed' = last.data
    /\ UNCHANGED freed

\* The cells met on the way from a cell, itself first.
WayFrom(p, field) ==
    LET way[n \in 0..Cardinality(Cells)] ==
            IF n = 0 THEN IF p = NoData THEN <<>> ELSE <<p>>
            ELSE IF way[n - 1] = <<>> \/ cell[Last(way[n - 1])][field] = NoData THEN way[n - 1]
            ELSE Append(way[n - 1], cell[Last(way[n - 1])][field])
    IN  way[Cardinality(InUse)]

FromHead == WayFrom(p_head, "next")

OwnedBy(cells) == {cell[x].data : x \in {y \in cells : cell[y].owned}}

linked_list_flush ==
    /\ cell' = [x \in InUse \ Range(FromHead) |-> cell[x]]
    /\ p_head' = NoData /\ p_tail' = NoData
    /\ freed' = freed \cup OwnedBy(Range(FromHead))
    /\ handed' = NoData

\* A search takes out an element wherever it is.
TakeOut(c) ==
    LET e == cell[c]
    IN  /\ p_head' = IF e.prev = NoData THEN e.next ELSE p_head
        /\ p_tail' = IF e.next = NoData THEN e.prev ELSE p_tail
        /\ cell' = [x \in InUse \ {c} |->
               Writing(Writing(cell, e.prev, "next", e.next), e.next, "prev", e.prev)[x]]

\* Mutant: data that are handed out are deallocated as well.
DisposeAlways(c, out) == freed' = freed \cup OwnedBy({c})

Dispose(c, out) == freed' = freed \cup (IF out THEN {} ELSE OwnedBy({c}))

linked_list_search(wanted, out, rm) ==
    /\ p_tail # NoData
    /\ LET hits == SelectSeq(FromHead, LAMBDA c : cell[c].data \in wanted)
       IN  IF hits = <<>>
           THEN handed' = NoData /\ UNCHANGED <<cell, p_head, p_tail, freed>>
           ELSE /\ handed' = IF out THEN cell[Head(hits)].data ELSE NoData
                /\ IF rm THEN TakeOut(Head(hits)) /\ Dispose(Head(hits), out)
                   ELSE UNCHANGED <<cell, p_head, p_tail, freed>>

ListNext ==
    \/ linked_list_add \/ linked_list_remove \/ linked_list_flush
    \/ \E wanted \in SUBSET Data, out, rm \in BOOLEAN : linked_list_search(wanted, out, rm)

ListSpec == ListInit /\ [][ListNext]_listVars

-----------------------------------------------------------------------------
(* Properties.                                                             *)

Contents == [i \in DOMAIN FromHead |->
                [data |-> cell[FromHead[i]].data, owned |-> cell[FromHead[i]].owned]]

Promise == INSTANCE DataSequence WITH elements <- Contents, given <- handed, disposed <- freed

\* The list is the sequence it promises to be: oldest data first out, the right
\* element taken out of the middle, each deallocated only when the list still owns it.
ListIsSequence == Promise!SequenceSpec
=============================================================================
