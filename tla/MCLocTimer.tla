----------------------------- MODULE MCLocTimer -----------------------------
(***************************************************************************)
(* The timer service, which takes its heaps for sets of which the top is   *)
(* one of the soonest; the heap itself, which is shown to be that; and the *)
(* linked list, which is shown to be the sequence that message queues take *)
(* it for.  They share no state; a behaviour is one of one of them.        *)
(***************************************************************************)
EXTENDS LocTimer, LocHeap, LinkedList

VARIABLE part

MCInit == Init /\ HeapInit /\ ListInit /\ part \in {"service", "heap", "list"}

MCNext ==
    /\ UNCHANGED part
    /\ \/ part = "service" /\ Next /\ UNCHANGED <<heapVars, listVars>>
       \/ part = "heap" /\ HeapNext /\ UNCHANGED <<vars, listVars>>
       \/ part = "list" /\ ListNext /\ UNCHANGED <<vars, heapVars>>

MCSpec ==
    /\ MCInit /\ [][MCNext]_<<vars, heapVars, listVars, part>>
    /\ part = "service" => WF_vars(MsgTask) /\ WF_vars(PollTask) /\ WF_vars(Tick)
=============================================================================
