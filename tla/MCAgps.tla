------------------------------- MODULE MCAgps -------------------------------
(***************************************************************************)
(* The AGPS manager, which takes the adapter's queue for a sequence that   *)
(* one thread handles in order, and the message task that is to be that    *)
(* queue and that thread.  They share no state; a behaviour is one of the  *)
(* one or of the other.                                                    *)
(***************************************************************************)
EXTENDS Agps, MsgTask

VARIABLE part

MCInit ==
    /\ Init /\ TaskInit /\ part \in {"agps", "task"}
    /\ part = "task" => mDsNif = "created"

MCNext ==
    /\ UNCHANGED part
    /\ \/ part = "agps" /\ Next /\ UNCHANGED taskVars
       \/ part = "task" /\ TaskNext /\ UNCHANGED vars

\* The actions of the part that rests are not enabled.
MCSpec == MCInit /\ [][MCNext]_<<vars, taskVars, part>> /\ Fairness /\ TaskFairness
=============================================================================
