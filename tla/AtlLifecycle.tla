---------------------------- MODULE AtlLifecycle ----------------------------
(***************************************************************************)
(* What the AGPS manager promises the modem about one connection handle,   *)
(* whatever multiplexing, retrying and waiting goes on behind it:          *)
(*   - it answers an open request once, with success or failure;           *)
(*   - it closes a handle that is open (on release, or because the         *)
(*     connection was lost), or one the modem has released;                *)
(*   - it never opens a handle again after it failed or was closed.        *)
(***************************************************************************)
CONSTANT Handle      \* connection handles

VARIABLES
  atl,               \* what the modem was last told about each handle
  released           \* the handles it has released

lifecycleVars == <<atl, released>>

Init == atl = [h \in Handle |-> "idle"] /\ released = {}

In(status) == {h \in Handle : atl[h] = status}

Tell(H, status) ==
  /\ H # {}
  /\ atl' = [h \in Handle |-> IF h \in H THEN status ELSE atl[h]]
  /\ UNCHANGED released

Request(h) ==
  /\ atl[h] = "idle"
  /\ atl' = [atl EXCEPT ![h] = "requested"]
  /\ UNCHANGED released

Release(h) ==
  /\ atl[h] \in {"requested", "open"}
  /\ released' = released \cup {h}
  /\ UNCHANGED atl

Open == \E H \in SUBSET In("requested") : Tell(H, "open")
Fail == \E H \in SUBSET In("requested") : Tell(H, "failed")
Close == \E H \in SUBSET (In("open") \cup (released \ In("closed"))) : Tell(H, "closed")

Next == (\E h \in Handle : Request(h) \/ Release(h)) \/ Open \/ Fail \/ Close

Spec == Init /\ [][Next]_lifecycleVars
=============================================================================
