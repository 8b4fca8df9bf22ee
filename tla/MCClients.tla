----------------------------- MODULE MCClients ------------------------------
(***************************************************************************)
(* Instances of the client library for TLC: its sessions, of which a       *)
(* behaviour follows one use of a client (see HalClients), and a client's  *)
(* geofences.  They share no state; a behaviour is one of the one or of    *)
(* the other.                                                              *)
(***************************************************************************)
EXTENDS HalClients, GeofenceClient

VARIABLE part

MCId == {1}
MCNiId == {2}
MCFenceId == {1, 2}
MCIds == {<<1>>, <<2>>, <<1, 2>>}
MCMasks == {{"enter"}, {"enter", "exit"}}

MCInit ==
  /\ HalInit /\ FenceInit /\ part \in {"sessions", "geofences"}
  /\ part = "geofences" => use = "session" /\ available = Interface /\ loaded = {}

MCNext ==
  /\ UNCHANGED part
  /\ \/ part = "sessions" /\ Next /\ UNCHANGED fenceVars
     \/ part = "geofences" /\ FenceNext /\ UNCHANGED halVars

\* The sessions' actions are not enabled where they rest.
MCSpec ==
  /\ MCInit /\ [][MCNext]_<<halVars, fenceVars, part>>
  /\ \A i \in Interface : WF_halVars(Serve(i))
  /\ WF_halVars(OnCapabilitiesCb) /\ WF_halVars(Continues)
=============================================================================
