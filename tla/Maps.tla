-------------------------------- MODULE Maps --------------------------------
(***************************************************************************)
(* Finite maps as functions.  The merge of the TLC module has no           *)
(* definition that a proof could use; this one is the same.                *)
(***************************************************************************)

\* f laid over g: f's value where f has one, else g's.
Over(f, g) == [k \in DOMAIN f \cup DOMAIN g |-> IF k \in DOMAIN f THEN f[k] ELSE g[k]]

=============================================================================
