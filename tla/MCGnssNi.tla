------------------------------ MODULE MCGnssNi ------------------------------
(* The network initiated requests on small instances.                      *)
EXTENDS GnssNi, TLC
=============================================================================
