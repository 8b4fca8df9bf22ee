--------------------------- MODULE MCGnssTracking ---------------------------
(***************************************************************************)
(* Four parts of what is above the modem that share no state: tracking     *)
(* sessions, position injection on demand, the adapters as the interface   *)
(* to the modem sees them, whose events change or whom the modem reports   *)
(* to, and what the adapter tells its clients of the reports.  A behaviour *)
(* is one of one part.                                                     *)
(***************************************************************************)
EXTENDS GnssTracking, Odcpi, LocApi, GnssReports

VARIABLE part

MCInit ==
    /\ Init /\ OdcpiInit /\ ApiInit /\ ReportsInit
    /\ part \in {"tracking", "odcpi", "events", "reports", "told"}
    /\ part # "told" => conf = [nmeaProvider |-> "MP", intermediatePos |-> FALSE]

MCNext ==
    /\ UNCHANGED part
    /\ \/ part = "tracking" /\ Next /\ UNCHANGED <<odcpiVars, apiVars, reportVars>>
       \/ part = "odcpi" /\ OdcpiNext /\ UNCHANGED <<vars, apiVars, reportVars>>
       \/ /\ part \in {"events", "reports"} /\ UNCHANGED <<vars, odcpiVars, reportVars>>
          /\ \/ AdaptersComeAndGo
             \/ part = "events" /\ EventsChange
             \/ part = "reports" /\ (ReadEvents \/ ModemReports)
       \/ part = "told" /\ ReportsNext /\ UNCHANGED <<vars, odcpiVars, apiVars>>

MCFairness == OdcpiFairness

MCSpec == MCInit /\ [][MCNext]_<<vars, odcpiVars, apiVars, reportVars, part>> /\ MCFairness
=============================================================================
