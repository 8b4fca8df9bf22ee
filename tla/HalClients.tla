----------------------------- MODULE HalClients -----------------------------
(***************************************************************************)
(* The clients that the HIDL services make of the client library           *)
(* (android/location_api) and the calls the services let through           *)
(* (android/Gnss, GnssNi, GnssMeasurement, GnssBatching).  Each service    *)
(* has a client of its own, so a behaviour follows one of them, "use";     *)
(* with use = "tracker" or "session" the owner calls the library as it     *)
(* likes, for tracking or for batching sessions.  Its geofences are those  *)
(* of GeofenceClient.                                                      *)
(*                                                                         *)
(* A service calls the library more than once for some of its methods:     *)
(* "todo" is the call that is left.  The enabling, configuration and       *)
(* aiding data of Gnss go to the control client: GnssControl.              *)
(***************************************************************************)
EXTENDS LocationClient

Uses == {"tracker", "session", "gnss", "measurement", "batching"}

CONSTANTS
  MaxTracking,    \* bound on the session numbers given when tracking
  MaxChanges      \* bound on the callbacks changed for a live client

VARIABLES
  use,            \* whose client this is: one of Uses
  hal             \* the state of the service

halVars == <<vars, use, hal>>

Callbacks == CASE use = "gnss" -> (IF hal.cb THEN {"tracking"} ELSE {}) \cup
                                  (IF hal.ni THEN {"ni"} ELSE {})
               [] use = "measurement" -> IF hal.cb THEN {"measurements"} ELSE {}
               [] OTHER -> IF hal.cb THEN {"batching"} ELSE {}

HalInit ==
  /\ Init
  /\ use \in Uses
  /\ hal = [cb |-> FALSE, ni |-> FALSE, informed |-> FALSE, forwarding |-> FALSE,
            todo |-> "none", changes |-> 0]

Does(kind, todo) == use = kind /\ hal.todo = todo /\ UNCHANGED use
Same == UNCHANGED <<use, hal>>

(* Callbacks that do not change only repeat a message, and are left out.   *)
Changes(cbs) ==
  /\ life = "live" => callbacks # cbs /\ hal.changes < MaxChanges
  /\ SetCallbacks(cbs)
Change == hal.changes + IF life = "live" THEN 1 ELSE 0
StartsTracking(far) == mSessionIdCounter < MaxTracking /\ LocAPIStartTracking(far)

-----------------------------------------------------------------------------
(* Gnss and GnssAPIClient.  The client is created with the first callback  *)
(* of either kind, and given its callbacks once more; setCallback() then   *)
(* asks for the capabilities that are known already.                       *)
GnssCallback(cb, ni, asks) ==
  /\ Does("gnss", "none")
  /\ LET first == life = "none"
         ready == ~first \/ cb \/ ni
     IN hal' = [hal EXCEPT !.cb = cb, !.ni = ni, !.informed = @ /\ cb = hal.cb,
                           !.todo = IF first /\ ready THEN "set"
                                    ELSE IF ready /\ asks /\ cb THEN "ask" ELSE "none",
                           !.changes = Change]
        /\ IF ready THEN Changes((IF cb THEN {"tracking"} ELSE {}) \cup
                                      (IF ni THEN {"ni"} ELSE {}))
           ELSE UNCHANGED vars

SetCallback(cb) == GnssCallback(cb, hal.ni, TRUE)
SetGnssNiCb(ni) == GnssCallback(hal.cb, ni, FALSE)
SetAgain ==
  /\ use \in {"gnss", "batching"} /\ hal.todo = "set" /\ SetCallbacks(Callbacks)
  /\ hal' = [hal EXCEPT !.todo = IF use = "gnss" /\ hal.cb THEN "ask" ELSE "none"]
  /\ UNCHANGED use
RequestCapabilities ==
  /\ Does("gnss", "ask")
  /\ hal' = [hal EXCEPT !.todo = "none", !.informed = @ \/ told]
  /\ UNCHANGED vars

GnssStart ==
  \E far \in BOOLEAN : Does("gnss", "none") /\ StartsTracking(far) /\ UNCHANGED hal
GnssStop == Does("gnss", "none") /\ LocAPIStopTracking /\ UNCHANGED hal
GnssSetPositionMode == Does("gnss", "none") /\ LocAPIUpdateTrackingOptions /\ UNCHANGED hal
GnssNiRespond(id) == Does("gnss", "none") /\ LocAPIGnssNiResponse(id) /\ UNCHANGED hal

(* onCapabilitiesCb() remembers the capabilities first, and then looks for *)
(* the callback to tell.                                                   *)
Forwarded == [hal EXCEPT !.forwarding = @ \/ (use = "gnss" /\ told' /\ ~told)]
OnCapabilitiesCb ==
  /\ hal.forwarding
  /\ hal' = [hal EXCEPT !.forwarding = FALSE, !.informed = @ \/ hal.cb]
  /\ UNCHANGED <<vars, use>>

(* GnssMeasurement and MeasurementAPIClient.  A start while the session    *)
(* before is still up is taken for granted.                                *)
MeasurementSetCallback ==
  /\ Does("measurement", "none") /\ ~hal.cb
  /\ hal' = [hal EXCEPT !.cb = TRUE, !.todo = "start"]
  /\ SetCallbacks({"measurements"})
MeasurementStart ==
  /\ Does("measurement", "start")
  /\ hal' = [hal EXCEPT !.todo = "none"]
  /\ IF mTracking THEN UNCHANGED vars ELSE LocAPIStartTracking(FALSE)
MeasurementClose ==
  /\ Does("measurement", "none") /\ life = "live"
  /\ hal' = [hal EXCEPT !.cb = FALSE]
  /\ LocAPIStopTracking

(* GnssBatching and BatchingAPIClient, one session of number Id.           *)
BatchingInit(cb) ==
  /\ Does("batching", "none")
  /\ hal' = [hal EXCEPT !.cb = cb, !.todo = IF life = "live" THEN "set" ELSE "none"]
  /\ IF life = "live" THEN Destroy
     ELSE SetCallbacks(IF cb THEN {"batching"} ELSE {})
BatchingStart ==
  \E id \in Id, mode \in {"none", "full"} :
    Does("batching", "none") /\ LocAPIStartSession(id, mode) /\ UNCHANGED hal
BatchingStop ==
  \E id \in Id : Does("batching", "none") /\ LookUp("stop", id, "none") /\ UNCHANGED hal
BatchingFlush ==
  \E id \in Id : Does("batching", "none") /\ LookUp("get", id, "none") /\ UNCHANGED hal

-----------------------------------------------------------------------------
(* The owner of a client without a service.                                *)
TrackerCalls ==
  /\ use = "tracker" /\ UNCHANGED use
  /\ \/ \E cbs \in {{"tracking"}, {"geofence"}} :
          Changes(cbs) /\ hal' = [hal EXCEPT !.changes = Change]
     \/ /\ Destroy \/ (\E far \in BOOLEAN : StartsTracking(far)) \/ LocAPIStopTracking
        /\ UNCHANGED hal
SessionCalls ==
  /\ use = "session" /\ UNCHANGED <<use, hal>>
  /\ \/ life = "none" /\ SetCallbacks({"tracking", "batching"})
     \/ \E id \in Id, mode \in SessionMode :
          \/ LocAPIStartSession(id, mode)
          \/ \E op \in {"stop", "update"} : LookUp(op, id, mode)

Calls ==
  \/ TrackerCalls \/ SessionCalls
  \/ \E b \in BOOLEAN : SetCallback(b) \/ SetGnssNiCb(b) \/ BatchingInit(b)
  \/ GnssStart \/ GnssStop \/ GnssSetPositionMode
  \/ \E id \in NiId : GnssNiRespond(id)
  \/ MeasurementSetCallback \/ MeasurementClose
  \/ BatchingStart \/ BatchingStop \/ BatchingFlush
Continues == SetAgain \/ RequestCapabilities \/ MeasurementStart \/ (Resume /\ Same)
Serve(i) == Handle(i) /\ hal' = Forwarded /\ UNCHANGED use
TripOver == (\E s \in 2..MaxSession : BeforeBatchingStatusCb(s)) /\ Same

Next ==
  \/ Calls \/ Continues \/ OnCapabilitiesCb \/ TripOver
  \/ \E i \in Interface : Serve(i)

(* The adapters' threads take their messages; the owner goes on with a     *)
(* call it has begun.                                                      *)
Spec == HalInit /\ [][Next]_halVars
        /\ \A i \in Interface : WF_halVars(Serve(i))
        /\ WF_halVars(OnCapabilitiesCb) /\ WF_halVars(Continues)

-----------------------------------------------------------------------------
(* Properties.                                                             *)

(* An answer is taken for the request it answers: a late answer to an      *)
(* earlier tracking session is not taken for one of the session now on.    *)
(* Excused: a network initiated request numbered as a session, and session *)
(* requests made while another one waits, whose answers come from two      *)
(* interfaces or not at all.                                               *)
AnswersReachTheirRequests ==
  /\ seen.mixed \cap {"tracking", "niresponse"} # {} => seen.collided
  /\ "session" \in seen.mixed => seen.overlapped

(* No session runs that its owner could not stop: each that an interface   *)
(* runs is the one that stopTracking or a stop of some id would name, or a *)
(* message that ends it is under way.  Excused: a stop that was refused, a *)
(* client whose callbacks changed before it was destroyed, mixed up        *)
(* session requests.                                                       *)
Stoppable(s) ==
  \/ mRequestQueues["tracking"].session = s
  \/ \E id \in Id : SessionOf(GetExtById(mSessionBiDict, id, NoSession)) = s
RemovesClient(m, g) == m.gen = g /\ m.op = "remove"
EndsSession(m, g, s) == RemovesClient(m, g) \/ (m.gen = g /\ m.op = "stop" /\ m.of = s)
NothingLeftRunning ==
  \A i \in Interface : \A r \in running[i] :
    \/ life = "live" /\ r[1] = generation /\ Stoppable(r[2])
    \/ \E k \in DOMAIN mail[i] : EndsSession(mail[i][k], r[1], r[2])
    \/ r[2] \in seen.refused \/ seen.forsaken \/ seen.overlapped

(* Nor is a destroyed client kept by an interface that it had joined, once *)
(* the messages under way are handled.                                     *)
GoneClientsForgotten ==
  \A i \in Interface : \A g \in DOMAIN members[i] :
    \/ life = "live" /\ g = generation
    \/ \E k \in DOMAIN mail[i] : RemovesClient(mail[i][k], g)
    \/ seen.forsaken

(* Whatever a client did before it was destroyed, and whichever interfaces *)
(* and callbacks it had in between, it leaves nothing behind.              *)
NothingIsLeftBehind == NothingLeftRunning /\ GoneClientsForgotten

(* A client whose interfaces could be asked learns its capabilities; the   *)
(* callback of Gnss is told them too, whether it was set before or after   *)
(* they were known.                                                        *)
CapabilitiesAreTold ==
  /\ (life = "live" /\ seen.asked # {}) ~> (told \/ life # "live")
  /\ (use = "gnss" /\ told /\ hal.cb) ~> (hal.informed \/ ~hal.cb)

=============================================================================
