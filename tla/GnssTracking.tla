---------------------------- MODULE GnssTracking ----------------------------
(***************************************************************************)
(* Tracking sessions of the GNSS adapter (gnss/GnssAdapter.cpp).  Many     *)
(* clients start, update and stop sessions; the engine knows one fix       *)
(* session only, so the adapter runs the engine with the options of the    *)
(* session that asks for the shortest interval, and restarts it when that  *)
(* changes.  Any call of the engine may be refused.  An engine that resets *)
(* forgets its fix session; when it is up again a message makes the        *)
(* adapter start it anew.                                                  *)
(*                                                                         *)
(* All of it runs on the adapter's message thread, one message after the   *)
(* other.  The messages may come in any order; those of one client, and    *)
(* the restart after a reset, in particular, in the order they were sent.  *)
(* No position calculation is proxied (UlpProxyBase).                      *)
(***************************************************************************)
EXTENDS Naturals

CONSTANTS
  Client,           \* LocationAPI objects
  Id,               \* session ids, each generated once
  Interval,         \* the intervals clients ask for
  Mode,             \* the rest of what they ask for
  MaxRestarts,      \* bound on the restart messages in the queue
  None              \* no client, no session, no options

ASSUME IdAssumption == Id \subseteq Nat
ASSUME IntervalAssumption == Interval \subseteq Nat
ASSUME MaxRestartsAssumption == MaxRestarts \in Nat

Options == [minInterval : Interval, mode : Mode]
Session == [client : Client, options : Options]

ASSUME NoneAssumption == None \notin Client \cup Options \cup Session

VARIABLES
  mClientData,      \* what the adapter knows of each client
  mTrackingSessions, \* the session of each id
  engine,           \* the options of the engine's fix session
  restarts,         \* restart messages in the queue
  removing,         \* the client whose sessions are being stopped, and which of them are to do
  generated,        \* the ids generated so far
  restartFailed     \* whether the engine refused the last restart

vars == <<mClientData, mTrackingSessions, engine, restarts, removing, generated, restartFailed>>

NoRemoval == [client |-> None, todo |-> {}]

TypeOK ==
  /\ mClientData \in [Client -> {"absent", "silent", "tracking"}]
  /\ mTrackingSessions \in [Id -> Session \cup {None}]
  /\ engine \in Options \cup {None}
  /\ restarts \in 0..MaxRestarts
  /\ removing \in [client : Client \cup {None}, todo : SUBSET Id]
  /\ generated \in SUBSET Id
  /\ restartFailed \in BOOLEAN

Init ==
  /\ mClientData = [c \in Client |-> "absent"]
  /\ mTrackingSessions = [i \in Id |-> None]
  /\ engine = None
  /\ restarts = 0
  /\ removing = NoRemoval
  /\ generated = {}
  /\ restartFailed = FALSE

-----------------------------------------------------------------------------
Sessions == {i \in Id : mTrackingSessions[i] # None}
OptionsOf(i) == mTrackingSessions[i].options
IntervalOf(i) == OptionsOf(i).minInterval
IsTrackingSession(c, i) == i \in Sessions /\ mTrackingSessions[i].client = c

(* The session with the smallest interval, the first in the order of the   *)
(* map if there are several.                                               *)
Smallest(S) ==
  {i \in S : \A j \in S : IntervalOf(i) < IntervalOf(j) \/ (IntervalOf(i) = IntervalOf(j) /\ i <= j)}

(* Messages are handled one at a time.                                     *)
Receive == removing = NoRemoval

(* startTracking and stopTracking, when the engine does what it is told;   *)
(* when it refuses, nothing changes.                                       *)
StartFix(options) == engine' = options /\ restartFailed' = FALSE
StopFix == engine' = None /\ restartFailed' = FALSE
Keep == UNCHANGED <<engine, restartFailed>>

(* Whether an interval is below those of all sessions in S, that is, below *)
(* the smallest.                                                           *)
Below(interval, S) == \A j \in S : interval < IntervalOf(j)

(* The multiplexing of a start, update or stop, successful.                *)
StartMultiplex(options) ==
  IF Below(options.minInterval, Sessions) THEN StartFix(options) ELSE Keep

(* The engine goes on with the smallest of the others if session i was it. *)
FallBack(i, others) ==
  IF Below(IntervalOf(i), others)
  THEN \E j \in Smallest(others) : StartFix(OptionsOf(j))
  ELSE Keep

(* Mutant: an update to a longer interval leaves the engine as it is.      *)
UpdateMultiplexShorter(i, options) ==
  IF Below(options.minInterval, Sessions \ {i}) THEN StartFix(options) ELSE Keep

UpdateMultiplex(i, options) ==
  IF Below(options.minInterval, Sessions \ {i})
  THEN StartFix(options)
  ELSE FallBack(i, Sessions \ {i})

StopMultiplex(i) ==
  IF Sessions = {i} THEN StopFix ELSE FallBack(i, Sessions \ {i})

-----------------------------------------------------------------------------
(* The messages.  A refusal reaches the client as an error and leaves      *)
(* everything as it was, as do messages the adapter does not accept.       *)

AddClient(c, callbacks) ==
  /\ Receive
  /\ mClientData' = [mClientData EXCEPT ![c] = callbacks]
  /\ UNCHANGED <<mTrackingSessions, engine, restarts, removing, generated, restartFailed>>

(* Mutant: the session is saved whatever the engine says.                  *)
StartTrackingUnheard(c, i, options) ==
  /\ Receive
  /\ i \notin generated
  /\ generated' = generated \cup {i}
  /\ mClientData[c] = "tracking"
  /\ StartMultiplex(options) \/ Keep
  /\ mTrackingSessions' = [mTrackingSessions EXCEPT ![i] = [client |-> c, options |-> options]]
  /\ UNCHANGED <<mClientData, restarts, removing>>

StartTracking(c, i, options) ==
  /\ Receive
  /\ i \notin generated
  /\ generated' = generated \cup {i}
  /\ \/ /\ mClientData[c] = "tracking"
        /\ StartMultiplex(options)
        /\ mTrackingSessions' = [mTrackingSessions EXCEPT ![i] = [client |-> c, options |-> options]]
     \/ UNCHANGED <<mTrackingSessions, engine, restartFailed>>
  /\ UNCHANGED <<mClientData, restarts, removing>>

UpdateTracking(c, i, options) ==
  /\ Receive
  /\ IsTrackingSession(c, i)
  /\ UpdateMultiplex(i, options)
  /\ mTrackingSessions' = [mTrackingSessions EXCEPT ![i].options = options]
  /\ UNCHANGED <<mClientData, restarts, removing, generated>>

StopTracking(c, i) ==
  /\ Receive
  /\ IsTrackingSession(c, i)
  /\ StopMultiplex(i)
  /\ mTrackingSessions' = [mTrackingSessions EXCEPT ![i] = None]
  /\ UNCHANGED <<mClientData, restarts, removing, generated>>

(* A client that goes: its sessions are stopped one by one, in their       *)
(* order, then the client is erased.  The session of a refused stop stays. *)
RemoveClient(c) ==
  /\ Receive
  /\ removing' = [client |-> c, todo |-> {i \in Sessions : IsTrackingSession(c, i)}]
  /\ UNCHANGED <<mClientData, mTrackingSessions, engine, restarts, generated, restartFailed>>

StopClientSession ==
  \E i \in removing.todo :
    /\ \A j \in removing.todo : i <= j
    /\ \/ /\ StopMultiplex(i)
          /\ mTrackingSessions' = [mTrackingSessions EXCEPT ![i] = None]
       \/ UNCHANGED <<mTrackingSessions, engine, restartFailed>>
    /\ removing' = [removing EXCEPT !.todo = @ \ {i}]
    /\ UNCHANGED <<mClientData, restarts, generated>>

EraseClient ==
  /\ removing.client # None /\ removing.todo = {}
  /\ mClientData' = [mClientData EXCEPT ![removing.client] = "absent"]
  /\ removing' = NoRemoval
  /\ UNCHANGED <<mTrackingSessions, engine, restarts, generated, restartFailed>>

(* Nobody hears of a restart that the engine refuses.                      *)
RestartSessions ==
  /\ Receive
  /\ restarts > 0
  /\ restarts' = restarts - 1
  /\ IF Sessions = {}
     THEN Keep
     ELSE \/ \E i \in Smallest(Sessions) : StartFix(OptionsOf(i))
          \/ restartFailed' = TRUE /\ UNCHANGED engine
  /\ UNCHANGED <<mClientData, mTrackingSessions, removing, generated>>

(* The engine resets and is up again (handleEngineUpEvent).                *)
EngineReset ==
  /\ restarts < MaxRestarts
  /\ engine' = None
  /\ restarts' = restarts + 1
  /\ UNCHANGED <<mClientData, mTrackingSessions, removing, generated, restartFailed>>

-----------------------------------------------------------------------------
ClientMessage(c) ==
  \/ \E callbacks \in {"silent", "tracking"} : AddClient(c, callbacks)
  \/ RemoveClient(c)
  \/ \E i \in Id :
       \/ StopTracking(c, i)
       \/ \E options \in Options : StartTracking(c, i, options) \/ UpdateTracking(c, i, options)

Next ==
  \/ \E c \in Client : ClientMessage(c)
  \/ StopClientSession \/ EraseClient
  \/ RestartSessions \/ EngineReset

Spec == Init /\ [][Next]_vars

-----------------------------------------------------------------------------
(* Properties.                                                             *)

(* The engine runs at the shortest interval any session asks for, whatever *)
(* was refused, restarted or removed before.                               *)
EngineAtShortest ==
  engine # None =>
    /\ \E i \in Sessions : IntervalOf(i) = engine.minInterval
    /\ \A i \in Sessions : engine.minInterval <= IntervalOf(i)

(* An engine that does not run while there are sessions is about to be     *)
(* restarted, or has refused to.                                           *)
SessionsAreServed == Sessions # {} /\ engine = None => restarts > 0 \/ restartFailed

=============================================================================
