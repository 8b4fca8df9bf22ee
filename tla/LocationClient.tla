--------------------------- MODULE LocationClient ---------------------------
(***************************************************************************)
(* The client library (location/LocationAPIClientBase) over the dispatcher *)
(* (location/LocationAPI).  A client keeps, for each kind of request, the  *)
(* queue of the requests that wait for an answer; an answer carries only   *)
(* the number of a session, from which the library guesses the request it  *)
(* is for.  The dispatcher hands calls to up to three interfaces: gnss,    *)
(* whose adapter is in gnss/, flp and geofence, whose adapters are not     *)
(* part of the source and are taken to serve their calls as GnssAdapter    *)
(* does.  Each interface has a message thread of its own.                  *)
(*                                                                         *)
(* Locks: an operation of the owner holds mMutex throughout, and so does   *)
(* the search for the request of an answer; what the request then does     *)
(* with the dictionary of sessions happens without it, between the         *)
(* dictionary's calls of an operation too: LookUp and Read are steps of    *)
(* their own, and Overtaken stands for the last of an update.              *)
(*                                                                         *)
(* Requests carry their session, which the code's do not: the properties   *)
(* compare it with that of the answer.  The session of the queue of        *)
(* session requests is set by the code but never read, and left out.       *)
(* Geofences have a queue and a dictionary of their own: GeofenceClient.   *)
(***************************************************************************)
EXTENDS Integers, Sequences, BiDict

CONSTANTS
  Id,             \* the owner's numbers of batching sessions
  NiId,           \* the numbers of network initiated requests
  MaxSession,     \* bound on the session numbers given
  MaxMail,        \* bound on the messages that wait when the owner sends one
  MaxPending,     \* bound on the requests that wait for an answer
  MaxGeneration   \* bound on the clients created one after the other

ASSUME NiAssumption == NiId \subseteq Nat

VARIABLES
  available,      \* the interfaces whose library can be loaded
  loaded,         \* LocationAPIData: the interfaces loaded
  callbacks,      \* LocationAPIData: the client's callbacks, as last set
  mail,           \* each interface: its messages
  members,        \* each interface: the callbacks of the clients it knows
  running,        \* each interface: <<client, session>> of the sessions it runs
  mSessionIdCounter,
  life,           \* the client object: not created yet, live, destroyed
  generation,     \* how many client objects were created
  mRequestQueues, mTracking, mSessionBiDict,
  calling,        \* the session operation that holds mMutex
  answering,      \* each interface: the session a popped request will remove
  told,           \* the client knows its capabilities
  seen            \* history: what excuses the properties

dispatcher == <<available, loaded, callbacks>>
adapters == <<members, running>>
object == <<life, generation>>
library == <<mRequestQueues, mTracking, mSessionBiDict>>
vars == <<dispatcher, mail, adapters, mSessionIdCounter, object, library,
          calling, answering, told, seen>>

Interface == {"gnss", "flp", "geofence"}
CallbackKind == {"tracking", "ni", "measurements", "batching", "geofence"}
SessionMode == {"none", "full", "fix", "trip"}

(* Requests start, stop, update, get and ni of the code's request classes. *)
RequestType == {"tracking", "session", "niresponse"}
NoRequest == [kind |-> "none", of |-> 0]
Request(kind, s) == [kind |-> kind, of |-> s]

Call(op, s, request) ==
  [op |-> op, of |-> s, cbs |-> {}, gen |-> generation, for |-> request]

NoSession == [tracking |-> 0, batching |-> 0, mode |-> "none"]
NoCall == [op |-> "none", id |-> 0, mode |-> "none"]

-----------------------------------------------------------------------------
(* RequestQueue.                                                           *)
Push(q, t, r) == [q EXCEPT ![t].pending = Append(@, r)]
Reset(q, t, s) == [q EXCEPT ![t] = [session |-> s, pending |-> << >>]]
EmptyQueues == [t \in RequestType |-> [session |-> 0, pending |-> << >>]]

-----------------------------------------------------------------------------
Init ==
  /\ available \in {Interface, {"gnss"}}
  /\ loaded \in SUBSET {"gnss"}       \* by the other services of the HAL
  /\ callbacks = {}
  /\ mail = [i \in Interface |-> << >>]
  /\ members = [i \in Interface |-> << >>]
  /\ running = [i \in Interface |-> {}]
  /\ mSessionIdCounter = 1
  /\ life = "none" /\ generation = 0
  /\ mRequestQueues = EmptyQueues
  /\ mTracking = FALSE
  /\ mSessionBiDict = EmptyDict
  /\ calling = NoCall
  /\ answering = [i \in Interface |-> 0]
  /\ told = FALSE
  /\ seen = [mixed |-> {}, collided |-> FALSE, overlapped |-> FALSE, raced |-> {},
             refused |-> {}, joined |-> {}, asked |-> {}, forsaken |-> FALSE]

-----------------------------------------------------------------------------
(* The dispatcher.                                                         *)
Serves(i) ==
  CASE i = "gnss" -> {"ni", "tracking", "measurements"}
    [] i = "flp" -> {"tracking", "batching"}
    [] i = "geofence" -> {"geofence"}
Wanted(cbs) == {i \in Interface : Serves(i) \cap cbs # {}}

Posted(box, to, call) ==
  [i \in Interface |-> IF i \in to THEN Append(box[i], call) ELSE box[i]]
Trackers == loaded \cap {"gnss", "flp"}

(* Where startTracking goes; the gnss client has the callbacks for         *)
(* satellites and NMEA together with the one for positions.                *)
NeedsGnssTrackingInfo == callbacks \cap {"tracking", "measurements"} # {}
TrackingInterface(far) ==
  IF "flp" \in loaded /\ (far \/ ~NeedsGnssTrackingInfo) THEN {"flp"}
  ELSE IF "gnss" \in loaded THEN {"gnss"}
  ELSE loaded \cap {"flp"}

NewSession(to) == IF to = {} THEN 0 ELSE mSessionIdCounter + 1
Counted(to) == mSessionIdCounter' = mSessionIdCounter + IF to = {} THEN 0 ELSE 1

CanCall ==
  /\ life = "live" /\ calling = NoCall
  /\ \A i \in Interface : Len(mail[i]) < MaxMail
  /\ \A t \in RequestType : Len(mRequestQueues[t].pending) < MaxPending
CanStart == CanCall /\ mSessionIdCounter < MaxSession

(* Mutant: only the gnss interface is ever asked.                          *)
AskedGnss(joins) == joins \cap {"gnss"}

(* The one interface asked for its capabilities when a client is created.  *)
AskedFirst(joins) ==
  IF "gnss" \in joins THEN {"gnss"} ELSE IF "flp" \in joins THEN {"flp"} ELSE joins

(* locAPISetCallbacks(): createInstance() for a new client, for a live one *)
(* updateCallbacks(), which asks nobody for capabilities.                  *)
SetCallbacks(cbs) ==
  LET load == loaded \cup (Wanted(cbs) \cap available)
      joins == Wanted(cbs) \cap load
      fresh == life # "live"
      gen == IF fresh THEN generation + 1 ELSE generation
      add == [Call("add", 0, NoRequest) EXCEPT !.cbs = cbs, !.gen = gen]
      ask == [Call("capabilities", 0, NoRequest) EXCEPT !.gen = gen]
      asked == IF fresh THEN AskedFirst(joins) ELSE {}
  IN /\ calling = NoCall /\ gen <= MaxGeneration
     /\ \A i \in Interface : Len(mail[i]) < MaxMail
     /\ loaded' = load /\ callbacks' = cbs
     /\ mail' = Posted(Posted(mail, joins, add), asked, ask)
     /\ life' = "live" /\ generation' = gen
     /\ IF fresh
        THEN /\ mRequestQueues' = EmptyQueues /\ mTracking' = FALSE
             /\ mSessionBiDict' = EmptyDict /\ told' = FALSE
        ELSE UNCHANGED <<library, told>>
     /\ seen' = [seen EXCEPT !.joined = joins \cup IF fresh THEN {} ELSE @,
                             !.asked = IF fresh THEN joins ELSE @]
     /\ UNCHANGED <<available, adapters, mSessionIdCounter, calling, answering>>

(* ~LocationAPI removes the client where its callbacks, as last set, say.  *)
Leaves == Wanted(callbacks) \cap loaded

Destroy ==
  /\ CanCall
  /\ mail' = Posted(mail, Leaves, Call("remove", 0, NoRequest))
  /\ life' = "destroyed"
  /\ mRequestQueues' = EmptyQueues
  /\ seen' = [seen EXCEPT !.forsaken = @ \/ seen.joined # Wanted(callbacks) \cap loaded]
  /\ UNCHANGED <<dispatcher, adapters, mSessionIdCounter, generation, mTracking,
                 mSessionBiDict, calling, answering, told>>

-----------------------------------------------------------------------------
(* Tracking.                                                               *)

(* Mutant: the requests of the session before stay in the queue.           *)
StartedQueueKept(s) ==
  Push([mRequestQueues EXCEPT !["tracking"].session = s], "tracking", Request("start", s))

StartedQueue(s) == Push(Reset(mRequestQueues, "tracking", s), "tracking", Request("start", s))

(* A network initiated request that waits, or is under way, has the number.*)
Collides(s) ==
  \/ mRequestQueues["niresponse"].session = s /\ mRequestQueues["niresponse"].pending # << >>
  \/ \E k \in DOMAIN mail["gnss"] :
       LET m == mail["gnss"][k] IN m.op = "ni" /\ m.gen = generation /\ m.of = s

LocAPIStartTracking(far) ==
  LET to == TrackingInterface(far)
      s == NewSession(to)
  IN /\ CanStart /\ ~mTracking
     /\ mail' = Posted(mail, to, Call("start", s, Request("start", s)))
     /\ Counted(to)
     /\ mRequestQueues' = StartedQueue(s)
     /\ mTracking' = TRUE
     /\ seen' = [seen EXCEPT !.collided = @ \/ Collides(s)]
     /\ UNCHANGED <<dispatcher, adapters, object, mSessionBiDict, calling, answering, told>>

(* stopTracking and updateTrackingOptions go to both interfaces.           *)
Ask(op, tracking) ==
  LET s == mRequestQueues["tracking"].session
      r == Request(op, s)
  IN /\ CanCall /\ s > 0
     /\ mail' = Posted(mail, Trackers, Call(op, s, r))
     /\ mRequestQueues' = Push(mRequestQueues, "tracking", r)
     /\ mTracking' = tracking
     /\ UNCHANGED <<dispatcher, adapters, mSessionIdCounter, object, mSessionBiDict,
                    calling, answering, told, seen>>

LocAPIStopTracking == Ask("stop", FALSE)
LocAPIUpdateTrackingOptions == Ask("update", mTracking)

(* The number of a network initiated request and that of a session come    *)
(* from counters of their own.                                             *)
LocAPIGnssNiResponse(id) ==
  LET r == Request("ni", id)
  IN /\ CanCall
     /\ mail' = Posted(mail, loaded \cap {"gnss"}, Call("ni", id, r))
     /\ mRequestQueues' = Push(Reset(mRequestQueues, "niresponse", id), "niresponse", r)
     /\ seen' = [seen EXCEPT !.collided =
          @ \/ id \in {mRequestQueues["tracking"].session} \cup 2..mSessionIdCounter]
     /\ UNCHANGED <<dispatcher, adapters, mSessionIdCounter, object, mTracking,
                    mSessionBiDict, calling, answering, told>>

-----------------------------------------------------------------------------
(* Batching sessions.                                                      *)
Overlaps == mRequestQueues["session"].pending # << >>
SessionOf(e) == IF e.mode = "fix" THEN e.tracking ELSE e.batching
Batcher == loaded \cap {"flp"}

LocAPIStartSession(id, mode) ==
  LET to == IF mode = "fix" THEN TrackingInterface(FALSE) ELSE Batcher
      s == NewSession(to)
      r == Request("start", s)
      e == [tracking |-> IF mode = "fix" THEN s ELSE 0,
            batching |-> IF mode = "fix" THEN 0 ELSE s, mode |-> mode]
  IN /\ CanStart /\ ~HasId(mSessionBiDict, id)
     /\ mail' = Posted(mail, to, Call("start", s, r))
     /\ Counted(to)
     /\ mRequestQueues' = Push(mRequestQueues, "session", r)
     /\ mSessionBiDict' = Set(mSessionBiDict, id, s, e)
     /\ seen' = [seen EXCEPT !.overlapped = @ \/ Overlaps]
     /\ UNCHANGED <<dispatcher, adapters, object, mTracking, calling,
                    answering, told>>

(* The other operations first ask whether the id is known, and then read   *)
(* what is stored with it, each under the lock of the dictionary only.     *)
LookUp(op, id, mode) ==
  /\ CanCall /\ HasId(mSessionBiDict, id)
  /\ op = "update" => mSessionIdCounter < MaxSession
  /\ calling' = [op |-> op, id |-> id, mode |-> mode]
  /\ seen' = [seen EXCEPT !.overlapped = @ \/ Overlaps]
  /\ UNCHANGED <<dispatcher, mail, adapters, mSessionIdCounter, object, library, answering, told>>

Found == GetExtById(mSessionBiDict, calling.id, NoSession)
Serving(e) == IF e.mode = "fix" THEN Trackers ELSE Batcher
Read(op) ==
  /\ calling.op = op /\ calling' = NoCall
  /\ seen' = [seen EXCEPT !.raced = @ \cup
                IF HasId(mSessionBiDict, calling.id) THEN {} ELSE {calling.id}]
  /\ UNCHANGED <<dispatcher, adapters, object, mTracking, answering, told>>

LocAPIStopSession ==
  LET r == Request("stop", SessionOf(Found))
  IN /\ Read("stop")
     /\ mail' = Posted(mail, Serving(Found), Call("stop", r.of, r))
     /\ mRequestQueues' = Push(mRequestQueues, "session", r)
     /\ mSessionBiDict' = Touch(mSessionBiDict, calling.id)
     /\ UNCHANGED mSessionIdCounter

LocAPIGetBatchedLocations ==
  LET r == Request("get", Found.batching)
  IN /\ Read("get")
     /\ mSessionBiDict' = Touch(mSessionBiDict, calling.id)
     /\ IF Found.mode = "fix"
        THEN UNCHANGED <<mail, mRequestQueues>>
        ELSE /\ mail' = Posted(mail, Batcher, Call("get", r.of, r))
             /\ mRequestQueues' = Push(mRequestQueues, "session", r)
     /\ UNCHANGED mSessionIdCounter

(* An update that changes between tracking and batching stops the one and  *)
(* starts the other, under a single request.                               *)
LocAPIUpdateSessionOptions ==
  LET switches == (Found.mode = "fix") # (calling.mode = "fix")
      to == IF ~switches THEN {}
            ELSE IF calling.mode = "fix" THEN TrackingInterface(FALSE) ELSE Batcher
      s == IF switches THEN NewSession(to) ELSE SessionOf(Found)
      r == Request("update", s)
      e == [tracking |-> IF calling.mode = "fix" THEN s ELSE 0,
            batching |-> IF calling.mode = "fix" THEN 0 ELSE s, mode |-> calling.mode]
      stopped == Posted(mail, Serving(Found), Call("stop", SessionOf(Found), NoRequest))
  IN /\ Read("update")
     /\ mail' = IF switches THEN Posted(stopped, to, Call("start", s, r))
                ELSE Posted(mail, Serving(Found), Call("update", s, r))
     /\ Counted(to)
     /\ mRequestQueues' = Push(mRequestQueues, "session", r)
     /\ mSessionBiDict' = Set(RmById(Touch(mSessionBiDict, calling.id), calling.id),
                              calling.id, s, e)

-----------------------------------------------------------------------------
(* The adapters, and the answers they bring to the library.                *)

(* The queue from which getRequestBySession() takes: the first whose       *)
(* session is s, and the session queue if that one is empty.               *)
Owner(s) ==
  IF mRequestQueues["tracking"].session = s THEN "tracking"
  ELSE IF mRequestQueues["niresponse"].session = s THEN "niresponse" ELSE "none"
Claimed(s) ==
  IF Owner(s) # "none" /\ mRequestQueues[Owner(s)].pending # << >> THEN {Owner(s)}
  ELSE IF HasSession(mSessionBiDict, s) /\ mRequestQueues["session"].pending # << >>
       THEN {"session"} ELSE {}

(* Mutant: what the answer says does not matter.                           *)
EndsAnyway(request, ok) == request.kind \in {"start", "stop"}

(* A start that failed and a stop that succeeded end their session.        *)
Ends(request, ok) == (request.kind = "start" /\ ~ok) \/ (request.kind = "stop" /\ ok)

(* onResponseCb(): the request waits no more.  The answer to a destroyed   *)
(* client reaches a deleted object and is left out.                        *)
Answer(i, m, ok) ==
  LET t == IF life = "live" /\ m.gen = generation THEN Claimed(m.of) ELSE {}
      popped == IF t = {} THEN NoRequest ELSE Head(mRequestQueues[CHOOSE x \in t : TRUE].pending)
  IN /\ calling = NoCall              \* mMutex
     /\ mRequestQueues' = [q \in RequestType |->
          [mRequestQueues[q] EXCEPT !.pending = IF q \in t THEN Tail(@) ELSE @]]
     /\ answering' = [answering EXCEPT ![i] = IF Ends(popped, ok) THEN m.of ELSE 0]
     /\ seen' = [seen EXCEPT !.mixed = IF popped # m.for THEN @ \cup t ELSE @,
                             !.refused = IF m.op = "stop" /\ ~ok THEN @ \cup {m.of} ELSE @]
     /\ UNCHANGED <<mTracking, told>>
Silent == UNCHANGED <<mRequestQueues, mTracking, answering, told, seen>>

(* Some adapter's message is next; the answer to the one before is done.   *)
Takes(i, ops) ==
  /\ mail[i] # << >> /\ Head(mail[i]).op \in ops /\ answering[i] = 0
  /\ mail' = [mail EXCEPT ![i] = Tail(@)]
  /\ UNCHANGED <<dispatcher, mSessionIdCounter, object, mSessionBiDict, calling>>
Message(i) == Head(mail[i])
Registered(i) == Message(i).gen \in DOMAIN members[i]
Session(i) == <<Message(i).gen, Message(i).of>>

HandleAddClient(i) ==
  /\ Takes(i, {"add"})
  /\ members' = [members EXCEPT ![i] = Over([g \in {Message(i).gen} |-> Message(i).cbs], @)]
  /\ Silent /\ UNCHANGED running

(* The client is gone even when a session of it could not be stopped.      *)
HandleRemoveClient(i) ==
  LET its == {r \in running[i] : r[1] = Message(i).gen}
  IN /\ Takes(i, {"remove"})
     /\ members' = [members EXCEPT ![i] = Without(@, {Message(i).gen})]
     /\ \E kept \in {{}, its} :
          /\ running' = [running EXCEPT ![i] = (@ \ its) \cup kept]
          /\ seen' = [seen EXCEPT !.refused = @ \cup {r[2] : r \in kept}]
     /\ UNCHANGED <<mRequestQueues, mTracking, answering, told>>

HandleRequestCapabilities(i) ==
  /\ Takes(i, {"capabilities"})
  /\ told' = (told \/ (Registered(i) /\ Message(i).gen = generation))
  /\ UNCHANGED <<adapters, mRequestQueues, mTracking, answering, seen>>

(* A start is refused when the client lacks the callback for it, too.      *)
HandleStart(i) ==
  /\ Takes(i, {"start"})
  /\ IF ~Registered(i) THEN Silent /\ UNCHANGED running
     ELSE \E ok \in BOOLEAN :
       /\ ok => members[i][Message(i).gen] \cap {"tracking", "measurements", "batching"} # {}
       /\ running' = [running EXCEPT ![i] = IF ok THEN @ \cup {Session(i)} ELSE @]
       /\ Answer(i, Message(i), ok)
  /\ UNCHANGED members

(* Only the interface that runs the session answers.                       *)
HandleStop(i) ==
  /\ Takes(i, {"stop"})
  /\ IF Session(i) \notin running[i] THEN Silent /\ UNCHANGED running
     ELSE \E ok \in BOOLEAN :
       /\ running' = [running EXCEPT ![i] = IF ok THEN @ \ {Session(i)} ELSE @]
       /\ Answer(i, Message(i), ok)
  /\ UNCHANGED members

HandleOther(i) ==
  /\ Takes(i, {"update", "get", "ni"})
  /\ IF Registered(i) /\ (Message(i).op = "ni" \/ Session(i) \in running[i])
     THEN \E ok \in BOOLEAN : Answer(i, Message(i), ok)
     ELSE Silent
  /\ UNCHANGED adapters

(* An update reads what is stored with its id, calls the dispatcher, and   *)
(* then takes the entry out and puts it back: of what happens meanwhile,   *)
(* only the removal of its session shows, which is lost.  The interface    *)
(* that removes has the call still before it.                              *)
Overtaken(i, s) ==
  \E k \in DOMAIN mail[i] :
    mail[i][k].op = "update" /\ mail[i][k].gen = generation /\ mail[i][k].of = s

(* removeSession(), by the thread of the adapter and without mMutex.       *)
RemoveSession(i) ==
  /\ answering[i] # 0
  /\ \/ Overtaken(i, answering[i]) /\ UNCHANGED mSessionBiDict
     \/ mSessionBiDict' = IF life = "live" /\ HasSession(mSessionBiDict, answering[i])
                          THEN RmBySession(mSessionBiDict, answering[i]) ELSE mSessionBiDict
  /\ answering' = [answering EXCEPT ![i] = 0]
  /\ UNCHANGED <<dispatcher, mail, adapters, mSessionIdCounter, object, mRequestQueues,
                 mTracking, calling, told, seen>>

(* beforeBatchingStatusCb(), when a trip is over; without mMutex.          *)
BeforeBatchingStatusCb(s) ==
  /\ answering["flp"] = 0 /\ life = "live"
  /\ <<generation, s>> \in running["flp"] /\ generation \in DOMAIN members["flp"]
  /\ HasSession(mSessionBiDict, s)
  /\ \/ mSessionBiDict.ext[s].mode = "trip" /\ mSessionBiDict' = RmBySession(mSessionBiDict, s)
     \/ /\ mSessionBiDict.ext[s].mode # "fix" /\ Overtaken("flp", s)
        /\ UNCHANGED mSessionBiDict
  /\ running' = [running EXCEPT !["flp"] = @ \ {<<generation, s>>}]
  /\ UNCHANGED <<dispatcher, mail, members, mSessionIdCounter, object, mRequestQueues,
                 mTracking, calling, answering, told, seen>>

Handle(i) ==
  \/ HandleAddClient(i) \/ HandleRemoveClient(i) \/ HandleRequestCapabilities(i)
  \/ HandleStart(i) \/ HandleStop(i) \/ HandleOther(i) \/ RemoveSession(i)
Resume ==
  LocAPIStopSession \/ LocAPIGetBatchedLocations \/ LocAPIUpdateSessionOptions
=============================================================================
