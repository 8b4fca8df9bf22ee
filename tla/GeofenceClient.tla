--------------------------- MODULE GeofenceClient ---------------------------
(***************************************************************************)
(* The geofences of a client of the library (LocationAPIClientBase), as    *)
(* any owner and as GnssGeofencing uses it.  The owner names geofences by  *)
(* ids of its own, the interface by session numbers.  Each call is         *)
(* answered by one collective response, in the order of the calls.         *)
(*                                                                         *)
(* The interface is not part of the source; it may refuse any part of a    *)
(* call.  It is taken to be loaded and the client to be registered: else   *)
(* addGeofences fails and no other call finds a geofence.                  *)
(* All calls hold mMutex, so each is one step, and so is the response.     *)
(***************************************************************************)
EXTENDS Sequences, FiniteSets, BiDict

CONSTANTS
  FenceId,          \* the owner's numbers of geofences
  Ids,              \* the lists of them it calls with
  Masks,            \* the sets of breaches the owner asks for
  MaxFences,        \* bound on the geofences ever added
  MaxFenceMail      \* bound on the calls that wait when the owner makes one

(* The ids of one call are distinct.                                       *)
ASSUME FenceAssumption ==
  /\ FenceId \subseteq Nat
  /\ \A ids \in Ids : ids \in Seq(FenceId) /\ \A i, j \in DOMAIN ids : ids[i] = ids[j] => i = j

VARIABLES
  fenceMail,        \* the calls the interface has not handled
  fencePending,     \* REQUEST_GEOFENCE: the requests that wait for their answer
  mGeofenceBiDict,
  fences,           \* the interface: its geofences
  fenceCounter,     \* the number it gave last
  fenceSeen         \* history: what excuses the properties

fenceVars == <<fenceMail, fencePending, mGeofenceBiDict, fences, fenceCounter, fenceSeen>>

BreachType == {"enter", "exit"}
MasksOf(ids) == [DOMAIN ids -> Masks]
Elements(s) == {s[k] : k \in DOMAIN s}
At(s, e) == CHOOSE k \in DOMAIN s : s[k] = e

FenceInit ==
  /\ fenceMail = << >> /\ fencePending = << >>
  /\ mGeofenceBiDict = EmptyDict
  /\ fences = << >> /\ fenceCounter = 0
  /\ fenceSeen = [refused |-> {}, shifted |-> {}, resumed |-> {},
                  misnamed |-> FALSE, mixed |-> FALSE]

-----------------------------------------------------------------------------
(* The calls of the owner.                                                 *)

(* Mutant: the newest request takes the next answer.                       *)
CallFencesAhead(op, ids, sessions, masks) ==
  LET call == [op |-> op, ids |-> ids, sessions |-> sessions, masks |-> masks]
  IN /\ Len(fenceMail) < MaxFenceMail
     /\ fenceMail' = Append(fenceMail, call)
     /\ fencePending' = <<call>> \o fencePending

CallFences(op, ids, sessions, masks) ==
  LET call == [op |-> op, ids |-> ids, sessions |-> sessions, masks |-> masks]
  IN /\ Len(fenceMail) < MaxFenceMail
     /\ fenceMail' = Append(fenceMail, call)
     /\ fencePending' = Append(fencePending, call)

(* Mutant: the mask kept for a session is not changed.                     *)
SetEachKept(d, ids, sessions, masks) ==
  [forward |-> Over([id \in Elements(ids) |-> sessions[At(ids, id)]], d.forward),
   backward |-> Over([s \in Elements(sessions) |-> ids[At(sessions, s)]], d.backward),
   ext |-> Over(d.ext, [s \in Elements(sessions) |-> masks[At(sessions, s)]])]

SetEach(d, ids, sessions, masks) ==
  [forward |-> Over([id \in Elements(ids) |-> sessions[At(ids, id)]], d.forward),
   backward |-> Over([s \in Elements(sessions) |-> ids[At(sessions, s)]], d.backward),
   ext |-> Over([s \in Elements(sessions) |-> masks[At(sessions, s)]], d.ext)]
RemoveEach(d, ids, sessions) ==
  [forward |-> Without(d.forward, Elements(ids)),
   backward |-> Without(d.backward, Elements(sessions)),
   ext |-> Without(d.ext, Elements(sessions))]

(* The ids that are known, in their order, and their sessions.             *)
KnownAt(ids) == {k \in DOMAIN ids : GetSession(mGeofenceBiDict, ids[k]) > 0}
Known(ids) ==
  [j \in 1 .. Cardinality(KnownAt(ids)) |->
     ids[CHOOSE k \in KnownAt(ids) : Cardinality(KnownAt(ids) \cap 1 .. k) = j]]

SessionsOf(ids) == [k \in DOMAIN Known(ids) |-> GetSession(mGeofenceBiDict, Known(ids)[k])]
MasksKnown(ids, masks) ==
  [k \in DOMAIN Known(ids) |-> masks[At(ids, Known(ids)[k])]]

LocAPIAddGeofences(ids, masks) ==
  LET given == [k \in DOMAIN ids |-> fenceCounter + k]
  IN /\ fenceCounter + Len(ids) <= MaxFences
     /\ CallFences("add", ids, given, masks)
     /\ fenceCounter' = fenceCounter + Len(ids)
     /\ mGeofenceBiDict' = SetEach(mGeofenceBiDict, ids, given, masks)
     /\ UNCHANGED <<fences, fenceSeen>>

(* Mutant: the sessions are asked for when they are forgotten already.     *)
RemoveForgotten(ids) ==
  /\ Known(ids) # << >> /\ CallFences("remove", Known(ids), [k \in DOMAIN Known(ids) |-> 0], << >>)
  /\ mGeofenceBiDict' = RemoveEach(mGeofenceBiDict, Known(ids), SessionsOf(ids))
  /\ UNCHANGED <<fences, fenceCounter, fenceSeen>>

LocAPIRemoveGeofences(ids) ==
  /\ Known(ids) # << >> /\ CallFences("remove", Known(ids), SessionsOf(ids), << >>)
  /\ mGeofenceBiDict' = RemoveEach(mGeofenceBiDict, Known(ids), SessionsOf(ids))
  /\ UNCHANGED <<fences, fenceCounter, fenceSeen>>

(* The library remembers the mask of each id, but hands the masks on as    *)
(* they came, although an unknown id has no session among the sessions.    *)
LocAPIModifyGeofences(ids, masks) ==
  LET sent == [k \in DOMAIN Known(ids) |-> masks[k]]
      wrong == {k \in DOMAIN Known(ids) : sent[k] # MasksKnown(ids, masks)[k]}
  IN /\ Known(ids) # << >> /\ CallFences("modify", Known(ids), SessionsOf(ids), sent)
     /\ mGeofenceBiDict' = SetEach(mGeofenceBiDict, Known(ids), SessionsOf(ids),
                                   MasksKnown(ids, masks))
     /\ fenceSeen' = [fenceSeen EXCEPT !.shifted = @ \cup {SessionsOf(ids)[k] : k \in wrong}]
     /\ UNCHANGED <<fences, fenceCounter>>

LocAPIPauseGeofences(ids) ==
  /\ Known(ids) # << >> /\ CallFences("pause", Known(ids), SessionsOf(ids), << >>)
  /\ UNCHANGED <<mGeofenceBiDict, fences, fenceCounter, fenceSeen>>

(* A mask given with resume stays in the library.                          *)
LocAPIResumeGeofences(ids, masks) ==
  /\ Known(ids) # << >> /\ CallFences("resume", Known(ids), SessionsOf(ids), << >>)
  /\ mGeofenceBiDict' = SetEach(mGeofenceBiDict, Known(ids), SessionsOf(ids),
                                MasksKnown(ids, masks))
  /\ fenceSeen' = [fenceSeen EXCEPT !.resumed = @ \cup Elements(SessionsOf(ids))]
  /\ UNCHANGED <<fences, fenceCounter>>

(* GnssGeofencing and GeofenceAPIClient: one geofence at a time; removing  *)
(* all is left to do by the code.                                          *)
GeofenceAdd(id, mask) == LocAPIAddGeofences(<<id>>, <<mask>>)
GeofencePause(id) == LocAPIPauseGeofences(<<id>>)
GeofenceResume(id, mask) == LocAPIResumeGeofences(<<id>>, <<mask>>)
GeofenceRemove(id) == LocAPIRemoveGeofences(<<id>>)

-----------------------------------------------------------------------------
(* The interface, and its answer.                                          *)
Carried(call, ok) ==
  LET its == {call.sessions[k] : k \in {i \in DOMAIN call.sessions : ok[i]}}
  IN CASE call.op = "add" ->
            Over([s \in its |-> [mask |-> call.masks[At(call.sessions, s)], paused |-> FALSE]], fences)
       [] call.op = "remove" -> Without(fences, its)
       [] call.op = "modify" ->
            [s \in DOMAIN fences |->
               IF s \in its THEN [fences[s] EXCEPT !.mask = call.masks[At(call.sessions, s)]]
               ELSE fences[s]]
       [] OTHER ->
            [s \in DOMAIN fences |->
               IF s \in its THEN [fences[s] EXCEPT !.paused = call.op = "pause"]
               ELSE fences[s]]

(* onCollectiveResponseCb(): a removal has kept the ids of its sessions,   *)
(* the other requests ask the dictionary for them.                         *)
Named(call, k) ==
  IF call.op = "remove" THEN call.ids[k] ELSE GetId(mGeofenceBiDict, call.sessions[k])
FenceHandle ==
  /\ fenceMail # << >>
  /\ LET call == Head(fenceMail)
         all == DOMAIN call.sessions
     IN \E ok \in [all -> BOOLEAN] :
          /\ \A k \in all : ok[k] => (call.op = "add" \/ call.sessions[k] \in DOMAIN fences)
          /\ fences' = Carried(call, ok)
          /\ fenceSeen' = [fenceSeen EXCEPT
               !.refused = (@ \cup {call.sessions[k] : k \in {i \in all : ~ok[i]}})
                             \cap DOMAIN Carried(call, ok),
               !.misnamed = @ \/ \E k \in all : Named(call, k) \notin {call.ids[k], 0},
               !.mixed = @ \/ Head(fencePending) # call]
  /\ fenceMail' = Tail(fenceMail) /\ fencePending' = Tail(fencePending)
  /\ UNCHANGED <<mGeofenceBiDict, fenceCounter>>

(* beforeGeofenceBreachCb(): the ids for which the owner is told that the  *)
(* geofences of these sessions were breached.                              *)
BeforeGeofenceBreachCb(sessions, type) ==
  {GetId(mGeofenceBiDict, s) : s \in {x \in sessions : type \in GetExtBySession(mGeofenceBiDict, x, {})}}

FenceCalls ==
  \/ \E ids \in Ids :
       \/ \E masks \in MasksOf(ids) : LocAPIAddGeofences(ids, masks) \/ LocAPIModifyGeofences(ids, masks)
       \/ LocAPIRemoveGeofences(ids) \/ LocAPIPauseGeofences(ids)
  \/ \E id \in FenceId, mask \in Masks :
       GeofenceAdd(id, mask) \/ GeofencePause(id) \/ GeofenceResume(id, mask) \/ GeofenceRemove(id)

FenceNext == FenceCalls \/ FenceHandle
FenceSpec == FenceInit /\ [][FenceNext]_fenceVars

-----------------------------------------------------------------------------
(* Properties.                                                             *)
Current(s) == HasSession(mGeofenceBiDict, s) /\ GetSession(mGeofenceBiDict, GetId(mGeofenceBiDict, s)) = s

(* A geofence that the interface watches can still be named by the owner,  *)
(* or its removal is under way.  Excused: a removal refused, since the     *)
(* library forgot the geofence before it asked, and an id that was added   *)
(* again without being removed.                                            *)
FencesAreOwned ==
  \A s \in DOMAIN fences :
    \/ HasSession(mGeofenceBiDict, s)
    \/ \E k \in DOMAIN fenceMail : fenceMail[k].op = "remove" /\ s \in Elements(fenceMail[k].sessions)
    \/ s \in fenceSeen.refused

(* When nothing is under way, the owner hears of exactly the breaches the  *)
(* interface watches for, under the id it chose.  Excused: a change that   *)
(* was refused, a mask given with resume, and a mask shifted by an unknown *)
(* id before it.                                                           *)
BreachesMatch(s) ==
  \A type \in BreachType :
    BeforeGeofenceBreachCb({s}, type)
      = IF type \in fences[s].mask THEN {GetId(mGeofenceBiDict, s)} ELSE {}
BreachesAreReported ==
  fenceMail = << >> =>
    \A s \in DOMAIN fences :
      \/ ~Current(s) \/ BreachesMatch(s)
      \/ s \in fenceSeen.refused \cup fenceSeen.resumed \cup fenceSeen.shifted

(* A response is taken for the call it answers, and names each geofence as *)
(* the owner did, or, when it was removed meanwhile, by 0.                 *)
AnswersNameTheirFences == ~fenceSeen.mixed /\ ~fenceSeen.misnamed

(* As BreachesAreReported, with nothing said of unknown ids: each geofence *)
(* is watched and reported by the option given for it.                     *)
EachByItsOption ==
  fenceMail = << >> =>
    \A s \in DOMAIN fences :
      ~Current(s) \/ BreachesMatch(s) \/ s \in fenceSeen.refused \cup fenceSeen.resumed
=============================================================================
