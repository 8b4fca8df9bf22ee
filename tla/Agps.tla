-------------------------------- MODULE Agps --------------------------------
(***************************************************************************)
(* The AGPS connection manager of the GNSS HAL (gnss/Agps.cpp): the modem  *)
(* asks for an ATL (a data connection for assisted GPS) under a connection *)
(* handle, and the manager multiplexes the requests onto at most three     *)
(* state machines.  "agnss" and "internet" ask the connectivity framework  *)
(* for a connection, "ds" asks the modem's own data service for an         *)
(* emergency call and falls back to "agnss" when that fails.               *)
(*                                                                         *)
(* All the handlers run on the adapter's MsgTask thread, which takes the   *)
(* messages of one FIFO queue; the modem (QMI thread), the framework, the  *)
(* data service and the retry timer run on their own and only post.        *)
(*                                                                         *)
(* A subscriber list is a set of subscribers numbered by their place       *)
(* (push_back appends, erase keeps the order of the others).               *)
(***************************************************************************)
EXTENDS Naturals, Sequences, FiniteSets

CONSTANTS
  Handle,           \* connection handles: the modem names each request by one
  RequestTypes,     \* the AGPS types the modem asks for
  MaxRetries        \* MAX_START_DATA_CALL_RETRIES

AGpsType == {"SUPL", "SUPL_ES", "WWAN_ANY"}

ASSUME TypesAssumption == RequestTypes \subseteq AGpsType
ASSUME RetriesAssumption == MaxRetries \in Nat

VARIABLES
  mState,           \* the state of each state machine
  mSubscriberList,  \* its subscribers
  lastPos,          \* the place of the last push_back on its list
  mRetries,         \* DS calls refused in a row
  mDsNif,           \* the DS state machine, and why there is none
  queue,            \* the adapter's message queue
  timers,           \* retry timers armed and not yet expired
  fwRequests,       \* what the framework was asked and has not answered yet
  fwConn,           \* the framework's connection is up
  dsCall,           \* the data service's call
  atl,              \* what the modem was last told about each handle
  released          \* the handles the modem has released

smVars == <<mState, mSubscriberList, lastPos>>
dsVars == <<mRetries, mDsNif, timers, dsCall>>
fwVars == <<fwRequests, fwConn>>
modemVars == <<atl, released>>
vars == <<smVars, dsVars, fwVars, modemVars, queue>>

Fw == {"agnss", "internet"}
Nif == Fw \cup {"ds"}
(* USE_EMERGENCY_PDN_FOR_EMERGENCY_SUPL of gps.conf, and whether the data   *)
(* service client came up; or CAPABILITIES name neither MSA nor MSB, and   *)
(* there is no machine for SUPL at all, "agnss" or "ds".                   *)
DsNif == {"incapable", "unused", "missing", "created"}
AgpsState == {"RELEASED", "PENDING", "ACQUIRED", "RELEASING"}
Subscriber == [handle : Handle, wait : BOOLEAN, inactive : BOOLEAN, pos : Nat]

RequestMsg(h, t) == [kind |-> "RequestATL", handle |-> h, type |-> t]
ReleaseMsg(h) == [kind |-> "ReleaseATL", handle |-> h]
FwMsg(k, n) == [kind |-> k, nif |-> n]
DsMsg(k) == [kind |-> k]

Message ==
  [kind : {"RequestATL"}, handle : Handle, type : AGpsType]
    \cup [kind : {"ReleaseATL"}, handle : Handle]
    \cup [kind : {"AtlOpenSuccess", "AtlOpenFailed", "AtlClosed"}, nif : Fw]
    \cup [kind : {"DataCallOpened", "DataCallClosed"}]

TypeOK ==
  /\ mState \in [Nif -> AgpsState]
  /\ mSubscriberList \in [Nif -> SUBSET Subscriber]
  /\ \A n \in Nif : IsFiniteSet(mSubscriberList[n])
  /\ lastPos \in [Nif -> Nat]
  /\ mRetries \in 0..MaxRetries
  /\ mDsNif \in DsNif
  /\ queue \in Seq(Message)
  /\ timers \in Nat
  /\ fwRequests \in [Fw -> Seq({"request", "release"})]
  /\ fwConn \in [Fw -> BOOLEAN]
  /\ dsCall \in {"idle", "starting", "up", "stopping"}
  /\ atl \in [Handle -> {"idle", "requested", "open", "failed", "closed"}]
  /\ released \in SUBSET Handle

(* The state machines as initAgps leaves them: the DS one only if its data *)
(* service client came up.                                                 *)
Init ==
  /\ mState = [n \in Nif |-> "RELEASED"]
  /\ mSubscriberList = [n \in Nif |-> {}]
  /\ lastPos = [n \in Nif |-> 0]
  /\ mRetries = 0
  /\ mDsNif \in DsNif
  /\ queue = <<>>
  /\ timers = 0
  /\ fwRequests = [n \in Fw |-> <<>>]
  /\ fwConn = [n \in Fw |-> FALSE]
  /\ dsCall = "idle"
  /\ atl = [h \in Handle |-> "idle"]
  /\ released = {}

-----------------------------------------------------------------------------
(* Subscriber lists and the calls the handlers are made of.                *)

Active(S) == {s \in S : ~s.inactive}
Inactive(S) == {s \in S : s.inactive}
FirstActive(S) == {s \in Active(S) : \A t \in Active(S) : s.pos <= t.pos}
HandlesOf(S) == {s.handle : s \in S}

(* The lists in list order.                                                *)
InOrder(S) ==
  {p \in [1..Cardinality(S) -> S] :
     \A i, j \in 1..Cardinality(S) : i < j => p[i].pos < p[j].pos}

NextPos(n) == IF mSubscriberList[n] = {} THEN 1 ELSE lastPos[n] + 1

AddSubscriber(n, h, w) ==
  IF h \in HandlesOf(mSubscriberList[n])
  THEN UNCHANGED <<mSubscriberList, lastPos>>
  ELSE /\ mSubscriberList' = [mSubscriberList EXCEPT ![n] = @ \cup
             {[handle |-> h, wait |-> w, inactive |-> FALSE, pos |-> NextPos(n)]}]
       /\ lastPos' = [lastPos EXCEPT ![n] = NextPos(n)]

Notify(H, status) == atl' = [h \in Handle |-> IF h \in H THEN status ELSE atl[h]]

FwSend(n, what) == fwRequests' = [fwRequests EXCEPT ![n] = Append(@, what)]

(* Mutant: the DS machine does not pass the release on.                    *)
ReleaseDataConnNotDs(n) ==
  IF n = "ds" THEN UNCHANGED <<dsCall, fwRequests>>
  ELSE FwSend(n, "release") /\ UNCHANGED dsCall

(* requestOrReleaseDataConn(false).                                        *)
ReleaseDataConn(n) ==
  IF n = "ds"
  THEN /\ dsCall' = IF dsCall \in {"starting", "up"} THEN "stopping" ELSE dsCall
       /\ UNCHANGED fwRequests
  ELSE FwSend(n, "release") /\ UNCHANGED dsCall

GetNif(t) == CASE t = "WWAN_ANY" -> "internet"
               [] t # "WWAN_ANY" /\ mDsNif = "incapable" -> "none"
               [] t = "SUPL_ES" /\ mDsNif \in {"missing", "created"} -> "ds"
               [] OTHER -> "agnss"

Receive(kinds) == queue # <<>> /\ Head(queue).kind \in kinds
Post(msgs) == queue' = Tail(queue) \o msgs
Done == queue' = Tail(queue)

-----------------------------------------------------------------------------
(* RequestATL: SUBSCRIBE.  S is the list the DS call is made for.          *)

Subscribing(n) == Receive({"RequestATL"}) /\ GetNif(Head(queue).type) = n
AddCurrent(n) == AddSubscriber(n, Head(queue).handle, Head(queue).type = "SUPL_ES")

(* requestOrReleaseDataConn(true) of the DS machine: the call starts; it   *)
(* is busy and a timer retries; the retries are exhausted or there is no   *)
(* emergency profile, and the first active subscriber is sent to plain     *)
(* SUPL; or the answer is none of these and is only logged.                *)
DsCallStarts(onSuccess) ==
  /\ dsCall = "idle"
  /\ dsCall' = "starting"
  /\ mState' = [mState EXCEPT !["ds"] = onSuccess]
  /\ Done
  /\ UNCHANGED <<mRetries, timers>>

DsCallBusy(onFailure) ==
  /\ mRetries < MaxRetries
  /\ mRetries' = mRetries + 1
  /\ timers' = timers + 1
  /\ mState' = [mState EXCEPT !["ds"] = onFailure]
  /\ Done
  /\ UNCHANGED dsCall

DsFallsBack(S, onFailure) ==
  /\ \E s \in FirstActive(S) : Post(<<RequestMsg(s.handle, "SUPL")>>)
  /\ mRetries' = 0
  /\ mState' = [mState EXCEPT !["ds"] = onFailure]
  /\ UNCHANGED <<timers, dsCall>>

DsCallUnknown(onFailure) ==
  /\ mState' = [mState EXCEPT !["ds"] = onFailure]
  /\ Done
  /\ UNCHANGED <<mRetries, timers, dsCall>>

DsRequest(S, onSuccess, onFailure) ==
  \/ DsCallStarts(onSuccess)
  \/ DsCallBusy(onFailure)
  \/ DsFallsBack(S, onFailure)
  \/ DsCallUnknown(onFailure)

RequestNoNif ==
  /\ Subscribing("none") \/ (Subscribing("ds") /\ mDsNif = "missing")
  /\ Notify({Head(queue).handle}, "failed")
  /\ Done
  /\ UNCHANGED <<smVars, dsVars, fwVars, released>>

SubscribeReleased(n) ==
  /\ Subscribing(n)
  /\ mState[n] = "RELEASED"
  /\ AddCurrent(n)
  /\ FwSend(n, "request")
  /\ mState' = [mState EXCEPT ![n] = "PENDING"]
  /\ Done
  /\ UNCHANGED <<dsVars, fwConn, modemVars>>

(* The machine of a failed start is created again by the next request.     *)
SubscribeDsReleased ==
  /\ Subscribing("ds")
  /\ mState["ds"] = "RELEASED"
  /\ mDsNif' = "created"
  /\ AddCurrent("ds")
  /\ DsRequest(mSubscriberList'["ds"], "PENDING", "RELEASED")
  /\ UNCHANGED <<fwVars, modemVars>>

SubscribeWaiting(n) ==
  /\ Subscribing(n)
  /\ mState[n] \in {"PENDING", "RELEASING"}
  /\ AddCurrent(n)
  /\ Done
  /\ UNCHANGED <<mState, dsVars, fwVars, modemVars>>

SubscribeAcquired(n) ==
  /\ Subscribing(n)
  /\ mState[n] = "ACQUIRED"
  /\ Notify({Head(queue).handle}, "open")
  /\ AddCurrent(n)
  /\ Done
  /\ UNCHANGED <<mState, dsVars, fwVars, released>>

-----------------------------------------------------------------------------
(* ReleaseATL: UNSUBSCRIBE.  The machines are searched in a fixed order.   *)

HasHandle(n, h) == h \in HandlesOf(mSubscriberList[n])

FindNif(h) ==
  {n \in Nif : /\ HasHandle(n, h)
               /\ n = "internet" => ~HasHandle("agnss", h)
               /\ n = "ds" => ~HasHandle("agnss", h) /\ ~HasHandle("internet", h)}

Unsubscribing(n, s) ==
  /\ Receive({"ReleaseATL"})
  /\ n \in FindNif(Head(queue).handle)
  /\ s \in mSubscriberList[n]
  /\ s.handle = Head(queue).handle

ReleaseNotFound ==
  /\ Receive({"ReleaseATL"})
  /\ FindNif(Head(queue).handle) = {}
  /\ Notify({Head(queue).handle}, "closed")
  /\ Done
  /\ UNCHANGED <<smVars, dsVars, fwVars, released>>

(* Only told: the subscriber stays in the list.                            *)
UnsubscribeReleased(n, s) ==
  /\ Unsubscribing(n, s)
  /\ mState[n] = "RELEASED"
  /\ Notify({s.handle}, "closed")
  /\ Done
  /\ UNCHANGED <<smVars, dsVars, fwVars, released>>

(* A subscriber that waits for the close goes inactive, another is told    *)
(* and removed.  deleteSubscriber goes on comparing the rest of the list   *)
(* with the one it has deleted: the freed memory holds the old handle, or  *)
(* a link of the allocator, and neither is the handle of another.          *)
Withdraw(n, s) ==
  IF s.wait
  THEN /\ mSubscriberList' = [mSubscriberList EXCEPT
             ![n] = (@ \ {s}) \cup {[s EXCEPT !.inactive = TRUE]}]
       /\ UNCHANGED atl
  ELSE /\ mSubscriberList' = [mSubscriberList EXCEPT ![n] = @ \ {s}]
       /\ Notify({s.handle}, "closed")

(* Mutant: only an empty list, not an inactive one, gives the connection up.*)
UnsubscribeInUseIfEmpty(n, s) ==
  /\ Unsubscribing(n, s)
  /\ mState[n] \in {"PENDING", "ACQUIRED"}
  /\ Withdraw(n, s)
  /\ IF mSubscriberList'[n] # {}
     THEN UNCHANGED <<mState, fwRequests, dsCall>>
     ELSE /\ mState' = [mState EXCEPT ![n] = "RELEASED"]
          /\ ReleaseDataConn(n)
  /\ Done
  /\ UNCHANGED <<lastPos, mRetries, mDsNif, timers, fwConn, released>>

UnsubscribeInUse(n, s) ==
  /\ Unsubscribing(n, s)
  /\ mState[n] \in {"PENDING", "ACQUIRED"}
  /\ Withdraw(n, s)
  /\ IF Active(mSubscriberList'[n]) # {}
     THEN UNCHANGED <<mState, fwRequests, dsCall>>
     ELSE /\ mState' = [mState EXCEPT ![n] =
                          IF mSubscriberList'[n] = {} THEN "RELEASED" ELSE "RELEASING"]
          /\ ReleaseDataConn(n)
  /\ Done
  /\ UNCHANGED <<lastPos, mRetries, mDsNif, timers, fwConn, released>>

UnsubscribeReleasing(n, s) ==
  /\ Unsubscribing(n, s)
  /\ mState[n] = "RELEASING"
  /\ Withdraw(n, s)
  /\ mState' = [mState EXCEPT ![n] =
                  IF mSubscriberList'[n] = {} THEN "RELEASED" ELSE @]
  /\ Done
  /\ UNCHANGED <<lastPos, dsVars, fwVars, released>>

-----------------------------------------------------------------------------
(* What the framework and the data service report: GRANTED, RELEASED,      *)
(* DENIED.                                                                 *)

FwReport(n, kinds) == Receive(kinds) /\ Head(queue).nif = n
GrantReport(n) == IF n = "ds" THEN Receive({"DataCallOpened"})
                  ELSE FwReport(n, {"AtlOpenSuccess"})

Granted(n) ==
  /\ GrantReport(n)
  /\ mState[n] = "PENDING"
  /\ mState' = [mState EXCEPT ![n] = "ACQUIRED"]
  /\ Notify(HandlesOf(Active(mSubscriberList[n])), "open")
  /\ Done
  /\ UNCHANGED <<mSubscriberList, lastPos, dsVars, fwVars, released>>

(* RELEASED in ACQUIRED: the connection was lost under its subscribers.    *)
CloseReport(n) == IF n = "ds" THEN Receive({"DataCallClosed"})
                  ELSE FwReport(n, {"AtlClosed"})

(* Mutant: the subscribers are told but the state is left.                 *)
ForceReleasedStays(n) ==
  /\ CloseReport(n)
  /\ mState[n] = "ACQUIRED"
  /\ Notify(HandlesOf(mSubscriberList[n]), "closed")
  /\ Done
  /\ UNCHANGED <<smVars, dsVars, fwVars, released>>

ForceReleased(n) ==
  /\ CloseReport(n)
  /\ mState[n] = "ACQUIRED"
  /\ mState' = [mState EXCEPT ![n] = "RELEASED"]
  /\ Notify(HandlesOf(mSubscriberList[n]), "closed")
  /\ mSubscriberList' = [mSubscriberList EXCEPT ![n] = {}]
  /\ Done
  /\ UNCHANGED <<lastPos, dsVars, fwVars, released>>

(* Mutant: the subscribers waiting for a new connection are told closed.   *)
EndReleasingTellsAll(n) ==
  /\ mState[n] = "RELEASING"
  /\ Notify(HandlesOf(mSubscriberList[n]), "closed")
  /\ mSubscriberList' = [mSubscriberList EXCEPT ![n] = Active(@)]
  /\ UNCHANGED <<lastPos, released, mDsNif, fwConn>>

(* Mutant: the inactive subscribers are dropped without being told.        *)
EndReleasingSilently(n) ==
  /\ mState[n] = "RELEASING"
  /\ mSubscriberList' = [mSubscriberList EXCEPT ![n] = Active(@)]
  /\ UNCHANGED <<lastPos, modemVars, mDsNif, fwConn>>

(* RELEASED or DENIED in RELEASING: the inactive subscribers go; the       *)
(* others have been waiting for a new connection.                          *)
EndReleasing(n) ==
  /\ mState[n] = "RELEASING"
  /\ Notify(HandlesOf(Inactive(mSubscriberList[n])), "closed")
  /\ mSubscriberList' = [mSubscriberList EXCEPT ![n] = Active(@)]
  /\ UNCHANGED <<lastPos, released, mDsNif, fwConn>>

(* Mutant: nothing is requested for the subscribers that wait.             *)
ReleasedInReleasingNoRequest(n) ==
  /\ FwReport(n, {"AtlClosed", "AtlOpenFailed"})
  /\ EndReleasing(n)
  /\ mState' = [mState EXCEPT ![n] =
                  IF Active(mSubscriberList[n]) # {} THEN "PENDING" ELSE "RELEASED"]
  /\ Done
  /\ UNCHANGED <<mRetries, timers, dsCall, fwRequests>>

ReleasedInReleasing(n) ==
  /\ FwReport(n, {"AtlClosed", "AtlOpenFailed"})
  /\ EndReleasing(n)
  /\ IF Active(mSubscriberList[n]) # {}
     THEN /\ mState' = [mState EXCEPT ![n] = "PENDING"]
          /\ FwSend(n, "request")
     ELSE /\ mState' = [mState EXCEPT ![n] = "RELEASED"]
          /\ UNCHANGED fwRequests
  /\ Done
  /\ UNCHANGED <<mRetries, timers, dsCall>>

DsReleasedInReleasing ==
  /\ Receive({"DataCallClosed"})
  /\ EndReleasing("ds")
  /\ UNCHANGED fwRequests
  /\ \/ /\ Active(mSubscriberList["ds"]) # {}
        /\ DsRequest(mSubscriberList'["ds"], "PENDING", "PENDING")
     \/ /\ Active(mSubscriberList["ds"]) = {}
        /\ mState' = [mState EXCEPT !["ds"] = "RELEASED"]
        /\ Done
        /\ UNCHANGED <<mRetries, timers, dsCall>>

(* DENIED in PENDING; the DS machine takes a closed call for it and sends  *)
(* every subscriber to plain SUPL.                                         *)
Denied(n) ==
  /\ FwReport(n, {"AtlOpenFailed"})
  /\ mState[n] = "PENDING"
  /\ mState' = [mState EXCEPT ![n] = "RELEASED"]
  /\ Notify(HandlesOf(mSubscriberList[n]), "failed")
  /\ mSubscriberList' = [mSubscriberList EXCEPT ![n] = {}]
  /\ Done
  /\ UNCHANGED <<lastPos, dsVars, fwVars, released>>

DsDenied ==
  /\ Receive({"DataCallClosed"})
  /\ mState["ds"] = "PENDING"
  /\ mState' = [mState EXCEPT !["ds"] = "RELEASED"]
  /\ mRetries' = 0
  /\ \E p \in InOrder(mSubscriberList["ds"]) :
       Post([i \in DOMAIN p |-> RequestMsg(p[i].handle, "SUPL")])
  /\ mSubscriberList' = [mSubscriberList EXCEPT !["ds"] = {}]
  /\ UNCHANGED <<lastPos, mDsNif, timers, dsCall, fwVars, modemVars>>

IgnoredReport(n) ==
  /\ \/ GrantReport(n) /\ mState[n] # "PENDING"
     \/ CloseReport(n) /\ mState[n] = "RELEASED"
     \/ CloseReport(n) /\ mState[n] = "PENDING" /\ n # "ds"
     \/ n # "ds" /\ FwReport(n, {"AtlOpenFailed"}) /\ mState[n] \in {"RELEASED", "ACQUIRED"}
  /\ Done
  /\ UNCHANGED <<smVars, dsVars, fwVars, modemVars>>

-----------------------------------------------------------------------------
(* delay_callback, on the timer's thread.                                  *)
RetryCallback ==
  /\ timers > 0
  /\ timers' = timers - 1
  /\ IF FirstActive(mSubscriberList["ds"]) = {}
     THEN UNCHANGED queue
     ELSE \E s \in FirstActive(mSubscriberList["ds"]) :
            queue' = Append(queue, RequestMsg(s.handle, "SUPL_ES"))
  /\ UNCHANGED <<smVars, mRetries, mDsNif, dsCall, fwVars, modemVars>>

-----------------------------------------------------------------------------
(* The surroundings.  A handle serves one request of the modem.            *)

ModemRequest(h, t) ==
  /\ atl[h] = "idle"
  /\ atl' = [atl EXCEPT ![h] = "requested"]
  /\ queue' = Append(queue, RequestMsg(h, t))
  /\ UNCHANGED <<smVars, dsVars, fwVars, released>>

ModemRelease(h) ==
  /\ atl[h] \in {"requested", "open"}
  /\ h \notin released
  /\ released' = released \cup {h}
  /\ queue' = Append(queue, ReleaseMsg(h))
  /\ UNCHANGED <<smVars, dsVars, fwVars, atl>>

(* The framework serves what it is asked in order.  A request fails only   *)
(* when there is no connection, a release only when there is none to close.*)
FwAnswer(n, kind, up) ==
  /\ fwRequests' = [fwRequests EXCEPT ![n] = Tail(@)]
  /\ fwConn' = [fwConn EXCEPT ![n] = up]
  /\ queue' = Append(queue, FwMsg(kind, n))
  /\ UNCHANGED <<smVars, dsVars, modemVars>>

FwServe(n) ==
  /\ fwRequests[n] # <<>>
  /\ \/ Head(fwRequests[n]) = "request" /\ FwAnswer(n, "AtlOpenSuccess", TRUE)
     \/ Head(fwRequests[n]) = "request" /\ ~fwConn[n] /\ FwAnswer(n, "AtlOpenFailed", FALSE)
     \/ Head(fwRequests[n]) = "release" /\ FwAnswer(n, "AtlClosed", FALSE)
     \/ Head(fwRequests[n]) = "release" /\ ~fwConn[n] /\ FwAnswer(n, "AtlOpenFailed", FALSE)

FwLose(n) ==
  /\ fwConn[n]
  /\ fwConn' = [fwConn EXCEPT ![n] = FALSE]
  /\ queue' = Append(queue, FwMsg("AtlClosed", n))
  /\ UNCHANGED <<smVars, dsVars, modemVars, fwRequests>>

DsChange(from, to, kind) ==
  /\ dsCall = from
  /\ dsCall' = to
  /\ queue' = Append(queue, DsMsg(kind))
  /\ UNCHANGED <<smVars, mRetries, mDsNif, timers, fwVars, modemVars>>

DsServe ==
  \/ DsChange("starting", "up", "DataCallOpened")
  \/ DsChange("starting", "idle", "DataCallClosed")
  \/ DsChange("stopping", "idle", "DataCallClosed")

DsLose == DsChange("up", "idle", "DataCallClosed")

-----------------------------------------------------------------------------
MsgTask ==
  \/ RequestNoNif
  \/ \E n \in Fw : SubscribeReleased(n)
  \/ SubscribeDsReleased
  \/ \E n \in Nif : SubscribeWaiting(n) \/ SubscribeAcquired(n)
  \/ ReleaseNotFound
  \/ \E n \in Nif : \E s \in mSubscriberList[n] :
       \/ UnsubscribeReleased(n, s)
       \/ UnsubscribeInUse(n, s)
       \/ UnsubscribeReleasing(n, s)
  \/ \E n \in Nif : Granted(n) \/ ForceReleased(n) \/ IgnoredReport(n)
  \/ \E n \in Fw : ReleasedInReleasing(n) \/ Denied(n)
  \/ DsReleasedInReleasing
  \/ DsDenied

Environment ==
  \/ \E h \in Handle : ModemRelease(h) \/ \E t \in RequestTypes : ModemRequest(h, t)
  \/ \E n \in Fw : FwServe(n) \/ FwLose(n)
  \/ DsServe \/ DsLose

Next == MsgTask \/ RetryCallback \/ Environment

(* The message thread, the timer and both peers keep going; the modem may  *)
(* stop at any point and nothing need ever be lost.                        *)
Fairness ==
  /\ WF_vars(MsgTask)
  /\ WF_vars(RetryCallback)
  /\ \A n \in Fw : WF_vars(FwServe(n))
  /\ WF_vars(DsServe)

Spec == Init /\ [][Next]_vars
FairSpec == Spec /\ Fairness
-----------------------------------------------------------------------------
(* Properties.                                                             *)

InQueue(msgs) == \E i \in DOMAIN queue : queue[i] \in msgs
Outstanding(n, what) == \E i \in DOMAIN fwRequests[n] : fwRequests[n][i] = what
Reports(n, kinds) == {FwMsg(k, n) : k \in kinds}
DsQuiet == ~InQueue({DsMsg("DataCallOpened"), DsMsg("DataCallClosed")})

(* "Subscriber list should be empty if we are in released state"           *)
(* (Agps.cpp:208), for the machines the framework serves.                  *)
ReleasedIsEmpty == \A n \in Fw : mState[n] = "RELEASED" => mSubscriberList[n] = {}

(* A machine holds or awaits a connection only for an active subscriber,   *)
(* and it is giving one up only while somebody waits to be told.           *)
ListMatchesState ==
  \A n \in Nif :
    /\ mState[n] \in {"PENDING", "ACQUIRED"} => Active(mSubscriberList[n]) # {}
    /\ mState[n] = "RELEASING" => Inactive(mSubscriberList[n]) # {}

(* A machine that waits is owed the answer it waits for: the framework has *)
(* yet to serve the request or the answer is in the queue.  Requests and   *)
(* releases of earlier rounds may still be under way.                      *)
AnswerIsOwed ==
  \A n \in Fw :
    /\ mState[n] = "PENDING" =>
         \/ Outstanding(n, "request")
         \/ InQueue(Reports(n, {"AtlOpenSuccess", "AtlOpenFailed"}))
    /\ mState[n] = "RELEASING" =>
         \/ Outstanding(n, "release")
         \/ InQueue(Reports(n, {"AtlClosed", "AtlOpenFailed"}))

(* Behind an acquired machine there is a connection, or the news of its    *)
(* loss is on the way.                                                     *)
AcquiredIsBacked ==
  \A n \in Fw : mState[n] = "ACQUIRED" => fwConn[n] \/ InQueue(Reports(n, {"AtlClosed"}))

(* Once its reports are processed, a DS call in progress is one that the   *)
(* machine is in step with: no emergency call is left up behind its back.  *)
DsCallIsKnown ==
  DsQuiet =>
    /\ dsCall = "starting" => mState["ds"] = "PENDING"
    /\ dsCall = "up" <=> mState["ds"] = "ACQUIRED"
    /\ dsCall = "stopping" => mState["ds"] = "RELEASING"

(* As long as the DS state machine does not exist, the manager keeps the   *)
(* modem's view of every handle to its life cycle.                         *)
Lifecycle == INSTANCE AtlLifecycle
FollowsLifecycle == Lifecycle!Init /\ [][mDsNif = "created" \/ Lifecycle!Next]_<<atl, released>>

(* A request is answered, unless the modem itself gave it up or the DS *)
(* machine exists: when that falls back, it asks again for its first       *)
(* subscriber only, and the others are forgotten (Agps.cpp:618-626).       *)
RequestAnswered ==
  \A h \in Handle :
    atl[h] = "requested" ~> atl[h] # "requested" \/ h \in released \/ mDsNif = "created"

(* A modem that releases what it was granted is told the end of each.      *)
ReleaseAnswered ==
  (\A h \in Handle : WF_vars(ModemRelease(h)))
     => \A h \in Handle : h \in released ~> atl[h] \in {"closed", "failed"} \/ mDsNif = "created"

(* Every request and every release of the modem is answered in the end,    *)
(* through refusals, retries and whatever the framework does meanwhile.    *)
EveryoneIsAnswered == RequestAnswered /\ ReleaseAnswered

(* "If no subscribers in list, release data connection" (Agps.cpp:140):    *)
(* when everything has settled no connection is up without a subscriber.   *)
NoOrphanConnection ==
  queue = <<>> /\ (\A n \in Fw : fwRequests[n] = <<>>)
    => \A n \in Fw : fwConn[n] => mSubscriberList[n] # {}
=============================================================================
