----------------------------- MODULE AgpsProofs -----------------------------
(***************************************************************************)
(* Theorems about the AGPS manager, for every set of handles, every choice *)
(* of request types, either emergency setting and every retry limit.       *)
(***************************************************************************)
EXTENDS Agps, FiniteSetTheorems, SequenceTheorems, TLAPS

-----------------------------------------------------------------------------
(* The calls the handlers are made of keep the types.                      *)

LEMMA MessageTypes ==
  ASSUME TypeOK, queue # <<>>
  PROVE  /\ Head(queue) \in Message
         /\ Tail(queue) \in Seq(Message)
  BY DEF TypeOK

LEMMA RequestType ==
  ASSUME NEW h \in Handle, NEW t \in AGpsType
  PROVE  RequestMsg(h, t) \in Message
  BY DEF RequestMsg, Message

LEMMA AddType ==
  ASSUME TypeOK, NEW n \in Nif, NEW h \in Handle, NEW w \in BOOLEAN,
         AddSubscriber(n, h, w)
  PROVE  /\ mSubscriberList' \in [Nif -> SUBSET Subscriber]
         /\ \A k \in Nif : IsFiniteSet(mSubscriberList'[k])
         /\ lastPos' \in [Nif -> Nat]
<1>1. NextPos(n) \in Nat
  BY DEF NextPos, TypeOK
<1>2. CASE h \in HandlesOf(mSubscriberList[n])
  BY <1>2 DEF AddSubscriber, TypeOK
<1>3. CASE h \notin HandlesOf(mSubscriberList[n])
  <2> DEFINE new == [handle |-> h, wait |-> w, inactive |-> FALSE, pos |-> NextPos(n)]
  <2>1. new \in Subscriber
    BY <1>1 DEF Subscriber
  <2>2. /\ mSubscriberList' = [mSubscriberList EXCEPT ![n] = @ \cup {new}]
        /\ lastPos' = [lastPos EXCEPT ![n] = NextPos(n)]
    BY <1>3 DEF AddSubscriber
  <2> HIDE DEF new
  <2>3. IsFiniteSet(mSubscriberList[n] \cup {new})
    BY FS_AddElement DEF TypeOK
  <2> QED
    BY <1>1, <2>1, <2>2, <2>3 DEF TypeOK
<1> QED
  BY <1>2, <1>3

LEMMA NotifyType ==
  ASSUME TypeOK, NEW H, NEW status \in {"open", "failed", "closed"}, Notify(H, status)
  PROVE  atl' \in [Handle -> {"idle", "requested", "open", "failed", "closed"}]
  BY DEF Notify, TypeOK

LEMMA FwSendType ==
  ASSUME TypeOK, NEW n \in Fw, NEW what \in {"request", "release"}, FwSend(n, what)
  PROVE  fwRequests' \in [Fw -> Seq({"request", "release"})]
<1>1. Append(fwRequests[n], what) \in Seq({"request", "release"})
  BY DEF TypeOK
<1> QED
  BY <1>1 DEF FwSend, TypeOK

LEMMA WithdrawType ==
  ASSUME TypeOK, NEW n \in Nif, NEW s \in mSubscriberList[n], Withdraw(n, s)
  PROVE  /\ mSubscriberList' \in [Nif -> SUBSET Subscriber]
         /\ \A k \in Nif : IsFiniteSet(mSubscriberList'[k])
         /\ atl' \in [Handle -> {"idle", "requested", "open", "failed", "closed"}]
<1>0. s \in Subscriber
  BY DEF TypeOK
<1>1. [s EXCEPT !.inactive = TRUE] \in Subscriber
  BY <1>0 DEF Subscriber
<1>2. IsFiniteSet(mSubscriberList[n] \ {s})
  BY FS_RemoveElement DEF TypeOK
<1>3. IsFiniteSet((mSubscriberList[n] \ {s}) \cup {[s EXCEPT !.inactive = TRUE]})
  BY <1>2, FS_AddElement
<1>4. CASE s.wait
  <2> DEFINE L == (mSubscriberList[n] \ {s}) \cup {[s EXCEPT !.inactive = TRUE]}
  <2>1. /\ mSubscriberList' = [mSubscriberList EXCEPT ![n] = L]
        /\ atl' = atl
    BY <1>4 DEF Withdraw
  <2>2. L \in SUBSET Subscriber /\ IsFiniteSet(L)
    BY <1>1, <1>3 DEF TypeOK
  <2> HIDE DEF L
  <2> QED
    BY <2>1, <2>2 DEF TypeOK
<1>5. CASE ~s.wait
  <2>1. /\ mSubscriberList' = [mSubscriberList EXCEPT ![n] = mSubscriberList[n] \ {s}]
        /\ Notify({s.handle}, "closed")
    BY <1>5 DEF Withdraw
  <2> QED
    BY <1>2, <2>1, NotifyType DEF TypeOK
<1> QED
  BY <1>4, <1>5

LEMMA ActiveType ==
  ASSUME TypeOK, NEW n \in Nif
  PROVE  /\ Active(mSubscriberList[n]) \in SUBSET Subscriber
         /\ IsFiniteSet(Active(mSubscriberList[n]))
  BY FS_Subset DEF TypeOK, Active

LEMMA EndReleasingType ==
  ASSUME TypeOK, NEW n \in Nif, EndReleasing(n)
  PROVE  /\ mSubscriberList' \in [Nif -> SUBSET Subscriber]
         /\ \A k \in Nif : IsFiniteSet(mSubscriberList'[k])
         /\ atl' \in [Handle -> {"idle", "requested", "open", "failed", "closed"}]
<1>1. mSubscriberList' = [mSubscriberList EXCEPT ![n] = Active(mSubscriberList[n])]
  BY DEF EndReleasing
<1>2. /\ mSubscriberList' \in [Nif -> SUBSET Subscriber]
      /\ \A k \in Nif : IsFiniteSet(mSubscriberList'[k])
  BY <1>1, ActiveType DEF TypeOK
<1>3. atl' \in [Handle -> {"idle", "requested", "open", "failed", "closed"}]
  BY NotifyType DEF EndReleasing
<1> QED
  BY <1>2, <1>3

(* The messages the handlers themselves post are requests.                 *)
Requests == [kind : {"RequestATL"}, handle : Handle, type : AGpsType]

LEMMA RequestsAreMessages == Seq(Requests) \subseteq Seq(Message)
<1>1. Requests \subseteq Message
  BY DEF Requests, Message
<1> QED
  BY <1>1, SeqMonotonic

LEMMA FallBackPosts ==
  ASSUME NEW S \in SUBSET Subscriber, NEW s \in FirstActive(S)
  PROVE  <<RequestMsg(s.handle, "SUPL")>> \in Seq(Requests)
<1>1. s.handle \in Handle
  BY DEF FirstActive, Active, Subscriber
<1>2. RequestMsg(s.handle, "SUPL") \in Requests
  BY <1>1 DEF RequestMsg, Requests, AGpsType
<1> QED
  BY <1>2

LEMMA DeniedPosts ==
  ASSUME TypeOK, DsDenied
  PROVE  \E m \in Seq(Requests) : queue' = Tail(queue) \o m
<1>1. PICK p \in InOrder(mSubscriberList["ds"]) :
        Post([i \in DOMAIN p |-> RequestMsg(p[i].handle, "SUPL")])
  BY DEF DsDenied
<1> DEFINE N == Cardinality(mSubscriberList["ds"])
           msgs == [i \in 1..N |-> RequestMsg(p[i].handle, "SUPL")]
<1>2. N \in Nat /\ p \in [1..N -> mSubscriberList["ds"]]
  BY <1>1, FS_CardinalityType DEF InOrder, TypeOK, Nif
<1>3. \A i \in 1..N : RequestMsg(p[i].handle, "SUPL") \in Requests
  <2> TAKE i \in 1..N
  <2>1. p[i] \in Subscriber
    BY <1>2 DEF TypeOK, Nif
  <2>2. p[i].handle \in Handle
    BY <2>1 DEF Subscriber
  <2> QED
    BY <2>2 DEF RequestMsg, Requests, AGpsType
<1>4. msgs \in Seq(Requests)
  BY <1>2, <1>3
<1>5. queue' = Tail(queue) \o msgs
  BY <1>1, <1>2 DEF Post
<1> QED
  BY <1>4, <1>5

LEMMA DsRequestType ==
  ASSUME TypeOK, queue # <<>>, NEW S \in SUBSET Subscriber,
         NEW ok \in AgpsState, NEW ko \in AgpsState, DsRequest(S, ok, ko)
  PROVE  /\ mState' \in [Nif -> AgpsState]
         /\ mRetries' \in 0..MaxRetries
         /\ timers' \in Nat
         /\ dsCall' \in {"idle", "starting", "up", "stopping"}
         /\ queue' \in Seq(Message)
<1>0. /\ Tail(queue) \in Seq(Message)
      /\ mState \in [Nif -> AgpsState]
      /\ mRetries \in 0..MaxRetries
      /\ timers \in Nat
      /\ dsCall \in {"idle", "starting", "up", "stopping"}
  BY MessageTypes DEF TypeOK
<1>1. CASE DsCallStarts(ok)
  BY <1>0, <1>1 DEF DsCallStarts, Done
<1>2. CASE DsCallBusy(ko)
  <2>1. mState' \in [Nif -> AgpsState]
    BY <1>0, <1>2 DEF DsCallBusy
  <2>2. mRetries' \in 0..MaxRetries /\ timers' \in Nat
    BY <1>0, <1>2, RetriesAssumption DEF DsCallBusy
  <2> QED
    BY <1>0, <1>2, <2>1, <2>2 DEF DsCallBusy, Done
<1>3. CASE DsFallsBack(S, ko)
  <2>1. PICK s \in FirstActive(S) : Post(<<RequestMsg(s.handle, "SUPL")>>)
    BY <1>3 DEF DsFallsBack
  <2>2. <<RequestMsg(s.handle, "SUPL")>> \in Seq(Message)
    BY <2>1, FallBackPosts, RequestsAreMessages
  <2>4. queue' \in Seq(Message)
    BY <1>0, <2>1, <2>2 DEF Post
  <2>5. mState' \in [Nif -> AgpsState]
    BY <1>0, <1>3 DEF DsFallsBack
  <2>6. mRetries' \in 0..MaxRetries
    BY <1>3, RetriesAssumption DEF DsFallsBack
  <2> QED
    BY <1>0, <1>3, <2>4, <2>5, <2>6 DEF DsFallsBack
<1>4. CASE DsCallUnknown(ko)
  BY <1>0, <1>4 DEF DsCallUnknown, Done
<1> QED
  BY <1>1, <1>2, <1>3, <1>4 DEF DsRequest

-----------------------------------------------------------------------------
(* Every step keeps the types.                                             *)

LEMMA SubscribeTypes ==
  ASSUME TypeOK, NEW n \in Nif,
         \/ RequestNoNif
         \/ n \in Fw /\ SubscribeReleased(n)
         \/ SubscribeDsReleased
         \/ SubscribeWaiting(n)
         \/ SubscribeAcquired(n)
  PROVE  TypeOK'
<1>0. queue # <<>> /\ Head(queue).kind = "RequestATL"
  BY DEF RequestNoNif, SubscribeReleased, SubscribeDsReleased, SubscribeWaiting,
         SubscribeAcquired, Subscribing, Receive
<1>1. /\ Head(queue).handle \in Handle
      /\ (Head(queue).type = "SUPL_ES") \in BOOLEAN
  BY <1>0, MessageTypes DEF Message
<1>2. Tail(queue) \in Seq(Message)
  BY <1>0, MessageTypes
<1>3. CASE RequestNoNif
  BY <1>2, <1>3, NotifyType
     DEF RequestNoNif, Done, TypeOK, smVars, dsVars, fwVars
<1>4. CASE n \in Fw /\ SubscribeReleased(n)
  <2>1. fwRequests' \in [Fw -> Seq({"request", "release"})]
    BY <1>4, FwSendType DEF SubscribeReleased
  <2> QED
    BY <1>1, <1>2, <1>4, <2>1, AddType
       DEF SubscribeReleased, AddCurrent, Done, TypeOK, AgpsState, dsVars, modemVars
<1>5. CASE SubscribeDsReleased
  <2>1. /\ mSubscriberList' \in [Nif -> SUBSET Subscriber]
        /\ \A k \in Nif : IsFiniteSet(mSubscriberList'[k])
        /\ lastPos' \in [Nif -> Nat]
    BY <1>1, <1>5, AddType DEF SubscribeDsReleased, AddCurrent, Nif
  <2>2. mSubscriberList'["ds"] \in SUBSET Subscriber
    BY <2>1 DEF Nif
  <2>3. DsRequest(mSubscriberList'["ds"], "PENDING", "RELEASED")
    BY <1>5 DEF SubscribeDsReleased
  <2>4. /\ mState' \in [Nif -> AgpsState]
        /\ mRetries' \in 0..MaxRetries
        /\ timers' \in Nat
        /\ dsCall' \in {"idle", "starting", "up", "stopping"}
        /\ queue' \in Seq(Message)
    BY <1>0, <2>2, <2>3, DsRequestType DEF AgpsState
  <2> QED
    BY <1>5, <2>1, <2>4 DEF SubscribeDsReleased, TypeOK, DsNif, fwVars, modemVars
<1>6. CASE SubscribeWaiting(n)
  BY <1>1, <1>2, <1>6, AddType
     DEF SubscribeWaiting, AddCurrent, Done, TypeOK, dsVars, fwVars, modemVars
<1>7. CASE SubscribeAcquired(n)
  BY <1>1, <1>2, <1>7, AddType, NotifyType
     DEF SubscribeAcquired, AddCurrent, Done, TypeOK, dsVars, fwVars
<1> QED
  BY <1>3, <1>4, <1>5, <1>6, <1>7

LEMMA UnsubscribeTypes ==
  ASSUME TypeOK, NEW n \in Nif, NEW s \in mSubscriberList[n],
         \/ UnsubscribeReleased(n, s)
         \/ UnsubscribeInUse(n, s)
         \/ UnsubscribeReleasing(n, s)
  PROVE  TypeOK'
<1>1. CASE UnsubscribeReleased(n, s)
  BY <1>1, MessageTypes, NotifyType
     DEF UnsubscribeReleased, Unsubscribing, Receive, Done, TypeOK, smVars, dsVars, fwVars
<1>2. CASE UnsubscribeInUse(n, s)
  <2>1. /\ fwRequests' \in [Fw -> Seq({"request", "release"})]
        /\ dsCall' \in {"idle", "starting", "up", "stopping"}
        /\ mState' \in [Nif -> AgpsState]
    <3>1. CASE Active(mSubscriberList'[n]) # {}
      BY <1>2, <3>1 DEF UnsubscribeInUse, TypeOK
    <3>2. CASE Active(mSubscriberList'[n]) = {}
      <4>1. /\ mState' \in [Nif -> AgpsState]
            /\ ReleaseDataConn(n)
        BY <1>2, <3>2 DEF UnsubscribeInUse, TypeOK, AgpsState
      <4>2. fwRequests' \in [Fw -> Seq({"request", "release"})]
        <5>1. CASE n = "ds"
          BY <4>1, <5>1 DEF ReleaseDataConn, TypeOK
        <5>2. CASE n # "ds"
          <6>1. n \in Fw /\ FwSend(n, "release")
            BY <4>1, <5>2 DEF ReleaseDataConn, Nif
          <6> QED
            BY <6>1, FwSendType
        <5> QED
          BY <5>1, <5>2
      <4>3. dsCall' \in {"idle", "starting", "up", "stopping"}
        BY <4>1 DEF ReleaseDataConn, TypeOK
      <4> QED
        BY <4>1, <4>2, <4>3
    <3> QED
      BY <3>1, <3>2
  <2> QED
    BY <1>2, <2>1, MessageTypes, WithdrawType
       DEF UnsubscribeInUse, Unsubscribing, Receive, Done, TypeOK
<1>3. CASE UnsubscribeReleasing(n, s)
  BY <1>3, MessageTypes, WithdrawType
     DEF UnsubscribeReleasing, Unsubscribing, Receive, Done, TypeOK, AgpsState, dsVars, fwVars
<1> QED
  BY <1>1, <1>2, <1>3

LEMMA ReportTypes ==
  ASSUME TypeOK, NEW n \in Nif,
         \/ Granted(n) \/ ForceReleased(n) \/ IgnoredReport(n)
         \/ n \in Fw /\ (ReleasedInReleasing(n) \/ Denied(n))
         \/ DsReleasedInReleasing \/ DsDenied
  PROVE  TypeOK'
<1>0. queue # <<>>
  BY DEF Granted, ForceReleased, IgnoredReport, ReleasedInReleasing, Denied, DsDenied,
         DsReleasedInReleasing, GrantReport, CloseReport, FwReport, Receive
<1>1. Tail(queue) \in Seq(Message)
  BY <1>0, MessageTypes
<1>2. CASE Granted(n)
  BY <1>1, <1>2, NotifyType DEF Granted, Done, TypeOK, AgpsState, dsVars, fwVars
<1>3. CASE ForceReleased(n)
  BY <1>1, <1>3, NotifyType, FS_EmptySet
     DEF ForceReleased, Done, TypeOK, AgpsState, dsVars, fwVars
<1>4. CASE IgnoredReport(n)
  BY <1>1, <1>4 DEF IgnoredReport, Done, TypeOK, smVars, dsVars, fwVars, modemVars
<1>5. CASE n \in Fw /\ ReleasedInReleasing(n)
  <2>1. /\ mState' \in [Nif -> AgpsState]
        /\ fwRequests' \in [Fw -> Seq({"request", "release"})]
    BY <1>5, FwSendType DEF ReleasedInReleasing, TypeOK, AgpsState
  <2>2. EndReleasing(n) /\ Done /\ UNCHANGED <<mRetries, timers, dsCall>>
    BY <1>5 DEF ReleasedInReleasing
  <2> QED
    BY <1>1, <2>1, <2>2, EndReleasingType DEF EndReleasing, Done, TypeOK
<1>6. CASE n \in Fw /\ Denied(n)
  BY <1>1, <1>6, NotifyType, FS_EmptySet
     DEF Denied, Done, TypeOK, AgpsState, dsVars, fwVars
<1>7. CASE DsReleasedInReleasing
  <2>1. EndReleasing("ds") /\ UNCHANGED fwRequests
    BY <1>7 DEF DsReleasedInReleasing
  <2>2. /\ mSubscriberList' \in [Nif -> SUBSET Subscriber]
        /\ \A k \in Nif : IsFiniteSet(mSubscriberList'[k])
        /\ atl' \in [Handle -> {"idle", "requested", "open", "failed", "closed"}]
    BY <2>1, EndReleasingType DEF Nif
  <2>3. mSubscriberList'["ds"] \in SUBSET Subscriber
    BY <2>2 DEF Nif
  <2>4. /\ mState' \in [Nif -> AgpsState]
        /\ mRetries' \in 0..MaxRetries
        /\ timers' \in Nat
        /\ dsCall' \in {"idle", "starting", "up", "stopping"}
        /\ queue' \in Seq(Message)
    <3>1. CASE DsRequest(mSubscriberList'["ds"], "PENDING", "PENDING")
      BY <1>0, <2>3, <3>1, DsRequestType DEF AgpsState
    <3>2. CASE /\ mState' = [mState EXCEPT !["ds"] = "RELEASED"]
               /\ Done
               /\ UNCHANGED <<mRetries, timers, dsCall>>
      BY <1>1, <3>2 DEF Done, TypeOK, AgpsState
    <3> QED
      BY <1>7, <3>1, <3>2 DEF DsReleasedInReleasing
  <2> QED
    BY <2>1, <2>2, <2>4 DEF EndReleasing, TypeOK
<1>8. CASE DsDenied
  <2>6. queue' \in Seq(Message)
    <3>1. PICK m \in Seq(Requests) : queue' = Tail(queue) \o m
      BY <1>8, DeniedPosts
    <3>2. m \in Seq(Message)
      BY RequestsAreMessages
    <3> QED
      BY <1>1, <3>1, <3>2
  <2>7. mState' \in [Nif -> AgpsState]
    BY <1>8 DEF DsDenied, TypeOK, AgpsState
  <2>9. mRetries' \in 0..MaxRetries
    BY <1>8, RetriesAssumption DEF DsDenied
  <2>8. /\ mSubscriberList' \in [Nif -> SUBSET Subscriber]
        /\ \A k \in Nif : IsFiniteSet(mSubscriberList'[k])
    BY <1>8, FS_EmptySet DEF DsDenied, TypeOK
  <2> QED
    BY <1>8, <2>6, <2>7, <2>8, <2>9 DEF DsDenied, TypeOK, fwVars, modemVars
<1> QED
  BY <1>2, <1>3, <1>4, <1>5, <1>6, <1>7, <1>8

LEMMA EnvironmentTypes ==
  ASSUME TypeOK, RetryCallback \/ Environment
  PROVE  TypeOK'
<1>1. CASE RetryCallback
  <2>1. queue' \in Seq(Message)
    <3>1. CASE FirstActive(mSubscriberList["ds"]) = {}
      BY <1>1, <3>1 DEF RetryCallback, TypeOK
    <3>2. CASE FirstActive(mSubscriberList["ds"]) # {}
      <4>1. PICK s \in FirstActive(mSubscriberList["ds"]) :
              queue' = Append(queue, RequestMsg(s.handle, "SUPL_ES"))
        BY <1>1, <3>2 DEF RetryCallback
      <4>2. s.handle \in Handle
        BY <4>1 DEF FirstActive, Active, TypeOK, Subscriber, Nif
      <4>3. RequestMsg(s.handle, "SUPL_ES") \in Message
        BY <4>2, RequestType DEF AGpsType
      <4> QED
        BY <4>1, <4>3 DEF TypeOK
    <3> QED
      BY <3>1, <3>2
  <2>2. timers' \in Nat
    BY <1>1 DEF RetryCallback, TypeOK
  <2> QED
    BY <1>1, <2>1, <2>2 DEF RetryCallback, TypeOK, smVars, fwVars, modemVars
<1>2. ASSUME NEW h \in Handle, ModemRelease(h) \/ \E t \in RequestTypes : ModemRequest(h, t)
      PROVE  TypeOK'
  <2>1. CASE ModemRelease(h)
    <3>1. ReleaseMsg(h) \in Message
      BY DEF ReleaseMsg, Message
    <3> QED
      BY <2>1, <3>1 DEF ModemRelease, TypeOK, smVars, dsVars, fwVars
  <2>2. ASSUME NEW t \in RequestTypes, ModemRequest(h, t)
        PROVE  TypeOK'
    <3>1. RequestMsg(h, t) \in Message
      BY RequestType, TypesAssumption
    <3> QED
      BY <2>2, <3>1 DEF ModemRequest, TypeOK, smVars, dsVars, fwVars
  <2> QED
    BY <1>2, <2>1, <2>2
<1>3. ASSUME NEW n \in Fw, FwServe(n) \/ FwLose(n)
      PROVE  TypeOK'
  <2>1. \A k \in {"AtlOpenSuccess", "AtlOpenFailed", "AtlClosed"} : FwMsg(k, n) \in Message
    BY DEF FwMsg, Message
  <2>2. CASE FwLose(n)
    BY <2>1, <2>2 DEF FwLose, TypeOK, smVars, dsVars, modemVars
  <2>3. CASE FwServe(n)
    <3>1. PICK kind \in {"AtlOpenSuccess", "AtlOpenFailed", "AtlClosed"}, up \in BOOLEAN :
            FwAnswer(n, kind, up)
      BY <2>3 DEF FwServe
    <3>2. Tail(fwRequests[n]) \in Seq({"request", "release"})
      BY <2>3 DEF FwServe, TypeOK
    <3>3. fwRequests' \in [Fw -> Seq({"request", "release"})]
      BY <3>1, <3>2 DEF FwAnswer, TypeOK
    <3> QED
      BY <2>1, <3>1, <3>3 DEF FwAnswer, TypeOK, smVars, dsVars, modemVars
  <2> QED
    BY <1>3, <2>2, <2>3
<1>4. CASE DsServe \/ DsLose
  <2>1. PICK from \in {"starting", "stopping", "up"}, to \in {"up", "idle"},
             kind \in {"DataCallOpened", "DataCallClosed"} : DsChange(from, to, kind)
    BY <1>4 DEF DsServe, DsLose
  <2>2. DsMsg(kind) \in Message
    BY DEF DsMsg, Message
  <2> QED
    BY <2>1, <2>2 DEF DsChange, TypeOK, smVars, fwVars, modemVars
<1> QED
  BY <1>1, <1>2, <1>3, <1>4 DEF Environment

LEMMA MsgTaskTypes ==
  ASSUME TypeOK, MsgTask
  PROVE  TypeOK'
<1>1. CASE RequestNoNif \/ (\E n \in Fw : SubscribeReleased(n)) \/ SubscribeDsReleased
           \/ \E n \in Nif : SubscribeWaiting(n) \/ SubscribeAcquired(n)
  BY <1>1, SubscribeTypes DEF Nif
<1>2. CASE ReleaseNotFound
  BY <1>2, MessageTypes, NotifyType
     DEF ReleaseNotFound, Receive, Done, TypeOK, smVars, dsVars, fwVars
<1>3. CASE \E n \in Nif : \E s \in mSubscriberList[n] :
             \/ UnsubscribeReleased(n, s)
             \/ UnsubscribeInUse(n, s)
             \/ UnsubscribeReleasing(n, s)
  BY <1>3, UnsubscribeTypes
<1>4. CASE \/ \E n \in Nif : Granted(n) \/ ForceReleased(n) \/ IgnoredReport(n)
           \/ \E n \in Fw : ReleasedInReleasing(n) \/ Denied(n)
           \/ DsReleasedInReleasing
           \/ DsDenied
  BY <1>4, ReportTypes DEF Nif
<1> QED
  BY <1>1, <1>2, <1>3, <1>4 DEF MsgTask

(* The types hold in every reachable state.                                *)
THEOREM TypeCorrect == Spec => []TypeOK
<1>1. Init => TypeOK
  <2> SUFFICES ASSUME Init
               PROVE  TypeOK
    OBVIOUS
  <2>1. mRetries \in 0..MaxRetries /\ timers \in Nat
    BY RetriesAssumption DEF Init
  <2>5. mDsNif \in DsNif
    BY Zenon DEF Init
  <2>2. /\ mState \in [Nif -> AgpsState]
        /\ mSubscriberList \in [Nif -> SUBSET Subscriber]
        /\ lastPos \in [Nif -> Nat]
    BY DEF Init, AgpsState
  <2>3. \A n \in Nif : IsFiniteSet(mSubscriberList[n])
    BY FS_EmptySet DEF Init
  <2>4. queue \in Seq(Message) /\ fwRequests \in [Fw -> Seq({"request", "release"})]
    BY DEF Init
  <2> QED
    BY <2>1, <2>2, <2>3, <2>4, <2>5 DEF Init, TypeOK
<1>2. TypeOK /\ [Next]_vars => TypeOK'
  <2> SUFFICES ASSUME TypeOK, [Next]_vars
               PROVE  TypeOK'
    OBVIOUS
  <2>1. CASE MsgTask
    BY <2>1, MsgTaskTypes
  <2>2. CASE RetryCallback \/ Environment
    BY <2>2, EnvironmentTypes
  <2>3. CASE UNCHANGED vars
    BY <2>3 DEF vars, smVars, dsVars, fwVars, modemVars, TypeOK
  <2> QED
    BY <2>1, <2>2, <2>3 DEF Next
<1> QED
  BY <1>1, <1>2, PTL DEF Spec

-----------------------------------------------------------------------------
(* The queue.                                                              *)

LEMMA PopKeeps ==
  ASSUME queue \in Seq(Message), queue # <<>>, NEW m \in Seq(Requests),
         queue' = Tail(queue) \o m,
         NEW i \in DOMAIN queue, i # 1
  PROVE  i - 1 \in DOMAIN queue' /\ queue'[i - 1] = queue[i]
<1>1. m \in Seq(Message)
  BY RequestsAreMessages
<1> QED
  BY <1>1

LEMMA PopBrings ==
  ASSUME queue \in Seq(Message), queue # <<>>, NEW m \in Seq(Requests),
         queue' = Tail(queue) \o m,
         NEW i \in DOMAIN queue'
  PROVE  \/ i + 1 \in DOMAIN queue /\ queue'[i] = queue[i + 1]
         \/ queue'[i] \in Requests
<1>1. Len(queue') = Len(queue) - 1 + Len(m) /\ DOMAIN queue' = 1..Len(queue')
  BY RequestsAreMessages
<1>2. CASE i <= Len(queue) - 1
  BY <1>1, <1>2, RequestsAreMessages
<1>3. CASE i > Len(queue) - 1
  <2>1. queue'[i] = m[i - (Len(queue) - 1)] /\ i - (Len(queue) - 1) \in 1..Len(m)
    BY <1>1, <1>3, RequestsAreMessages
  <2> QED
    BY <2>1
<1> QED
  BY <1>1, <1>2, <1>3

LEMMA PopKeepsIn ==
  ASSUME queue \in Seq(Message), queue # <<>>, NEW m \in Seq(Requests),
         queue' = Tail(queue) \o m,
         NEW S, Head(queue) \notin S, InQueue(S)
  PROVE  \E i \in DOMAIN queue' : queue'[i] \in S
<1>1. PICK i \in DOMAIN queue : queue[i] \in S
  BY DEF InQueue
<1>2. i # 1
  BY <1>1
<1> QED
  BY <1>1, <1>2, PopKeeps

LEMMA PushKeepsIn ==
  ASSUME queue \in Seq(Message), NEW m \in Message, queue' = Append(queue, m),
         NEW S, InQueue(S) \/ m \in S
  PROVE  \E i \in DOMAIN queue' : queue'[i] \in S
<1>1. CASE m \in S
  <2>1. Len(queue) + 1 \in DOMAIN queue' /\ queue'[Len(queue) + 1] = m
    OBVIOUS
  <2> QED
    BY <1>1, <2>1
<1>2. CASE InQueue(S)
  <2>1. PICK i \in DOMAIN queue : queue[i] \in S
    BY <1>2 DEF InQueue
  <2>2. i \in DOMAIN queue' /\ queue'[i] = queue[i]
    BY <2>1
  <2> QED
    BY <2>1, <2>2
<1> QED
  BY <1>1, <1>2

(* The message thread takes one message and posts only requests.           *)
LEMMA Consumes ==
  ASSUME TypeOK, MsgTask
  PROVE  queue # <<>> /\ \E m \in Seq(Requests) : queue' = Tail(queue) \o m
<1>1. queue # <<>>
  BY DEF MsgTask, RequestNoNif, SubscribeReleased, SubscribeDsReleased, SubscribeWaiting,
         SubscribeAcquired, Subscribing, ReleaseNotFound, UnsubscribeReleased,
         UnsubscribeInUse, UnsubscribeReleasing, Unsubscribing, Granted, ForceReleased,
         IgnoredReport, ReleasedInReleasing, Denied, DsDenied, DsReleasedInReleasing,
         GrantReport, CloseReport, FwReport, Receive
<1>2. ASSUME Done
      PROVE  \E m \in Seq(Requests) : queue' = Tail(queue) \o m
  <2>1. Tail(queue) \in Seq(Message)
    BY <1>1, MessageTypes
  <2>2. queue' = Tail(queue) \o <<>> /\ <<>> \in Seq(Requests)
    BY <1>2, <2>1 DEF Done
  <2> QED
    BY <2>2
<1>3. ASSUME NEW S \in SUBSET Subscriber, NEW ok, NEW ko, DsRequest(S, ok, ko)
      PROVE  \E m \in Seq(Requests) : queue' = Tail(queue) \o m
  <2>1. CASE DsFallsBack(S, ko)
    <3>1. PICK s \in FirstActive(S) : Post(<<RequestMsg(s.handle, "SUPL")>>)
      BY <2>1 DEF DsFallsBack
    <3> QED
      BY <3>1, FallBackPosts DEF Post
  <2>2. CASE ~DsFallsBack(S, ko)
    BY <1>2, <1>3, <2>2 DEF DsRequest, DsCallStarts, DsCallBusy, DsCallUnknown
  <2> QED
    BY <2>1, <2>2
<1>4. TypeOK'
  BY MsgTaskTypes
<1>5. mSubscriberList'["ds"] \in SUBSET Subscriber
  BY <1>4 DEF TypeOK, Nif
<1>6. CASE SubscribeDsReleased
  BY <1>1, <1>3, <1>5, <1>6 DEF SubscribeDsReleased
<1>7. CASE DsReleasedInReleasing
  BY <1>1, <1>2, <1>3, <1>5, <1>7 DEF DsReleasedInReleasing
<1>8. CASE DsDenied
  BY <1>1, <1>8, DeniedPosts
<1>9. CASE ~(SubscribeDsReleased \/ DsReleasedInReleasing \/ DsDenied)
  <2>1. Done
    BY <1>9
       DEF MsgTask, RequestNoNif, SubscribeReleased, SubscribeWaiting,
           SubscribeAcquired, ReleaseNotFound, UnsubscribeReleased,
           UnsubscribeInUse, UnsubscribeReleasing, Granted, ForceReleased,
           IgnoredReport, ReleasedInReleasing, Denied
  <2> QED
    BY <1>1, <1>2, <2>1
<1> QED
  BY <1>6, <1>7, <1>8, <1>9

-----------------------------------------------------------------------------
(* The lists.  A machine's list fits its state; only a subscriber that     *)
(* waits for the close is kept inactive, which is why withdrawing from a   *)
(* releasing machine cannot take its last inactive subscriber.             *)

Fits(n, state, list) ==
  /\ \A s \in list : s.inactive => s.wait
  /\ state = "RELEASED" => Inactive(list) = {}
  /\ state = "RELEASED" /\ n \in Fw => list = {}
  /\ state \in {"PENDING", "ACQUIRED"} => Active(list) # {}
  /\ state = "RELEASING" => Inactive(list) # {}

ListsFit == \A n \in Nif : Fits(n, mState[n], mSubscriberList[n])

LEMMA OneMachine ==
  ASSUME TypeOK, ListsFit, NEW n \in Nif, NEW state, NEW list,
         mState' = [mState EXCEPT ![n] = state],
         mSubscriberList' = [mSubscriberList EXCEPT ![n] = list],
         Fits(n, state, list)
  PROVE  ListsFit'
<1> SUFFICES ASSUME NEW k \in Nif
             PROVE  Fits(k, mState'[k], mSubscriberList'[k])
  BY DEF ListsFit, Fits, Inactive, Active
<1>1. CASE k = n
  BY <1>1 DEF TypeOK
<1>2. CASE k # n
  BY <1>2 DEF TypeOK, ListsFit
<1> QED
  BY <1>1, <1>2

LEMMA SameLists ==
  ASSUME ListsFit, UNCHANGED <<mState, mSubscriberList>>
  PROVE  ListsFit'
  BY DEF ListsFit, Fits, Inactive, Active

(* After an AddSubscriber the list has what it had and the handle's.       *)
LEMMA AddFits ==
  ASSUME TypeOK, ListsFit, NEW n \in Nif, NEW h, NEW w \in BOOLEAN, AddSubscriber(n, h, w)
  PROVE  \E list :
           /\ mSubscriberList' = [mSubscriberList EXCEPT ![n] = list]
           /\ \A s \in list : s.inactive => s.wait
           /\ Active(mSubscriberList[n]) \subseteq Active(list)
           /\ Inactive(list) = Inactive(mSubscriberList[n])
           /\ Inactive(mSubscriberList[n]) = {} => Active(list) # {}
<1> DEFINE old == mSubscriberList[n]
           new == [handle |-> h, wait |-> w, inactive |-> FALSE, pos |-> NextPos(n)]
<1>1. \A s \in old : s.inactive => s.wait
  BY DEF ListsFit, Fits
<1>2. CASE h \in HandlesOf(old)
  <2>1. mSubscriberList' = [mSubscriberList EXCEPT ![n] = old]
    BY <1>2 DEF AddSubscriber, TypeOK
  <2>2. old # {} /\ old \subseteq Subscriber
    BY <1>2 DEF HandlesOf, TypeOK
  <2>3. Inactive(old) = {} => Active(old) # {}
    BY <2>2 DEF Active, Inactive, Subscriber
  <2> QED
    BY <1>1, <2>1, <2>3
<1>3. CASE h \notin HandlesOf(old)
  <2>1. mSubscriberList' = [mSubscriberList EXCEPT ![n] = old \cup {new}]
    BY <1>3 DEF AddSubscriber
  <2>2. ~new.inactive
    OBVIOUS
  <2> HIDE DEF new
  <2>3. /\ \A s \in old \cup {new} : s.inactive => s.wait
        /\ Active(old) \subseteq Active(old \cup {new})
        /\ Inactive(old \cup {new}) = Inactive(old)
        /\ Active(old \cup {new}) # {}
    BY <1>1, <2>2 DEF Active, Inactive
  <2> QED
    BY <2>1, <2>3
<1> QED
  BY <1>2, <1>3

(* A DS request leaves the machine in one of the two states it is given.   *)
LEMMA DsRequestState ==
  ASSUME NEW S, NEW ok, NEW ko, DsRequest(S, ok, ko)
  PROVE  \E state \in {ok, ko} : mState' = [mState EXCEPT !["ds"] = state]
  BY DEF DsRequest, DsCallStarts, DsCallBusy, DsFallsBack, DsCallUnknown

LEMMA SubscribeFits ==
  ASSUME TypeOK, ListsFit, NEW n \in Nif,
         \/ n \in Fw /\ SubscribeReleased(n)
         \/ n = "ds" /\ SubscribeDsReleased
         \/ SubscribeWaiting(n)
         \/ SubscribeAcquired(n)
  PROVE  ListsFit'
<1>1. AddCurrent(n) /\ (Head(queue).type = "SUPL_ES") \in BOOLEAN
  BY DEF SubscribeReleased, SubscribeDsReleased, SubscribeWaiting, SubscribeAcquired
<1>2. PICK list :
           /\ mSubscriberList' = [mSubscriberList EXCEPT ![n] = list]
           /\ \A s \in list : s.inactive => s.wait
           /\ Active(mSubscriberList[n]) \subseteq Active(list)
           /\ Inactive(list) = Inactive(mSubscriberList[n])
           /\ Inactive(mSubscriberList[n]) = {} => Active(list) # {}
  BY <1>1, AddFits DEF AddCurrent
<1>3. Fits(n, mState[n], mSubscriberList[n]) /\ mState[n] \in AgpsState
  BY DEF ListsFit, TypeOK
<1>4. CASE mState[n] = "RELEASED"
  <2>1. \/ mState' = [mState EXCEPT ![n] = "PENDING"]
        \/ n = "ds" /\ mState' = [mState EXCEPT ![n] = "RELEASED"]
    BY <1>4, DsRequestState
       DEF SubscribeReleased, SubscribeDsReleased, SubscribeWaiting, SubscribeAcquired
  <2>2. Inactive(list) = {} /\ Active(list) # {}
    BY <1>2, <1>3, <1>4 DEF Fits
  <2>3. Fits(n, "PENDING", list) /\ (n = "ds" => Fits(n, "RELEASED", list))
    BY <1>2, <2>2 DEF Fits, Fw
  <2> QED
    BY <1>2, <2>1, <2>3, OneMachine
<1>5. CASE mState[n] # "RELEASED"
  <2>1. mState' = [mState EXCEPT ![n] = mState[n]]
    BY <1>5 DEF SubscribeReleased, SubscribeDsReleased, SubscribeWaiting, SubscribeAcquired, TypeOK
  <2>2. Fits(n, mState[n], list)
    BY <1>2, <1>3, <1>5 DEF Fits, AgpsState
  <2> QED
    BY <1>2, <2>1, <2>2, OneMachine
<1> QED
  BY <1>4, <1>5

LEMMA WithdrawFits ==
  ASSUME TypeOK, ListsFit, NEW n \in Nif, NEW s \in mSubscriberList[n], Withdraw(n, s)
  PROVE  \E list :
           /\ mSubscriberList' = [mSubscriberList EXCEPT ![n] = list]
           /\ \A t \in list : t.inactive => t.wait
           /\ Inactive(mSubscriberList[n]) \subseteq Inactive(list) \cup {s}
           /\ s.inactive => Inactive(list) # {}
           /\ list = Active(list) \cup Inactive(list)
<1>1. /\ \A t \in mSubscriberList[n] : t.inactive => t.wait
      /\ mSubscriberList[n] \subseteq Subscriber
      /\ s \in Subscriber
  BY DEF ListsFit, Fits, TypeOK
<1>2. CASE s.wait
  <2> DEFINE gone == [s EXCEPT !.inactive = TRUE]
             list == (mSubscriberList[n] \ {s}) \cup {gone}
  <2>1. mSubscriberList' = [mSubscriberList EXCEPT ![n] = list]
    BY <1>2 DEF Withdraw
  <2>2. gone.inactive /\ gone.wait /\ gone \in Subscriber
    BY <1>1, <1>2 DEF Subscriber
  <2> HIDE DEF gone
  <2>3. /\ \A t \in list : t.inactive => t.wait
        /\ Inactive(mSubscriberList[n]) \subseteq Inactive(list) \cup {s}
        /\ Inactive(list) # {}
    BY <1>1, <2>2 DEF Inactive
  <2>4. list = Active(list) \cup Inactive(list)
    BY DEF Active, Inactive
  <2> QED
    BY <2>1, <2>3, <2>4
<1>3. CASE ~s.wait
  <2> DEFINE list == mSubscriberList[n] \ {s}
  <2>1. mSubscriberList' = [mSubscriberList EXCEPT ![n] = list]
    BY <1>3 DEF Withdraw
  <2>2. /\ \A t \in list : t.inactive => t.wait
        /\ Inactive(mSubscriberList[n]) \subseteq Inactive(list) \cup {s}
        /\ ~s.inactive
        /\ list = Active(list) \cup Inactive(list)
    BY <1>1, <1>3 DEF Active, Inactive
  <2> QED
    BY <2>1, <2>2
<1> QED
  BY <1>2, <1>3

LEMMA UnsubscribeFits ==
  ASSUME TypeOK, ListsFit, NEW n \in Nif, NEW s \in mSubscriberList[n],
         UnsubscribeReleased(n, s) \/ UnsubscribeInUse(n, s) \/ UnsubscribeReleasing(n, s)
  PROVE  ListsFit'
<1>1. CASE UnsubscribeReleased(n, s)
  BY <1>1, SameLists DEF UnsubscribeReleased, smVars
<1>2. ASSUME Withdraw(n, s)
      PROVE  \E list :
               /\ mSubscriberList' = [mSubscriberList EXCEPT ![n] = list]
               /\ mSubscriberList'[n] = list
               /\ \A t \in list : t.inactive => t.wait
               /\ Inactive(mSubscriberList[n]) \subseteq Inactive(list) \cup {s}
               /\ s.inactive => Inactive(list) # {}
               /\ list = Active(list) \cup Inactive(list)
  BY <1>2, WithdrawFits DEF TypeOK
<1>3. CASE UnsubscribeInUse(n, s)
  <2>1. PICK list :
               /\ mSubscriberList' = [mSubscriberList EXCEPT ![n] = list]
               /\ mSubscriberList'[n] = list
               /\ \A t \in list : t.inactive => t.wait
               /\ list = Active(list) \cup Inactive(list)
    BY <1>2, <1>3 DEF UnsubscribeInUse
  <2>2. CASE Active(list) # {}
    <3>1. mState' = [mState EXCEPT ![n] = mState[n]]
      BY <1>3, <2>1, <2>2 DEF UnsubscribeInUse, TypeOK
    <3>2. Fits(n, mState[n], list)
      BY <1>3, <2>1, <2>2 DEF UnsubscribeInUse, Fits
    <3> QED
      BY <2>1, <3>1, <3>2, OneMachine
  <2>3. CASE list = {}
    <3>1. mState' = [mState EXCEPT ![n] = "RELEASED"]
      BY <1>3, <2>1, <2>3 DEF UnsubscribeInUse, Active
    <3>2. Fits(n, "RELEASED", list)
      BY <2>3 DEF Fits, Inactive
    <3> QED
      BY <2>1, <3>1, <3>2, OneMachine
  <2>4. CASE Active(list) = {} /\ list # {}
    <3>1. mState' = [mState EXCEPT ![n] = "RELEASING"]
      BY <1>3, <2>1, <2>4 DEF UnsubscribeInUse
    <3>2. Fits(n, "RELEASING", list)
      BY <2>1, <2>4 DEF Fits
    <3> QED
      BY <2>1, <3>1, <3>2, OneMachine
  <2> QED
    BY <2>2, <2>3, <2>4
<1>4. CASE UnsubscribeReleasing(n, s)
  <2>1. PICK list :
               /\ mSubscriberList' = [mSubscriberList EXCEPT ![n] = list]
               /\ mSubscriberList'[n] = list
               /\ \A t \in list : t.inactive => t.wait
               /\ Inactive(mSubscriberList[n]) \subseteq Inactive(list) \cup {s}
               /\ s.inactive => Inactive(list) # {}
    BY <1>2, <1>4 DEF UnsubscribeReleasing
  <2>2. mState[n] = "RELEASING" /\ Inactive(mSubscriberList[n]) # {}
    BY <1>4 DEF UnsubscribeReleasing, ListsFit, Fits
  <2>3. Inactive(list) # {}
    BY <2>1, <2>2 DEF Inactive
  <2>4. mState' = [mState EXCEPT ![n] = "RELEASING"]
    BY <1>4, <2>1, <2>2, <2>3 DEF UnsubscribeReleasing, Inactive
  <2>5. Fits(n, "RELEASING", list)
    BY <2>1, <2>3 DEF Fits
  <2> QED
    BY <2>1, <2>4, <2>5, OneMachine
<1> QED
  BY <1>1, <1>3, <1>4

LEMMA ReportFits ==
  ASSUME TypeOK, ListsFit, NEW n \in Nif,
         \/ Granted(n) \/ ForceReleased(n) \/ IgnoredReport(n)
         \/ n \in Fw /\ (ReleasedInReleasing(n) \/ Denied(n))
         \/ n = "ds" /\ (DsReleasedInReleasing \/ DsDenied)
  PROVE  ListsFit'
<1>0. Fits(n, mState[n], mSubscriberList[n])
  BY DEF ListsFit
<1>1. CASE Granted(n)
  <2>1. /\ mSubscriberList' = [mSubscriberList EXCEPT ![n] = mSubscriberList[n]]
        /\ mState' = [mState EXCEPT ![n] = "ACQUIRED"]
    BY <1>1 DEF Granted, TypeOK
  <2>2. Fits(n, "ACQUIRED", mSubscriberList[n])
    BY <1>0, <1>1 DEF Granted, Fits
  <2> QED
    BY <2>1, <2>2, OneMachine
<1>2. CASE ForceReleased(n) \/ Denied(n) \/ (n = "ds" /\ DsDenied)
  <2>1. /\ mSubscriberList' = [mSubscriberList EXCEPT ![n] = {}]
        /\ mState' = [mState EXCEPT ![n] = "RELEASED"]
    BY <1>2 DEF ForceReleased, Denied, DsDenied
  <2>2. Fits(n, "RELEASED", {})
    BY DEF Fits, Inactive
  <2> QED
    BY <2>1, <2>2, OneMachine
<1>3. CASE IgnoredReport(n)
  BY <1>3, SameLists DEF IgnoredReport, smVars
<1>4. CASE (n \in Fw /\ ReleasedInReleasing(n)) \/ (n = "ds" /\ DsReleasedInReleasing)
  <2> DEFINE list == Active(mSubscriberList[n])
  <2>1. mSubscriberList' = [mSubscriberList EXCEPT ![n] = list]
    BY <1>4 DEF ReleasedInReleasing, DsReleasedInReleasing, EndReleasing
  <2>2. /\ Inactive(list) = {} /\ Active(list) = list
        /\ \A s \in list : s.inactive => s.wait
    BY DEF Active, Inactive
  <2>3. \/ mState' = [mState EXCEPT ![n] = "PENDING"] /\ list # {}
        \/ mState' = [mState EXCEPT ![n] = "RELEASED"] /\ list = {}
    BY <1>4, DsRequestState DEF ReleasedInReleasing, DsReleasedInReleasing
  <2>4. /\ list # {} => Fits(n, "PENDING", list)
        /\ list = {} => Fits(n, "RELEASED", list)
    BY <2>2 DEF Fits
  <2> QED
    BY <2>1, <2>3, <2>4, OneMachine
<1> QED
  BY <1>1, <1>2, <1>3, <1>4

(* Every list fits its machine's state in every reachable state.           *)
LEMMA AlwaysFit == Spec => []ListsFit
<1>1. Init => ListsFit
  BY DEF Init, ListsFit, Fits, Inactive
<1>2. TypeOK /\ ListsFit /\ [Next]_vars => ListsFit'
  <2> SUFFICES ASSUME TypeOK, ListsFit, [Next]_vars
               PROVE  ListsFit'
    OBVIOUS
  <2>1. CASE \/ RequestNoNif \/ ReleaseNotFound \/ RetryCallback \/ Environment \/ UNCHANGED vars
    <3>1. UNCHANGED <<mState, mSubscriberList>>
      BY <2>1 DEF RequestNoNif, ReleaseNotFound, RetryCallback, Environment, ModemRelease,
                  ModemRequest, FwServe, FwAnswer, FwLose, DsServe, DsLose, DsChange, vars, smVars
    <3> QED
      BY <3>1, SameLists
  <2>2. CASE \/ \E n \in Fw : SubscribeReleased(n)
             \/ SubscribeDsReleased
             \/ \E n \in Nif : SubscribeWaiting(n) \/ SubscribeAcquired(n)
    BY <2>2, SubscribeFits DEF Nif
  <2>3. CASE \E n \in Nif : \E s \in mSubscriberList[n] :
               \/ UnsubscribeReleased(n, s)
               \/ UnsubscribeInUse(n, s)
               \/ UnsubscribeReleasing(n, s)
    BY <2>3, UnsubscribeFits
  <2>4. CASE \/ \E n \in Nif : Granted(n) \/ ForceReleased(n) \/ IgnoredReport(n)
             \/ \E n \in Fw : ReleasedInReleasing(n) \/ Denied(n)
             \/ DsReleasedInReleasing
             \/ DsDenied
    BY <2>4, ReportFits DEF Nif
  <2> QED
    BY <2>1, <2>2, <2>3, <2>4 DEF Next, MsgTask
<1> QED
  BY <1>1, <1>2, TypeCorrect, PTL DEF Spec

(* "Subscriber list should be empty if we are in released state".          *)
THEOREM ReleasedEmpty == Spec => []ReleasedIsEmpty
<1>1. ListsFit => ReleasedIsEmpty
  BY DEF ListsFit, Fits, ReleasedIsEmpty, Nif
<1> QED
  BY <1>1, AlwaysFit, PTL

(* A connection is held for an active subscriber, and given up only while  *)
(* one waits to be told.                                                   *)
THEOREM ListsMatch == Spec => []ListMatchesState
<1>1. ListsFit => ListMatchesState
  BY DEF ListsFit, Fits, ListMatchesState
<1> QED
  BY <1>1, AlwaysFit, PTL

-----------------------------------------------------------------------------
(* The framework.  Owed(n, what): a request or release that machine n      *)
(* waits for is still to be served or its answer is in the queue.          *)

Answers(n, what) ==
  Reports(n, IF what = "request" THEN {"AtlOpenSuccess", "AtlOpenFailed"}
             ELSE {"AtlClosed", "AtlOpenFailed"})
Owed(n, what) == Outstanding(n, what) \/ InQueue(Answers(n, what))
Waits(state, what) == state = IF what = "request" THEN "PENDING" ELSE "RELEASING"
What == {"request", "release"}

(* What a message does to machine n: it waits on only if this was not its  *)
(* answer, it starts to wait only when it asks, and it is acquired only by *)
(* a grant.                                                                *)
MessageEffect(n) ==
  /\ \A what \in What : Waits(mState'[n], what) =>
       \/ Waits(mState[n], what) /\ Head(queue) \notin Answers(n, what)
       \/ FwSend(n, what)
  /\ mState'[n] = "ACQUIRED" =>
       \/ mState[n] = "ACQUIRED" /\ Head(queue) # FwMsg("AtlClosed", n)
       \/ Head(queue) = FwMsg("AtlOpenSuccess", n)
  /\ fwRequests' = fwRequests \/ \E k \in Fw, what \in What : FwSend(k, what)
  /\ fwConn' = fwConn

LEMMA ReportShape ==
  ASSUME TypeOK, queue # <<>>, NEW n, NEW k, Head(queue) = FwMsg(k, n)
  PROVE  Head(queue).kind = k /\ Head(queue).nif = n
  BY DEF FwMsg

LEMMA OtherMessage ==
  ASSUME TypeOK, queue # <<>>, NEW n \in Fw, mState'[n] = mState[n],
         \/ Head(queue).kind \notin {"AtlOpenSuccess", "AtlOpenFailed", "AtlClosed"}
         \/ Head(queue).nif # n,
         fwRequests' = fwRequests \/ \E k \in Fw, what \in What : FwSend(k, what),
         fwConn' = fwConn
  PROVE  MessageEffect(n)
  BY DEF MessageEffect, Answers, Reports, FwMsg

LEMMA SubscribeEffect ==
  ASSUME TypeOK, NEW n \in Fw, NEW k \in Nif,
         \/ RequestNoNif
         \/ k \in Fw /\ SubscribeReleased(k)
         \/ k = "ds" /\ SubscribeDsReleased
         \/ SubscribeWaiting(k)
         \/ SubscribeAcquired(k)
  PROVE  MessageEffect(n)
<1>1. queue # <<>> /\ Head(queue).kind = "RequestATL"
  BY DEF RequestNoNif, SubscribeReleased, SubscribeDsReleased, SubscribeWaiting,
         SubscribeAcquired, Subscribing, Receive
<1>2. fwConn' = fwConn
  BY DEF RequestNoNif, SubscribeReleased, SubscribeDsReleased, SubscribeWaiting,
         SubscribeAcquired, fwVars
<1>3. CASE k = n /\ SubscribeReleased(k)
  <2>1. FwSend(n, "request") /\ mState'[n] = "PENDING"
    BY <1>3 DEF SubscribeReleased, TypeOK, Nif
  <2> QED
    BY <1>2, <2>1 DEF MessageEffect, Waits, What
<1>4. CASE ~(k = n /\ SubscribeReleased(k))
  <2>1. mState'[n] = mState[n]
    <3>1. CASE k = "ds" /\ SubscribeDsReleased
      <4>1. PICK state : mState' = [mState EXCEPT !["ds"] = state]
        BY <3>1, DsRequestState DEF SubscribeDsReleased
      <4> QED
        BY <4>1 DEF TypeOK, Fw, Nif
    <3>2. CASE k \in Fw /\ SubscribeReleased(k)
      BY <1>4, <3>2 DEF SubscribeReleased, TypeOK
    <3> QED
      BY <3>1, <3>2 DEF RequestNoNif, SubscribeWaiting, SubscribeAcquired, smVars
  <2>2. fwRequests' = fwRequests \/ \E j \in Fw, what \in What : FwSend(j, what)
    BY DEF RequestNoNif, SubscribeReleased, SubscribeDsReleased, SubscribeWaiting,
           SubscribeAcquired, fwVars, What
  <2> QED
    BY <1>1, <1>2, <2>1, <2>2, OtherMessage
<1> QED
  BY <1>3, <1>4

LEMMA UnsubscribeEffect ==
  ASSUME TypeOK, NEW n \in Fw, NEW k \in Nif, NEW s \in mSubscriberList[k],
         \/ UnsubscribeReleased(k, s)
         \/ UnsubscribeInUse(k, s)
         \/ UnsubscribeReleasing(k, s)
  PROVE  MessageEffect(n)
<1>1. queue # <<>> /\ Head(queue).kind = "ReleaseATL"
  BY DEF UnsubscribeReleased, UnsubscribeInUse, UnsubscribeReleasing, Unsubscribing, Receive
<1>2. fwConn' = fwConn
  BY DEF UnsubscribeReleased, UnsubscribeInUse, UnsubscribeReleasing, fwVars
<1>3. CASE UnsubscribeInUse(k, s) /\ Active(mSubscriberList'[k]) = {}
  <2>1. mState' = [mState EXCEPT ![k] =
                     IF mSubscriberList'[k] = {} THEN "RELEASED" ELSE "RELEASING"]
    BY <1>3 DEF UnsubscribeInUse
  <2>2. ReleaseDataConn(k)
    BY <1>3 DEF UnsubscribeInUse
  <2>3. CASE k = n
    <3>1. FwSend(n, "release")
      BY <2>2, <2>3 DEF ReleaseDataConn, Fw
    <3>2. mState'[n] \in {"RELEASED", "RELEASING"}
      BY <2>1, <2>3 DEF TypeOK
    <3> QED
      BY <1>2, <3>1, <3>2 DEF MessageEffect, Waits, What
  <2>4. CASE k # n
    <3>1. mState'[n] = mState[n]
      BY <2>1, <2>4 DEF TypeOK, Nif
    <3>2. fwRequests' = fwRequests \/ \E j \in Fw, what \in What : FwSend(j, what)
      BY <2>2 DEF ReleaseDataConn, Nif, What
    <3> QED
      BY <1>1, <1>2, <3>1, <3>2, OtherMessage
  <2> QED
    BY <2>3, <2>4
<1>4. CASE ~(UnsubscribeInUse(k, s) /\ Active(mSubscriberList'[k]) = {})
  <2>1. fwRequests' = fwRequests
    BY <1>4 DEF UnsubscribeReleased, UnsubscribeInUse, UnsubscribeReleasing, fwVars
  <2>2. CASE mState'[n] = mState[n]
    BY <1>1, <1>2, <2>1, <2>2, OtherMessage
  <2>3. CASE mState'[n] # mState[n]
    <3>1. mState'[n] = "RELEASED"
      BY <1>4, <2>3 DEF UnsubscribeReleased, UnsubscribeInUse, UnsubscribeReleasing, TypeOK,
                        smVars, Nif
    <3> QED
      BY <1>2, <2>1, <3>1 DEF MessageEffect, Waits, What
  <2> QED
    BY <2>2, <2>3
<1> QED
  BY <1>3, <1>4

LEMMA ReportEffect ==
  ASSUME TypeOK, NEW n \in Fw, NEW k \in Nif,
         \/ Granted(k) \/ ForceReleased(k) \/ IgnoredReport(k)
         \/ k \in Fw /\ (ReleasedInReleasing(k) \/ Denied(k))
         \/ k = "ds" /\ (DsReleasedInReleasing \/ DsDenied)
  PROVE  MessageEffect(n)
<1>1. fwConn' = fwConn
  BY DEF Granted, ForceReleased, IgnoredReport, ReleasedInReleasing, Denied, DsDenied,
         DsReleasedInReleasing, EndReleasing, fwVars
<1>2. fwRequests' = fwRequests \/ \E j \in Fw, what \in What : FwSend(j, what)
  BY DEF Granted, ForceReleased, IgnoredReport, ReleasedInReleasing, Denied, DsDenied,
         DsReleasedInReleasing, EndReleasing, fwVars, What
<1>3. queue # <<>>
  BY DEF Granted, ForceReleased, IgnoredReport, ReleasedInReleasing, Denied, DsDenied,
         DsReleasedInReleasing, GrantReport, CloseReport, FwReport, Receive
<1>4. CASE k # n
  <2>1. mState'[n] = mState[n]
    <3>1. CASE k = "ds" /\ DsReleasedInReleasing
      <4>1. PICK state : mState' = [mState EXCEPT !["ds"] = state]
        BY <3>1, DsRequestState DEF DsReleasedInReleasing
      <4> QED
        BY <4>1 DEF TypeOK, Fw, Nif
    <3>2. CASE ~(k = "ds" /\ DsReleasedInReleasing)
      BY <1>4, <3>2 DEF Granted, ForceReleased, IgnoredReport, ReleasedInReleasing, Denied,
                        DsDenied, TypeOK, smVars, Nif
    <3> QED
      BY <3>1, <3>2
  <2>2. \/ Head(queue).kind \notin {"AtlOpenSuccess", "AtlOpenFailed", "AtlClosed"}
        \/ Head(queue).nif # n
    BY <1>4 DEF Granted, ForceReleased, IgnoredReport, ReleasedInReleasing, Denied, DsDenied,
                DsReleasedInReleasing, GrantReport, CloseReport, FwReport, Receive
  <2> QED
    BY <1>1, <1>2, <1>3, <2>1, <2>2, OtherMessage
<1>5. CASE k = n
  <2>0. n # "ds" /\ mState[n] \in AgpsState
    BY DEF Fw, TypeOK, Nif
  <2>1. CASE Granted(n)
    <3>1. mState'[n] = "ACQUIRED" /\ Head(queue).kind = "AtlOpenSuccess" /\ Head(queue).nif = n
      BY <2>0, <2>1 DEF Granted, GrantReport, FwReport, Receive, TypeOK, Nif
    <3>2. Head(queue) = FwMsg("AtlOpenSuccess", n)
      BY <1>3, <3>1, MessageTypes DEF Message, FwMsg
    <3> QED
      BY <1>1, <1>2, <3>1, <3>2 DEF MessageEffect, Waits, What
  <2>2. CASE ForceReleased(n) \/ Denied(n)
    <3>1. mState'[n] = "RELEASED"
      BY <2>2 DEF ForceReleased, Denied, TypeOK, Nif
    <3> QED
      BY <1>1, <1>2, <3>1 DEF MessageEffect, Waits, What
  <2>3. CASE ReleasedInReleasing(n)
    <3>1. \/ mState'[n] = "PENDING" /\ FwSend(n, "request")
          \/ mState'[n] = "RELEASED"
      BY <2>3 DEF ReleasedInReleasing, TypeOK, Nif
    <3> QED
      BY <1>1, <1>2, <3>1 DEF MessageEffect, Waits, What
  <2>4. CASE IgnoredReport(n)
    <3>1. mState'[n] = mState[n]
      BY <2>4 DEF IgnoredReport, smVars
    <3>2. \/ Head(queue).kind = "AtlOpenSuccess" /\ mState[n] # "PENDING"
          \/ Head(queue).kind = "AtlClosed" /\ mState[n] \in {"RELEASED", "PENDING"}
          \/ Head(queue).kind = "AtlOpenFailed" /\ mState[n] \in {"RELEASED", "ACQUIRED"}
      BY <2>0, <2>4 DEF IgnoredReport, GrantReport, CloseReport, FwReport, Receive
    <3>3. \A what \in What : Waits(mState[n], what) => Head(queue) \notin Answers(n, what)
      BY <3>2 DEF Waits, What, Answers, Reports, FwMsg
    <3>4. mState[n] = "ACQUIRED" => Head(queue) # FwMsg("AtlClosed", n)
      BY <3>2 DEF FwMsg
    <3> QED
      BY <1>1, <1>2, <3>1, <3>3, <3>4 DEF MessageEffect
  <2> QED
    BY <1>5, <2>0, <2>1, <2>2, <2>3, <2>4
<1> QED
  BY <1>4, <1>5

LEMMA MsgTaskEffect ==
  ASSUME TypeOK, MsgTask, NEW n \in Fw
  PROVE  MessageEffect(n)
<1>1. CASE ReleaseNotFound
  BY <1>1, OtherMessage DEF ReleaseNotFound, Receive, smVars, fwVars
<1>2. CASE RequestNoNif \/ (\E k \in Fw : SubscribeReleased(k)) \/ SubscribeDsReleased
           \/ \E k \in Nif : SubscribeWaiting(k) \/ SubscribeAcquired(k)
  BY <1>2, SubscribeEffect DEF Nif
<1>3. CASE \E k \in Nif : \E s \in mSubscriberList[k] :
             \/ UnsubscribeReleased(k, s)
             \/ UnsubscribeInUse(k, s)
             \/ UnsubscribeReleasing(k, s)
  BY <1>3, UnsubscribeEffect
<1>4. CASE \/ \E k \in Nif : Granted(k) \/ ForceReleased(k) \/ IgnoredReport(k)
           \/ \E k \in Fw : ReleasedInReleasing(k) \/ Denied(k)
           \/ DsReleasedInReleasing
           \/ DsDenied
  BY <1>4, ReportEffect DEF Nif
<1> QED
  BY <1>1, <1>2, <1>3, <1>4 DEF MsgTask

(* What a step of the timer or the surroundings does to machine n: a       *)
(* served request turns into its answer, an open report comes with the     *)
(* connection and the connection goes with a close report.                 *)
Posted(n, m) ==
  /\ queue' = Append(queue, m)
  /\ m = FwMsg("AtlOpenSuccess", n) => fwConn'[n]
  /\ fwConn[n] => fwConn'[n] \/ m = FwMsg("AtlClosed", n)
  /\ \A what \in What : Outstanding(n, what) => Outstanding(n, what)' \/ m \in Answers(n, what)

LEMMA PlainPost ==
  ASSUME NEW n \in Fw, NEW m \in Message, queue' = Append(queue, m),
         UNCHANGED <<fwRequests, fwConn>>, m # FwMsg("AtlOpenSuccess", n)
  PROVE  Posted(n, m)
  BY DEF Posted, Outstanding

LEMMA ServeEffect ==
  ASSUME TypeOK, NEW n \in Fw, NEW k \in Fw, FwServe(k)
  PROVE  \E m \in Message : Posted(n, m)
<1>1. PICK kind \in {"AtlOpenSuccess", "AtlOpenFailed", "AtlClosed"}, up \in BOOLEAN :
        /\ FwAnswer(k, kind, up)
        /\ kind = "AtlOpenSuccess" <=> up
        /\ Head(fwRequests[k]) = "request" => kind \in {"AtlOpenSuccess", "AtlOpenFailed"}
        /\ Head(fwRequests[k]) = "release" => kind \in {"AtlClosed", "AtlOpenFailed"}
        /\ kind = "AtlOpenFailed" => ~fwConn[k]
  BY DEF FwServe
<1> DEFINE m == FwMsg(kind, k)
<1>2. m \in Message /\ queue' = Append(queue, m)
  BY <1>1 DEF FwMsg, Message, FwAnswer
<1>3. /\ fwRequests' = [fwRequests EXCEPT ![k] = Tail(fwRequests[k])]
      /\ fwConn' = [fwConn EXCEPT ![k] = up]
  BY <1>1 DEF FwAnswer
<1>4. fwRequests[k] # <<>> /\ fwRequests[k] \in Seq(What) /\ fwRequests[n] \in Seq(What)
  BY DEF FwServe, TypeOK, What
<1>5. CASE k # n
  <2>1. fwRequests'[n] = fwRequests[n] /\ fwConn'[n] = fwConn[n]
    BY <1>3, <1>5 DEF TypeOK
  <2>2. m # FwMsg("AtlOpenSuccess", n)
    BY <1>5 DEF FwMsg
  <2> QED
    BY <1>2, <2>1, <2>2 DEF Posted, Outstanding
<1>6. CASE k = n
  <2>1. fwRequests'[n] = Tail(fwRequests[n]) /\ fwConn'[n] = up
    BY <1>3, <1>6 DEF TypeOK
  <2>2. m = FwMsg("AtlOpenSuccess", n) => fwConn'[n]
    BY <1>1, <2>1 DEF FwMsg
  <2>3. fwConn[n] => fwConn'[n] \/ m = FwMsg("AtlClosed", n)
    BY <1>1, <1>6, <2>1
  <2>4. ASSUME NEW what \in What, Outstanding(n, what)
        PROVE  Outstanding(n, what)' \/ m \in Answers(n, what)
    <3>1. PICK i \in DOMAIN fwRequests[n] : fwRequests[n][i] = what
      BY <2>4 DEF Outstanding
    <3>2. CASE i = 1
      <4>1. Head(fwRequests[k]) = what
        BY <1>4, <1>6, <3>1, <3>2
      <4> QED
        BY <1>1, <1>6, <4>1 DEF Answers, Reports, What
    <3>3. CASE i # 1
      <4>1. i - 1 \in DOMAIN fwRequests'[n] /\ fwRequests'[n][i - 1] = what
        BY <1>4, <1>6, <2>1, <3>1, <3>3
      <4> QED
        BY <4>1 DEF Outstanding
    <3> QED
      BY <3>2, <3>3
  <2> QED
    BY <1>2, <2>2, <2>3, <2>4 DEF Posted
<1> QED
  BY <1>5, <1>6

LEMMA EnvironmentEffect ==
  ASSUME TypeOK, RetryCallback \/ Environment, NEW n \in Fw
  PROVE  /\ mState' = mState
         /\ \/ UNCHANGED <<queue, fwRequests, fwConn>>
            \/ \E m \in Message : Posted(n, m)
<1>1. mState' = mState
  BY DEF RetryCallback, Environment, ModemRelease, ModemRequest, FwServe, FwAnswer, FwLose,
         DsServe, DsLose, DsChange, smVars
<1>2. CASE RetryCallback
  <2>1. UNCHANGED <<fwRequests, fwConn>>
    BY <1>2 DEF RetryCallback, fwVars
  <2>2. CASE FirstActive(mSubscriberList["ds"]) # {}
    <3>1. PICK s \in FirstActive(mSubscriberList["ds"]) :
              queue' = Append(queue, RequestMsg(s.handle, "SUPL_ES"))
      BY <1>2, <2>2 DEF RetryCallback
    <3>2. s.handle \in Handle
      BY <3>1 DEF FirstActive, Active, TypeOK, Subscriber, Nif
    <3>3. RequestMsg(s.handle, "SUPL_ES") \in Message
      BY <3>2, RequestType DEF AGpsType
    <3>4. RequestMsg(s.handle, "SUPL_ES") # FwMsg("AtlOpenSuccess", n)
      BY DEF RequestMsg, FwMsg
    <3> QED
      BY <1>1, <2>1, <3>1, <3>3, <3>4, PlainPost
  <2> QED
    BY <1>1, <1>2, <2>1, <2>2 DEF RetryCallback
<1>3. ASSUME NEW h \in Handle, ModemRelease(h)
      PROVE  \E m \in Message : Posted(n, m)
  <2>1. ReleaseMsg(h) \in Message /\ ReleaseMsg(h) # FwMsg("AtlOpenSuccess", n)
    BY DEF ReleaseMsg, Message, FwMsg
  <2> QED
    BY <1>3, <2>1, PlainPost DEF ModemRelease, fwVars
<1>4. ASSUME NEW h \in Handle, NEW t \in RequestTypes, ModemRequest(h, t)
      PROVE  \E m \in Message : Posted(n, m)
  <2>1. RequestMsg(h, t) \in Message
    BY RequestType, TypesAssumption
  <2>2. RequestMsg(h, t) # FwMsg("AtlOpenSuccess", n)
    BY DEF RequestMsg, FwMsg
  <2> QED
    BY <1>4, <2>1, <2>2, PlainPost DEF ModemRequest, fwVars
<1>5. ASSUME NEW k \in Fw, FwLose(k)
      PROVE  \E m \in Message : Posted(n, m)
  <2>1. FwMsg("AtlClosed", k) \in Message /\ FwMsg("AtlClosed", k) # FwMsg("AtlOpenSuccess", n)
    BY DEF FwMsg, Message
  <2>2. /\ queue' = Append(queue, FwMsg("AtlClosed", k))
        /\ fwRequests' = fwRequests
        /\ k # n => fwConn'[n] = fwConn[n]
    BY <1>5 DEF FwLose, TypeOK
  <2> QED
    BY <2>1, <2>2 DEF Posted, Outstanding
<1>6. CASE DsServe \/ DsLose
  <2>1. PICK kind \in {"DataCallOpened", "DataCallClosed"} :
          queue' = Append(queue, DsMsg(kind)) /\ UNCHANGED <<fwRequests, fwConn>>
    BY <1>6 DEF DsServe, DsLose, DsChange, fwVars
  <2>2. DsMsg(kind) \in Message /\ DsMsg(kind) # FwMsg("AtlOpenSuccess", n)
    BY DEF DsMsg, Message, FwMsg
  <2> QED
    BY <1>1, <2>1, <2>2, PlainPost
<1> QED
  BY <1>1, <1>2, <1>3, <1>4, <1>5, <1>6, ServeEffect DEF Environment

(* An open report that is still in the queue has its connection, or the    *)
(* report of its loss comes after it.                                      *)
OpenIsBacked ==
  \A n \in Fw : \A i \in DOMAIN queue : queue[i] = FwMsg("AtlOpenSuccess", n) =>
    \/ fwConn[n]
    \/ \E j \in DOMAIN queue : i < j /\ queue[j] = FwMsg("AtlClosed", n)

FwInStep == AnswerIsOwed /\ OpenIsBacked /\ AcquiredIsBacked

LEMMA OwedForm ==
  AnswerIsOwed <=> \A n \in Fw, what \in What : Waits(mState[n], what) => Owed(n, what)
  BY DEF AnswerIsOwed, Waits, What, Owed, Answers

LEMMA OwedFormPrimed ==
  AnswerIsOwed' <=> \A n \in Fw, what \in What : Waits(mState'[n], what) => Owed(n, what)'
  BY DEF AnswerIsOwed, Waits, What, Owed, Answers, Outstanding, InQueue

LEMMA ClosedInQueue ==
  ASSUME NEW n
  PROVE  /\ InQueue(Reports(n, {"AtlClosed"}))
              <=> \E j \in DOMAIN queue : queue[j] = FwMsg("AtlClosed", n)
         /\ InQueue(Reports(n, {"AtlClosed"}))'
              <=> \E j \in DOMAIN queue' : queue'[j] = FwMsg("AtlClosed", n)
  BY DEF InQueue, Reports

(* Asking makes the answer owed; what was asked before stays asked.        *)
LEMMA SendOwes ==
  ASSUME TypeOK, NEW n \in Fw, NEW what \in What, FwSend(n, what)
  PROVE  Outstanding(n, what)'
<1>1. fwRequests[n] \in Seq(What) /\ fwRequests'[n] = Append(fwRequests[n], what)
  BY DEF FwSend, TypeOK, What
<1>2. Len(fwRequests[n]) + 1 \in DOMAIN fwRequests'[n]
      /\ fwRequests'[n][Len(fwRequests[n]) + 1] = what
  BY <1>1
<1> QED
  BY <1>2 DEF Outstanding

LEMMA SendKeeps ==
  ASSUME TypeOK, NEW n \in Fw, NEW what \in What, Outstanding(n, what),
         NEW k \in Fw, NEW x \in What, FwSend(k, x)
  PROVE  Outstanding(n, what)'
<1>1. fwRequests \in [Fw -> Seq(What)]
  BY DEF TypeOK, What
<1>2. PICK i \in DOMAIN fwRequests[n] : fwRequests[n][i] = what
  BY DEF Outstanding
<1>3. fwRequests'[n] = fwRequests[n] \/ fwRequests'[n] = Append(fwRequests[n], x)
  BY <1>1 DEF FwSend
<1>4. fwRequests[n] \in Seq(What)
  BY <1>1
<1>5. i \in DOMAIN fwRequests'[n] /\ fwRequests'[n][i] = what
  BY <1>2, <1>3, <1>4
<1> QED
  BY <1>5 DEF Outstanding

LEMMA MessageKeepsInStep ==
  ASSUME TypeOK, FwInStep, MsgTask
  PROVE  FwInStep'
<1>1. PICK m \in Seq(Requests) : queue # <<>> /\ queue' = Tail(queue) \o m
  BY Consumes
<1>2. queue \in Seq(Message)
  BY DEF TypeOK
<1>3. AnswerIsOwed'
  <2> SUFFICES ASSUME NEW n \in Fw, NEW what \in What, Waits(mState'[n], what)
               PROVE  Owed(n, what)'
    BY OwedFormPrimed
  <2>1. MessageEffect(n)
    BY MsgTaskEffect
  <2>2. CASE FwSend(n, what)
    BY <2>2, SendOwes DEF Owed
  <2>3. CASE Waits(mState[n], what) /\ Head(queue) \notin Answers(n, what)
    <3>1. Owed(n, what)
      BY <2>3, OwedForm DEF FwInStep
    <3>2. CASE Outstanding(n, what)
      <4>1. Outstanding(n, what)'
        BY <2>1, <3>2, SendKeeps DEF MessageEffect, Outstanding
      <4> QED
        BY <4>1 DEF Owed
    <3>3. CASE InQueue(Answers(n, what))
      <4>1. \E i \in DOMAIN queue' : queue'[i] \in Answers(n, what)
        BY <1>1, <1>2, <2>3, <3>3, PopKeepsIn
      <4>2. InQueue(Answers(n, what))'
        BY <4>1 DEF InQueue, Answers, Reports
      <4> QED
        BY <4>2 DEF Owed
    <3> QED
      BY <3>1, <3>2, <3>3 DEF Owed
  <2> QED
    BY <2>1, <2>2, <2>3 DEF MessageEffect
<1>4. ASSUME NEW n \in Fw
      PROVE  fwConn'[n] = fwConn[n]
  BY <1>4, MsgTaskEffect DEF MessageEffect
<1>5. OpenIsBacked'
  <2> SUFFICES ASSUME NEW n \in Fw, NEW i \in DOMAIN queue',
                      queue'[i] = FwMsg("AtlOpenSuccess", n), ~fwConn'[n]
               PROVE  \E j \in DOMAIN queue' : i < j /\ queue'[j] = FwMsg("AtlClosed", n)
    BY DEF OpenIsBacked
  <2>1. FwMsg("AtlOpenSuccess", n) \notin Requests
    BY DEF FwMsg, Requests
  <2>2. i + 1 \in DOMAIN queue /\ queue[i + 1] = FwMsg("AtlOpenSuccess", n)
    BY <1>1, <1>2, <2>1, PopBrings
  <2>3. PICK j \in DOMAIN queue : i + 1 < j /\ queue[j] = FwMsg("AtlClosed", n)
    BY <1>4, <2>2 DEF FwInStep, OpenIsBacked
  <2>4. i \in Nat \ {0} /\ j \in Nat /\ j # 1
    <3>1. queue' \in Seq(Message)
      BY <1>1, <1>2, RequestsAreMessages
    <3>2. i \in Nat \ {0}
      BY <3>1
    <3>3. j \in Nat
      BY <1>2, <2>3
    <3> QED
      BY <2>3, <3>2, <3>3
  <2>6. j - 1 \in DOMAIN queue' /\ queue'[j - 1] = queue[j]
    <3>1. j \in DOMAIN queue
      BY <2>3
    <3> QED
      BY <1>1, <1>2, <2>4, <3>1, PopKeeps
  <2>5. j - 1 \in DOMAIN queue' /\ queue'[j - 1] = FwMsg("AtlClosed", n)
    BY <2>3, <2>6
  <2> QED
    BY <2>3, <2>4, <2>5
<1>6. AcquiredIsBacked'
  <2> SUFFICES ASSUME NEW n \in Fw, mState'[n] = "ACQUIRED", ~fwConn'[n]
               PROVE  \E j \in DOMAIN queue' : queue'[j] = FwMsg("AtlClosed", n)
    BY ClosedInQueue DEF AcquiredIsBacked
  <2>1. PICK j \in DOMAIN queue : j # 1 /\ queue[j] = FwMsg("AtlClosed", n)
    <3>1. CASE mState[n] = "ACQUIRED" /\ Head(queue) # FwMsg("AtlClosed", n)
      <4>1. PICK j \in DOMAIN queue : queue[j] = FwMsg("AtlClosed", n)
        BY <1>4, <3>1, ClosedInQueue DEF FwInStep, AcquiredIsBacked
      <4>2. j # 1
        BY <1>1, <1>2, <3>1, <4>1
      <4> QED
        BY <4>1, <4>2
    <3>2. CASE Head(queue) = FwMsg("AtlOpenSuccess", n)
      <4>1. 1 \in DOMAIN queue /\ queue[1] = FwMsg("AtlOpenSuccess", n)
        BY <1>1, <1>2, <3>2
      <4>2. PICK j \in DOMAIN queue : 1 < j /\ queue[j] = FwMsg("AtlClosed", n)
        BY <1>4, <4>1 DEF FwInStep, OpenIsBacked
      <4> QED
        BY <4>2
    <3> QED
      BY <3>1, <3>2, MsgTaskEffect DEF MessageEffect
  <2> QED
    BY <1>1, <1>2, <2>1, PopKeeps
<1> QED
  BY <1>3, <1>5, <1>6 DEF FwInStep

LEMMA PostKeepsInStep ==
  ASSUME TypeOK, FwInStep, mState' = mState,
         \A n \in Fw : \/ UNCHANGED <<queue, fwRequests, fwConn>>
                       \/ \E m \in Message : Posted(n, m)
  PROVE  FwInStep'
<1>1. queue \in Seq(Message)
  BY DEF TypeOK
<1>2. CASE UNCHANGED <<queue, fwRequests, fwConn>>
  BY <1>2 DEF FwInStep, AnswerIsOwed, OpenIsBacked, AcquiredIsBacked, Outstanding, InQueue
<1>3. CASE ~UNCHANGED <<queue, fwRequests, fwConn>>
  <2>1. AnswerIsOwed'
    <3> SUFFICES ASSUME NEW n \in Fw, NEW what \in What, Waits(mState[n], what)
                 PROVE  Owed(n, what)'
      BY OwedFormPrimed
    <3>1. PICK m \in Message : Posted(n, m)
      BY <1>3
    <3>2. Owed(n, what)
      BY OwedForm DEF FwInStep
    <3>3. Outstanding(n, what)' \/ m \in Answers(n, what) \/ InQueue(Answers(n, what))
      BY <3>1, <3>2 DEF Owed, Posted
    <3>4. CASE m \in Answers(n, what) \/ InQueue(Answers(n, what))
      <4>1. \E i \in DOMAIN queue' : queue'[i] \in Answers(n, what)
        BY <1>1, <3>1, <3>4, PushKeepsIn DEF Posted
      <4>2. InQueue(Answers(n, what))'
        BY <4>1 DEF InQueue, Answers, Reports
      <4> QED
        BY <4>2 DEF Owed
    <3> QED
      BY <3>3, <3>4 DEF Owed
  <2>2. OpenIsBacked'
    <3> SUFFICES ASSUME NEW n \in Fw, NEW i \in DOMAIN queue',
                        queue'[i] = FwMsg("AtlOpenSuccess", n), ~fwConn'[n]
                 PROVE  \E j \in DOMAIN queue' : i < j /\ queue'[j] = FwMsg("AtlClosed", n)
      BY DEF OpenIsBacked
    <3>1. PICK m \in Message : Posted(n, m)
      BY <1>3
    <3>2. queue' = Append(queue, m) /\ m # FwMsg("AtlOpenSuccess", n)
      BY <3>1 DEF Posted
    <3>3. i \in DOMAIN queue /\ queue[i] = FwMsg("AtlOpenSuccess", n)
      BY <1>1, <3>2
    <3>4. CASE fwConn[n]
      <4>1. m = FwMsg("AtlClosed", n)
        BY <3>1, <3>4 DEF Posted
      <4>2. Len(queue) + 1 \in DOMAIN queue' /\ queue'[Len(queue) + 1] = m /\ i < Len(queue) + 1
        BY <1>1, <3>2, <3>3
      <4> QED
        BY <4>1, <4>2
    <3>5. CASE ~fwConn[n]
      <4>1. PICK j \in DOMAIN queue : i < j /\ queue[j] = FwMsg("AtlClosed", n)
        BY <3>3, <3>5 DEF FwInStep, OpenIsBacked
      <4>2. j \in DOMAIN queue' /\ queue'[j] = queue[j]
        BY <1>1, <3>2, <4>1
      <4> QED
        BY <4>1, <4>2
    <3> QED
      BY <3>4, <3>5
  <2>3. AcquiredIsBacked'
    <3> SUFFICES ASSUME NEW n \in Fw, mState[n] = "ACQUIRED", ~fwConn'[n]
                 PROVE  InQueue(Reports(n, {"AtlClosed"}))'
      BY DEF AcquiredIsBacked
    <3>1. PICK m \in Message : Posted(n, m)
      BY <1>3
    <3>2. InQueue(Reports(n, {"AtlClosed"})) \/ m \in Reports(n, {"AtlClosed"})
      BY <3>1 DEF FwInStep, AcquiredIsBacked, Posted, Reports
    <3>3. \E i \in DOMAIN queue' : queue'[i] \in Reports(n, {"AtlClosed"})
      BY <1>1, <3>1, <3>2, PushKeepsIn DEF Posted
    <3> QED
      BY <3>3 DEF InQueue, Reports
  <2> QED
    BY <2>1, <2>2, <2>3 DEF FwInStep
<1> QED
  BY <1>2, <1>3

LEMMA AlwaysInStep == Spec => []FwInStep
<1>1. Init => FwInStep
  BY DEF Init, FwInStep, AnswerIsOwed, OpenIsBacked, AcquiredIsBacked, Nif
<1>2. TypeOK /\ FwInStep /\ [Next]_vars => FwInStep'
  <2> SUFFICES ASSUME TypeOK, FwInStep, [Next]_vars
               PROVE  FwInStep'
    OBVIOUS
  <2>1. CASE MsgTask
    BY <2>1, MessageKeepsInStep
  <2>2. CASE RetryCallback \/ Environment
    <3>1. mState' = mState
      BY <2>2, EnvironmentEffect DEF Fw
    <3>2. \A n \in Fw : \/ UNCHANGED <<queue, fwRequests, fwConn>>
                        \/ \E m \in Message : Posted(n, m)
      BY <2>2, EnvironmentEffect
    <3> QED
      BY <3>1, <3>2, PostKeepsInStep
  <2>3. CASE UNCHANGED vars
    BY <2>3, PostKeepsInStep DEF vars, smVars, fwVars
  <2> QED
    BY <2>1, <2>2, <2>3 DEF Next
<1> QED
  BY <1>1, <1>2, TypeCorrect, PTL DEF Spec

(* A machine that waits is owed the answer it waits for, whatever rounds   *)
(* of requests and releases overlap in the framework.                      *)
THEOREM NoAnswerIsLost == Spec => []AnswerIsOwed
<1>1. FwInStep => AnswerIsOwed
  BY DEF FwInStep
<1> QED
  BY <1>1, AlwaysInStep, PTL

(* Behind an acquired machine there is a connection, or the news of its    *)
(* loss is on the way.                                                     *)
THEOREM AcquiredHasConnection == Spec => []AcquiredIsBacked
<1>1. FwInStep => AcquiredIsBacked
  BY DEF FwInStep
<1> QED
  BY <1>1, AlwaysInStep, PTL

-----------------------------------------------------------------------------
(* The DS machine and its call.                                            *)

DsReports == {DsMsg("DataCallOpened"), DsMsg("DataCallClosed")}
Opened == InQueue({DsMsg("DataCallOpened")})
Closed == InQueue({DsMsg("DataCallClosed")})

(* Every subscriber of the DS machine waits for the close: it is subscribed*)
(* for emergency SUPL only.                                                *)
DsSubscribersWait == \A s \in mSubscriberList["ds"] : s.wait

(* A report is in the queue once, the news that the call is up before that *)
(* of its end.                                                             *)
DsReportsInOrder ==
  /\ \A i, j \in DOMAIN queue : queue[i] \in DsReports /\ queue[i] = queue[j] => i = j
  /\ \A i, j \in DOMAIN queue :
       queue[i] = DsMsg("DataCallOpened") /\ queue[j] = DsMsg("DataCallClosed") => i < j

(* How the call, the machine and the reports still in the queue go together.*)
DsTable(call, state, opened, closed) ==
  \/ call = "idle" /\ ~opened /\ ~closed /\ state # "ACQUIRED"
  \/ call = "idle" /\ ~opened /\ closed /\ state # "RELEASED"
  \/ call = "idle" /\ opened /\ closed /\ state \in {"PENDING", "RELEASING"}
  \/ call = "starting" /\ ~opened /\ ~closed /\ state = "PENDING"
  \/ call = "up" /\ ~closed /\ state = (IF opened THEN "PENDING" ELSE "ACQUIRED")
  \/ call = "stopping" /\ ~closed /\ state = "RELEASING"

DsInStep ==
  /\ DsSubscribersWait
  /\ DsReportsInOrder
  /\ DsTable(dsCall, mState["ds"], Opened, Closed)

(* What a message does to the DS machine and its call.                     *)
DsEffect(head, state, next) ==
  \/ head \notin DsReports /\ next = state /\ dsCall' = dsCall
  \/ /\ head \notin DsReports
     /\ dsCall = "idle" /\ state = "RELEASED"
     /\ dsCall' = "starting" /\ next = "PENDING"
  \/ /\ head \notin DsReports
     /\ state \in {"PENDING", "ACQUIRED"} /\ next = "RELEASING"
     /\ dsCall' = IF dsCall \in {"starting", "up"} THEN "stopping" ELSE dsCall
  \/ /\ head = DsMsg("DataCallOpened")
     /\ next = (IF state = "PENDING" THEN "ACQUIRED" ELSE state) /\ dsCall' = dsCall
  \/ head = DsMsg("DataCallClosed") /\ next = "RELEASED" /\ dsCall' = dsCall
  \/ /\ head = DsMsg("DataCallClosed")
     /\ state = "RELEASING" /\ next = "PENDING"
     /\ dsCall' = dsCall \/ (dsCall = "idle" /\ dsCall' = "starting")

DsStep == DsEffect(Head(queue), mState["ds"], mState'["ds"]) /\ DsSubscribersWait'

LEMMA DsReportShape ==
  ASSUME TypeOK, queue # <<>>
  PROVE  /\ Head(queue) = DsMsg("DataCallOpened") <=> Head(queue).kind = "DataCallOpened"
         /\ Head(queue) = DsMsg("DataCallClosed") <=> Head(queue).kind = "DataCallClosed"
<1>1. Head(queue) \in Message
  BY MessageTypes
<1> QED
  BY <1>1 DEF Message, DsMsg

LEMMA NotDsReport ==
  ASSUME TypeOK, queue # <<>>, DsSubscribersWait,
         Head(queue).kind \notin {"DataCallOpened", "DataCallClosed"},
         mState'["ds"] = mState["ds"], dsCall' = dsCall, DsSubscribersWait'
  PROVE  DsStep
  BY DsReportShape DEF DsStep, DsEffect, DsReports, DsMsg

LEMMA AddWaits ==
  ASSUME TypeOK, DsSubscribersWait, queue # <<>>, NEW n \in Nif,
         Subscribing(n), AddCurrent(n)
  PROVE  DsSubscribersWait'
<1>1. CASE n = "ds"
  <2>1. Head(queue).type = "SUPL_ES"
    BY <1>1 DEF Subscribing, GetNif
  <2>2. mSubscriberList'["ds"] \subseteq mSubscriberList["ds"] \cup
           {[handle |-> Head(queue).handle, wait |-> TRUE, inactive |-> FALSE, pos |-> NextPos("ds")]}
    BY <1>1, <2>1 DEF AddCurrent, AddSubscriber, TypeOK, Nif
  <2> QED
    BY <2>2 DEF DsSubscribersWait
<1>2. CASE n # "ds"
  <2>1. mSubscriberList'["ds"] = mSubscriberList["ds"]
    BY <1>2 DEF AddCurrent, AddSubscriber, TypeOK, Nif
  <2> QED
    BY <2>1 DEF DsSubscribersWait
<1> QED
  BY <1>1, <1>2

LEMMA WithdrawWaits ==
  ASSUME TypeOK, DsSubscribersWait, NEW n \in Nif, NEW s \in mSubscriberList[n], Withdraw(n, s)
  PROVE  /\ DsSubscribersWait'
         /\ n = "ds" => mSubscriberList'["ds"] # {}
<1>1. CASE n = "ds"
  <2>1. s.wait /\ s \in Subscriber
    BY <1>1 DEF DsSubscribersWait, TypeOK
  <2>2. mSubscriberList'["ds"]
          = (mSubscriberList["ds"] \ {s}) \cup {[s EXCEPT !.inactive = TRUE]}
    BY <1>1, <2>1 DEF Withdraw, TypeOK
  <2>3. [s EXCEPT !.inactive = TRUE].wait
    BY <2>1 DEF Subscriber
  <2> QED
    BY <2>2, <2>3 DEF DsSubscribersWait
<1>2. CASE n # "ds"
  <2>1. mSubscriberList'["ds"] = mSubscriberList["ds"]
    BY <1>2 DEF Withdraw, TypeOK, Nif
  <2> QED
    BY <1>2, <2>1 DEF DsSubscribersWait
<1> QED
  BY <1>1, <1>2

LEMMA SubscribeDsStep ==
  ASSUME TypeOK, DsSubscribersWait, NEW n \in Nif,
         \/ RequestNoNif
         \/ n \in Fw /\ SubscribeReleased(n)
         \/ n = "ds" /\ SubscribeDsReleased
         \/ SubscribeWaiting(n)
         \/ SubscribeAcquired(n)
  PROVE  DsStep
<1>0. queue # <<>> /\ Head(queue).kind = "RequestATL"
  BY DEF RequestNoNif, SubscribeReleased, SubscribeDsReleased, SubscribeWaiting,
         SubscribeAcquired, Subscribing, Receive
<1>1. CASE RequestNoNif
  BY <1>0, <1>1, NotDsReport DEF RequestNoNif, smVars, dsVars, DsSubscribersWait
<1>2. CASE n \in Fw /\ SubscribeReleased(n)
  <2>1. mState'["ds"] = mState["ds"] /\ dsCall' = dsCall
    BY <1>2 DEF SubscribeReleased, dsVars, TypeOK, Fw, Nif
  <2>2. DsSubscribersWait'
    BY <1>0, <1>2, AddWaits DEF SubscribeReleased
  <2> QED
    BY <1>0, <2>1, <2>2, NotDsReport
<1>3. CASE n = "ds" /\ SubscribeDsReleased
  <2>1. DsSubscribersWait'
    BY <1>0, <1>3, AddWaits DEF SubscribeDsReleased
  <2>2. mState["ds"] = "RELEASED" /\ DsRequest(mSubscriberList'["ds"], "PENDING", "RELEASED")
    BY <1>3 DEF SubscribeDsReleased
  <2>3. Head(queue) \notin DsReports
    BY <1>0 DEF DsReports, DsMsg
  <2>4. \/ dsCall = "idle" /\ dsCall' = "starting" /\ mState'["ds"] = "PENDING"
        \/ dsCall' = dsCall /\ mState'["ds"] = "RELEASED"
    BY <2>2 DEF DsRequest, DsCallStarts, DsCallBusy, DsFallsBack,
           DsCallUnknown, TypeOK, Nif
  <2> QED
    BY <2>1, <2>2, <2>3, <2>4 DEF DsStep, DsEffect
<1>4. CASE SubscribeWaiting(n)
  BY <1>0, <1>4, AddWaits, NotDsReport DEF SubscribeWaiting, dsVars
<1>5. CASE SubscribeAcquired(n)
  BY <1>0, <1>5, AddWaits, NotDsReport DEF SubscribeAcquired, dsVars
<1> QED
  BY <1>1, <1>2, <1>3, <1>4, <1>5

LEMMA UnsubscribeDsStep ==
  ASSUME TypeOK, DsSubscribersWait, NEW n \in Nif, NEW s \in mSubscriberList[n],
         UnsubscribeReleased(n, s) \/ UnsubscribeInUse(n, s) \/ UnsubscribeReleasing(n, s)
  PROVE  DsStep
<1>0. queue # <<>> /\ Head(queue).kind = "ReleaseATL"
  BY DEF UnsubscribeReleased, UnsubscribeInUse, UnsubscribeReleasing, Unsubscribing, Receive
<1>1. CASE UnsubscribeReleased(n, s)
  BY <1>0, <1>1, NotDsReport DEF UnsubscribeReleased, smVars, dsVars, DsSubscribersWait
<1>2. CASE UnsubscribeInUse(n, s)
  <2>1. DsSubscribersWait' /\ (n = "ds" => mSubscriberList'["ds"] # {})
    BY <1>2, WithdrawWaits DEF UnsubscribeInUse
  <2>2. CASE Active(mSubscriberList'[n]) # {}
    BY <1>0, <1>2, <2>1, <2>2, NotDsReport DEF UnsubscribeInUse
  <2>3. CASE Active(mSubscriberList'[n]) = {} /\ n # "ds"
    <3>1. mState'["ds"] = mState["ds"] /\ dsCall' = dsCall
      BY <1>2, <2>3 DEF UnsubscribeInUse, ReleaseDataConn, TypeOK, Nif
    <3> QED
      BY <1>0, <2>1, <3>1, NotDsReport
  <2>4. CASE Active(mSubscriberList'[n]) = {} /\ n = "ds"
    <3>1. /\ mState["ds"] \in {"PENDING", "ACQUIRED"}
          /\ mState'["ds"] = "RELEASING"
          /\ dsCall' = IF dsCall \in {"starting", "up"} THEN "stopping" ELSE dsCall
      BY <1>2, <2>1, <2>4 DEF UnsubscribeInUse, ReleaseDataConn, TypeOK
    <3>2. Head(queue) \notin DsReports
      BY <1>0 DEF DsReports, DsMsg
    <3> QED
      BY <2>1, <3>1, <3>2 DEF DsStep, DsEffect
  <2> QED
    BY <2>2, <2>3, <2>4
<1>3. CASE UnsubscribeReleasing(n, s)
  <2>1. DsSubscribersWait' /\ (n = "ds" => mSubscriberList'["ds"] # {})
    BY <1>3, WithdrawWaits DEF UnsubscribeReleasing
  <2>2. mState'["ds"] = mState["ds"] /\ dsCall' = dsCall
    BY <1>3, <2>1 DEF UnsubscribeReleasing, dsVars, TypeOK, Nif
  <2> QED
    BY <1>0, <2>1, <2>2, NotDsReport
<1> QED
  BY <1>1, <1>2, <1>3

LEMMA ReportDsStep ==
  ASSUME TypeOK, DsSubscribersWait, NEW n \in Nif,
         \/ Granted(n) \/ ForceReleased(n) \/ IgnoredReport(n)
         \/ n \in Fw /\ (ReleasedInReleasing(n) \/ Denied(n))
         \/ n = "ds" /\ (DsReleasedInReleasing \/ DsDenied)
  PROVE  DsStep
<1>0. queue # <<>>
  BY DEF Granted, ForceReleased, IgnoredReport, ReleasedInReleasing, Denied, DsDenied,
         DsReleasedInReleasing, GrantReport, CloseReport, FwReport, Receive
<1>1. DsSubscribersWait'
  <2>1. mSubscriberList'["ds"] \subseteq mSubscriberList["ds"]
    BY DEF Granted, ForceReleased, IgnoredReport, ReleasedInReleasing, Denied, DsDenied,
           DsReleasedInReleasing, EndReleasing, Active, TypeOK, smVars, Nif
  <2> QED
    BY <2>1 DEF DsSubscribersWait
<1>2. CASE n # "ds"
  <2>1. mState'["ds"] = mState["ds"] /\ dsCall' = dsCall
    BY <1>2 DEF Granted, ForceReleased, IgnoredReport, ReleasedInReleasing, Denied,
                TypeOK, smVars, dsVars, Nif
  <2>2. Head(queue).kind \notin {"DataCallOpened", "DataCallClosed"}
    BY <1>2 DEF Granted, ForceReleased, IgnoredReport, ReleasedInReleasing, Denied,
                GrantReport, CloseReport, FwReport, Receive
  <2> QED
    BY <1>0, <1>1, <2>1, <2>2, NotDsReport
<1>3. CASE n = "ds" /\ Granted(n)
  <2>1. /\ Head(queue) = DsMsg("DataCallOpened")
        /\ mState["ds"] = "PENDING" /\ mState'["ds"] = "ACQUIRED" /\ dsCall' = dsCall
    BY <1>0, <1>3, DsReportShape DEF Granted, GrantReport, Receive, TypeOK, dsVars
  <2> QED
    BY <1>1, <2>1 DEF DsStep, DsEffect
<1>4. CASE n = "ds" /\ ForceReleased(n)
  <2>1. /\ Head(queue) = DsMsg("DataCallClosed")
        /\ mState'["ds"] = "RELEASED" /\ dsCall' = dsCall
    BY <1>0, <1>4, DsReportShape DEF ForceReleased, CloseReport, Receive, TypeOK, dsVars
  <2> QED
    BY <1>1, <2>1 DEF DsStep, DsEffect
<1>5. CASE n = "ds" /\ IgnoredReport(n)
  <2>1. mState'["ds"] = mState["ds"] /\ dsCall' = dsCall
    BY <1>5 DEF IgnoredReport, smVars, dsVars
  <2>2. \/ Head(queue) = DsMsg("DataCallOpened") /\ mState["ds"] # "PENDING"
        \/ Head(queue) = DsMsg("DataCallClosed") /\ mState["ds"] = "RELEASED"
    BY <1>0, <1>5, DsReportShape DEF IgnoredReport, GrantReport, CloseReport, Receive
  <2> QED
    BY <1>1, <2>1, <2>2 DEF DsStep, DsEffect
<1>6. CASE n = "ds" /\ DsReleasedInReleasing
  <2>1. Head(queue) = DsMsg("DataCallClosed") /\ mState["ds"] = "RELEASING"
    BY <1>0, <1>6, DsReportShape DEF DsReleasedInReleasing, EndReleasing, Receive
  <2>2. \/ mState'["ds"] = "RELEASED" /\ dsCall' = dsCall
        \/ /\ mState'["ds"] = "PENDING"
           /\ dsCall' = dsCall \/ (dsCall = "idle" /\ dsCall' = "starting")
    BY <1>6 DEF DsReleasedInReleasing, DsRequest, DsCallStarts, DsCallBusy, DsFallsBack,
                DsCallUnknown, TypeOK, Nif
  <2> QED
    BY <1>1, <2>1, <2>2 DEF DsStep, DsEffect
<1>7. CASE n = "ds" /\ DsDenied
  <2>1. /\ Head(queue) = DsMsg("DataCallClosed")
        /\ mState'["ds"] = "RELEASED" /\ dsCall' = dsCall
    BY <1>0, <1>7, DsReportShape DEF DsDenied, Receive, TypeOK
  <2> QED
    BY <1>1, <2>1 DEF DsStep, DsEffect
<1> QED
  BY <1>2, <1>3, <1>4, <1>5, <1>6, <1>7 DEF Nif, Fw

LEMMA MsgTaskDsStep ==
  ASSUME TypeOK, DsSubscribersWait, MsgTask
  PROVE  DsStep
<1>1. CASE ReleaseNotFound
  <2>1. /\ queue # <<>> /\ Head(queue).kind = "ReleaseATL"
        /\ mState' = mState /\ dsCall' = dsCall /\ mSubscriberList' = mSubscriberList
    BY <1>1 DEF ReleaseNotFound, Receive, smVars, dsVars
  <2> QED
    BY <2>1, NotDsReport DEF DsSubscribersWait
<1> QED
  BY <1>1, SubscribeDsStep, UnsubscribeDsStep, ReportDsStep DEF MsgTask, Fw, Nif

(* A message leaves the queue at its head; the others keep their order.    *)
LEMMA PopDsReports ==
  ASSUME queue \in Seq(Message), queue # <<>>, NEW m \in Seq(Requests),
         queue' = Tail(queue) \o m, DsReportsInOrder
  PROVE  /\ DsReportsInOrder'
         /\ Opened' <=> Opened /\ Head(queue) # DsMsg("DataCallOpened")
         /\ Closed' <=> Closed /\ Head(queue) # DsMsg("DataCallClosed")
         /\ Closed /\ Head(queue) = DsMsg("DataCallClosed") => ~Opened
         /\ \A r \in DsReports : Head(queue) = r => InQueue({r})
<1>1. DsReports \cap Requests = {}
  BY DEF DsReports, DsMsg, Requests
<1>2. queue' \in Seq(Message)
  BY RequestsAreMessages
<1>3. \A i \in DOMAIN queue' : queue'[i] \in DsReports =>
        i + 1 \in DOMAIN queue /\ queue'[i] = queue[i + 1]
  BY <1>1, PopBrings
<1>4. \A i \in DOMAIN queue : i # 1 => i - 1 \in DOMAIN queue' /\ queue'[i - 1] = queue[i]
  BY PopKeeps
<1>5. 1 \in DOMAIN queue /\ queue[1] = Head(queue)
  OBVIOUS
<1>6. ASSUME NEW r \in DsReports
      PROVE  InQueue({r})' <=> InQueue({r}) /\ Head(queue) # r
  <2>1. ASSUME InQueue({r})'
        PROVE  InQueue({r}) /\ Head(queue) # r
    <3>1. PICK i \in DOMAIN queue' : queue'[i] = r
      BY <2>1 DEF InQueue
    <3>2. i + 1 \in DOMAIN queue /\ queue[i + 1] = r
      BY <1>3, <3>1
    <3>3. i \in Nat \ {0}
      BY <1>2, <3>1
    <3>4. Head(queue) # r
      BY <1>5, <3>2, <3>3 DEF DsReportsInOrder
    <3> QED
      BY <3>2, <3>4 DEF InQueue
  <2>2. ASSUME InQueue({r}), Head(queue) # r
        PROVE  InQueue({r})'
    <3>1. PICK i \in DOMAIN queue : queue[i] = r
      BY <2>2 DEF InQueue
    <3>2. i - 1 \in DOMAIN queue' /\ queue'[i - 1] = r
      BY <1>4, <1>5, <2>2, <3>1
    <3> QED
      BY <3>2 DEF InQueue
  <2> QED
    BY <2>1, <2>2
<1>7. DsReportsInOrder'
  <2>1. DOMAIN queue \subseteq Int /\ DOMAIN queue' \subseteq Int
    BY <1>2
  <2>2. ASSUME NEW i \in DOMAIN queue', NEW j \in DOMAIN queue',
               queue'[i] \in DsReports, queue'[i] = queue'[j]
        PROVE  i = j
    <3>1. i + 1 = j + 1
      BY <1>3, <2>2 DEF DsReportsInOrder
    <3> QED
      BY <2>1, <3>1
  <2>3. ASSUME NEW i \in DOMAIN queue', NEW j \in DOMAIN queue',
               queue'[i] = DsMsg("DataCallOpened"), queue'[j] = DsMsg("DataCallClosed")
        PROVE  i < j
    <3>1. i + 1 < j + 1
      BY <1>3, <2>3 DEF DsReportsInOrder, DsReports
    <3> QED
      BY <2>1, <3>1
  <2> QED
    BY <2>2, <2>3 DEF DsReportsInOrder
<1>8. ASSUME Head(queue) = DsMsg("DataCallClosed"), Opened
      PROVE  FALSE
  <2>1. PICK i \in DOMAIN queue : queue[i] = DsMsg("DataCallOpened")
    BY <1>8 DEF Opened, InQueue
  <2>2. i < 1
    BY <1>5, <1>8, <2>1 DEF DsReportsInOrder
  <2> QED
    BY <2>1, <2>2
<1>9. \A r \in DsReports : Head(queue) = r => InQueue({r})
  BY <1>5 DEF InQueue
<1> QED
  BY <1>6, <1>7, <1>8, <1>9 DEF Opened, Closed, DsReports

(* A message that is posted comes last.                                    *)
LEMMA PushDsReports ==
  ASSUME queue \in Seq(Message), NEW m \in Message, queue' = Append(queue, m),
         DsReportsInOrder,
         m = DsMsg("DataCallOpened") => ~Opened /\ ~Closed,
         m = DsMsg("DataCallClosed") => ~Closed
  PROVE  /\ DsReportsInOrder'
         /\ Opened' <=> Opened \/ m = DsMsg("DataCallOpened")
         /\ Closed' <=> Closed \/ m = DsMsg("DataCallClosed")
<1>1. /\ DOMAIN queue' = DOMAIN queue \cup {Len(queue) + 1}
      /\ queue'[Len(queue) + 1] = m
      /\ \A i \in DOMAIN queue : queue'[i] = queue[i] /\ i \in Nat /\ i < Len(queue) + 1
  OBVIOUS
<1>2. \A r : InQueue({r})' <=> InQueue({r}) \/ m = r
  BY <1>1 DEF InQueue
<1>3. DsMsg("DataCallOpened") # DsMsg("DataCallClosed")
  BY DEF DsMsg
<1>4. \A i \in DOMAIN queue : /\ queue[i] = DsMsg("DataCallOpened") => Opened
                              /\ queue[i] = DsMsg("DataCallClosed") => Closed
  BY DEF Opened, Closed, InQueue
<1>5. DsReportsInOrder'
  <2>1. ASSUME NEW i \in DOMAIN queue', NEW j \in DOMAIN queue',
               queue'[i] \in DsReports, queue'[i] = queue'[j]
        PROVE  i = j
    BY <1>1, <1>4, <2>1 DEF DsReportsInOrder, DsReports
  <2>2. ASSUME NEW i \in DOMAIN queue', NEW j \in DOMAIN queue',
               queue'[i] = DsMsg("DataCallOpened"), queue'[j] = DsMsg("DataCallClosed")
        PROVE  i < j
    BY <1>1, <1>3, <1>4, <2>2 DEF DsReportsInOrder
  <2> QED
    BY <2>1, <2>2 DEF DsReportsInOrder
<1> QED
  BY <1>2, <1>5 DEF Opened, Closed

LEMMA MessageKeepsDs ==
  ASSUME TypeOK, DsInStep, MsgTask
  PROVE  DsInStep'
<1>1. PICK m \in Seq(Requests) : queue # <<>> /\ queue' = Tail(queue) \o m
  BY Consumes
<1>2. queue \in Seq(Message)
  BY DEF TypeOK
<1>3. DsStep
  BY MsgTaskDsStep DEF DsInStep
<1>4. /\ DsReportsInOrder'
      /\ Opened' <=> Opened /\ Head(queue) # DsMsg("DataCallOpened")
      /\ Closed' <=> Closed /\ Head(queue) # DsMsg("DataCallClosed")
      /\ Closed /\ Head(queue) = DsMsg("DataCallClosed") => ~Opened
      /\ Head(queue) = DsMsg("DataCallOpened") => Opened
      /\ Head(queue) = DsMsg("DataCallClosed") => Closed
  BY <1>1, <1>2, PopDsReports DEF DsInStep, DsReports, Opened, Closed
<1>5. DsMsg("DataCallOpened") # DsMsg("DataCallClosed")
  BY DEF DsMsg
<1> DEFINE s == mState["ds"]
           t == mState'["ds"]
<1>6. DsTable(dsCall, s, Opened, Closed) /\ DsEffect(Head(queue), s, t)
  BY <1>3 DEF DsInStep, DsStep
<1>7. DsTable(dsCall', t, Opened', Closed')
  BY <1>4, <1>5, <1>6 DEF DsTable, DsEffect, DsReports
<1> QED
  BY <1>3, <1>4, <1>7 DEF DsInStep, DsStep

LEMMA PostKeepsDs ==
  ASSUME TypeOK, DsInStep, RetryCallback \/ Environment
  PROVE  DsInStep'
<1>1. mState' = mState /\ mSubscriberList' = mSubscriberList
  BY DEF RetryCallback, Environment, ModemRelease, ModemRequest, FwServe, FwAnswer, FwLose,
         DsServe, DsLose, DsChange, smVars
<1>2. DsSubscribersWait'
  BY <1>1 DEF DsInStep, DsSubscribersWait
<1>3. queue \in Seq(Message)
  BY DEF TypeOK
<1>4. CASE DsServe \/ DsLose
  <2>1. PICK from \in {"starting", "stopping", "up"}, to \in {"up", "idle"},
             kind \in {"DataCallOpened", "DataCallClosed"} :
          /\ DsChange(from, to, kind)
          /\ \/ from = "starting" /\ to = "up" /\ kind = "DataCallOpened"
             \/ to = "idle" /\ kind = "DataCallClosed"
    BY <1>4 DEF DsServe, DsLose
  <2>2. dsCall = from /\ dsCall' = to /\ queue' = Append(queue, DsMsg(kind))
    BY <2>1 DEF DsChange
  <2>3. DsMsg(kind) \in Message
    BY DEF DsMsg, Message
  <2>4. /\ kind = "DataCallOpened" => ~Opened /\ ~Closed
        /\ kind = "DataCallClosed" => ~Closed
    BY <2>1, <2>2 DEF DsInStep, DsTable
  <2>5. DsMsg(kind) = DsMsg("DataCallOpened") <=> kind = "DataCallOpened"
    BY DEF DsMsg
  <2>6. DsMsg(kind) = DsMsg("DataCallClosed") <=> kind = "DataCallClosed"
    BY DEF DsMsg
  <2>7. /\ DsReportsInOrder'
        /\ Opened' <=> Opened \/ kind = "DataCallOpened"
        /\ Closed' <=> Closed \/ kind = "DataCallClosed"
    BY <1>3, <2>2, <2>3, <2>4, <2>5, <2>6, PushDsReports DEF DsInStep
  <2>8. DsTable(dsCall', mState["ds"], Opened', Closed')
    BY <2>1, <2>2, <2>7 DEF DsInStep, DsTable
  <2> QED
    BY <1>1, <1>2, <2>7, <2>8 DEF DsInStep
<1>5. CASE ~(DsServe \/ DsLose)
  <2>1. \/ queue' = queue
        \/ \E m \in Message \ DsReports : queue' = Append(queue, m)
    <3>1. CASE RetryCallback
      <4>1. \A s \in mSubscriberList["ds"] : RequestMsg(s.handle, "SUPL_ES") \in Message
        BY RequestType DEF TypeOK, Nif, Subscriber, AGpsType
      <4>2. \A h, t : RequestMsg(h, t) \notin DsReports
        BY DEF RequestMsg, DsReports, DsMsg
      <4> QED
        BY <3>1, <4>1, <4>2 DEF RetryCallback, FirstActive, Active
    <3>2. ASSUME NEW h \in Handle, ModemRelease(h)
          PROVE  \E m \in Message \ DsReports : queue' = Append(queue, m)
      <4>1. ReleaseMsg(h) \in Message \ DsReports
        BY DEF ReleaseMsg, Message, DsReports, DsMsg
      <4> QED
        BY <3>2, <4>1 DEF ModemRelease
    <3>3. ASSUME NEW h \in Handle, NEW t \in RequestTypes, ModemRequest(h, t)
          PROVE  \E m \in Message \ DsReports : queue' = Append(queue, m)
      <4>1. RequestMsg(h, t) \in Message
        BY RequestType, TypesAssumption
      <4>2. RequestMsg(h, t) \notin DsReports
        BY DEF RequestMsg, DsReports, DsMsg
      <4> QED
        BY <3>3, <4>1, <4>2 DEF ModemRequest
    <3>4. ASSUME NEW n \in Fw, FwServe(n) \/ FwLose(n)
          PROVE  \E m \in Message \ DsReports : queue' = Append(queue, m)
      <4>1. \A k \in {"AtlOpenSuccess", "AtlOpenFailed", "AtlClosed"} :
              FwMsg(k, n) \in Message \ DsReports
        BY DEF FwMsg, Message, DsReports, DsMsg
      <4> QED
        BY <3>4, <4>1 DEF FwServe, FwAnswer, FwLose
    <3> QED
      BY <1>5, <3>1, <3>2, <3>3, <3>4 DEF Environment
  <2>2. dsCall' = dsCall
    BY <1>5 DEF RetryCallback, Environment, ModemRelease, ModemRequest, FwServe, FwAnswer,
                FwLose, dsVars
  <2>3. DsReportsInOrder' /\ (Opened' <=> Opened) /\ (Closed' <=> Closed)
    <3>1. CASE queue' = queue
      BY <3>1 DEF DsInStep, DsReportsInOrder, Opened, Closed, InQueue
    <3>2. CASE \E m \in Message \ DsReports : queue' = Append(queue, m)
      <4>1. PICK m \in Message \ DsReports : queue' = Append(queue, m)
        BY <3>2
      <4>2. m # DsMsg("DataCallOpened") /\ m # DsMsg("DataCallClosed")
        BY DEF DsReports
      <4> QED
        BY <1>3, <4>1, <4>2, PushDsReports DEF DsInStep
    <3> QED
      BY <2>1, <3>1, <3>2
  <2> QED
    BY <1>1, <1>2, <2>2, <2>3 DEF DsInStep, DsTable
<1> QED
  BY <1>4, <1>5

LEMMA AlwaysDsInStep == Spec => []DsInStep
<1>1. Init => DsInStep
  BY DEF Init, DsInStep, DsSubscribersWait, DsReportsInOrder, DsTable, Opened, Closed, InQueue, Nif
<1>2. TypeOK /\ DsInStep /\ [Next]_vars => DsInStep'
  <2>1. CASE UNCHANGED vars
    BY <2>1 DEF vars, smVars, dsVars, DsInStep, DsSubscribersWait, DsReportsInOrder, DsTable,
                Opened, Closed, InQueue
  <2> QED
    BY <2>1, MessageKeepsDs, PostKeepsDs DEF Next
<1> QED
  BY <1>1, <1>2, TypeCorrect, PTL DEF Spec

(* Once its reports are processed, a DS call in progress is one that the   *)
(* machine is in step with, and the other way round: no emergency call is  *)
(* left up behind its back.                                                *)
THEOREM DsCallKnown == Spec => []DsCallIsKnown
<1>1. DsInStep => DsCallIsKnown
  BY DEF DsInStep, DsTable, DsCallIsKnown, DsQuiet, Opened, Closed, InQueue
<1> QED
  BY <1>1, AlwaysDsInStep, PTL

-----------------------------------------------------------------------------
(* The manager implements the life cycle of its handles, as long as the DS *)
(* machine does not exist.                                                 *)

IsRequest(i) == queue[i].kind = "RequestATL"
IsRelease(i) == queue[i].kind = "ReleaseATL"

(* A request in the queue is the only one of its handle, no machine has    *)
(* the handle yet, and its release comes later.                            *)
RequestsAreFresh ==
  \A i \in DOMAIN queue : IsRequest(i) =>
    /\ atl[queue[i].handle] = "requested"
    /\ \A n \in Fw : queue[i].handle \notin HandlesOf(mSubscriberList[n])
    /\ \A j \in DOMAIN queue : queue[j].kind \in {"RequestATL", "ReleaseATL"}
                               /\ queue[j].handle = queue[i].handle => i <= j

ReleasesAreKnown == \A i \in DOMAIN queue : IsRelease(i) => queue[i].handle \in released

(* What the modem was told about a subscriber is what its machine went     *)
(* through since it was added.                                             *)
Told(state, s) ==
  /\ atl[s.handle] \in {"requested", "open"}
  /\ state = "PENDING" => atl[s.handle] = "requested"
  /\ state = "RELEASING" /\ ~s.inactive => atl[s.handle] = "requested"
  /\ state = "ACQUIRED" /\ ~s.inactive => atl[s.handle] = "open"
  /\ s.inactive => s.handle \in released

SubscribersAreTold == \A n \in Fw : \A s \in mSubscriberList[n] : Told(mState[n], s)

(* A handle is subscribed once.                                            *)
SubscribedOnce ==
  \A n, k \in Fw : \A s \in mSubscriberList[n], t \in mSubscriberList[k] :
    s.handle = t.handle => n = k /\ s = t

(* The modem releases only what it has asked for.                          *)
ReleasedWereAsked == \A h \in released : atl[h] # "idle"

DsUnused == mSubscriberList["ds"] = {} /\ mState["ds"] = "RELEASED"

PlainInv ==
  /\ RequestsAreFresh
  /\ ReleasesAreKnown
  /\ SubscribersAreTold
  /\ SubscribedOnce
  /\ ReleasedWereAsked
  /\ DsUnused

(* The next state is one of the life cycle, or nobody was told anything.   *)
LifecycleStep == Lifecycle!Next \/ UNCHANGED <<atl, released>>

LEMMA TellOpen ==
  ASSUME TypeOK, NEW H \in SUBSET Handle, Notify(H, "open"), UNCHANGED released,
         \A h \in H : atl[h] = "requested"
  PROVE  LifecycleStep
<1>1. CASE H = {}
  BY <1>1 DEF Notify, TypeOK, LifecycleStep
<1>2. CASE H # {}
  <2>1. H \in SUBSET Lifecycle!In("requested")
    BY DEF Lifecycle!In
  <2> QED
    BY <1>2, <2>1 DEF Notify, LifecycleStep, Lifecycle!Next, Lifecycle!Open, Lifecycle!Tell
<1> QED
  BY <1>1, <1>2

LEMMA TellFailed ==
  ASSUME TypeOK, NEW H \in SUBSET Handle, Notify(H, "failed"), UNCHANGED released,
         \A h \in H : atl[h] = "requested"
  PROVE  LifecycleStep
<1>1. CASE H = {}
  BY <1>1 DEF Notify, TypeOK, LifecycleStep
<1>2. CASE H # {}
  <2>1. H \in SUBSET Lifecycle!In("requested")
    BY DEF Lifecycle!In
  <2> QED
    BY <1>2, <2>1 DEF Notify, LifecycleStep, Lifecycle!Next, Lifecycle!Fail, Lifecycle!Tell
<1> QED
  BY <1>1, <1>2

(* Telling a handle closed that is closed already changes nothing.         *)
LEMMA TellClosed ==
  ASSUME TypeOK, NEW H \in SUBSET Handle, Notify(H, "closed"), UNCHANGED released,
         \A h \in H : atl[h] = "open" \/ h \in released
  PROVE  LifecycleStep
<1> DEFINE G == {h \in H : atl[h] # "closed"}
<1>1. atl' = [h \in Handle |-> IF h \in G THEN "closed" ELSE atl[h]]
  BY DEF Notify, TypeOK
<1>2. CASE G = {}
  BY <1>1, <1>2 DEF TypeOK, LifecycleStep
<1>3. CASE G # {}
  <2>1. G \in SUBSET (Lifecycle!In("open") \cup (released \ Lifecycle!In("closed")))
    BY DEF Lifecycle!In
  <2> QED
    BY <1>1, <1>3, <2>1 DEF LifecycleStep, Lifecycle!Next, Lifecycle!Close, Lifecycle!Tell
<1> QED
  BY <1>2, <1>3

LEMMA NeverIdleAgain ==
  ASSUME TypeOK, LifecycleStep, NEW h \in Handle, atl[h] # "idle"
  PROVE  atl'[h] # "idle"
<1>1. CASE UNCHANGED <<atl, released>>
  BY <1>1
<1>2. ASSUME NEW H, NEW status \in {"open", "failed", "closed"}, Lifecycle!Tell(H, status)
      PROVE  atl'[h] # "idle"
  BY <1>2 DEF Lifecycle!Tell
<1>3. ASSUME NEW g \in Handle, Lifecycle!Request(g) \/ Lifecycle!Release(g)
      PROVE  atl'[h] # "idle"
  BY <1>3 DEF Lifecycle!Request, Lifecycle!Release, TypeOK
<1> QED
  BY <1>1, <1>2, <1>3
     DEF LifecycleStep, Lifecycle!Next, Lifecycle!Open, Lifecycle!Fail, Lifecycle!Close

(* What the handlers of a plain manager have in common.  n is the machine  *)
(* that the message is for.                                                *)
PlainStep ==
  /\ LifecycleStep
  /\ SubscribersAreTold'
  /\ SubscribedOnce'
  /\ DsUnused'
  /\ queue' = Tail(queue)
  /\ released' = released
  /\ \A i \in DOMAIN queue : i # 1 /\ IsRequest(i) =>
       /\ atl'[queue[i].handle] = "requested"
       /\ \A n \in Fw : queue[i].handle \notin HandlesOf(mSubscriberList'[n])

LEMMA PlainStepKeeps ==
  ASSUME TypeOK, PlainInv, queue # <<>>, PlainStep
  PROVE  PlainInv'
<1>1. /\ queue \in Seq(Message)
      /\ queue' \in Seq(Message)
      /\ \A i \in DOMAIN queue' : i + 1 \in DOMAIN queue /\ queue'[i] = queue[i + 1] /\ i + 1 # 1
      /\ DOMAIN queue' \subseteq Int
  BY DEF TypeOK, PlainStep
<1>2. RequestsAreFresh'
  <2> SUFFICES ASSUME NEW i \in DOMAIN queue', IsRequest(i)'
               PROVE  /\ atl'[queue'[i].handle] = "requested"
                      /\ \A n \in Fw : queue'[i].handle \notin HandlesOf(mSubscriberList'[n])
                      /\ \A j \in DOMAIN queue' : queue'[j].kind \in {"RequestATL", "ReleaseATL"}
                               /\ queue'[j].handle = queue'[i].handle => i <= j
    BY DEF RequestsAreFresh
  <2>1. i + 1 \in DOMAIN queue /\ queue'[i] = queue[i + 1] /\ i + 1 # 1 /\ IsRequest(i + 1)
    BY <1>1 DEF IsRequest
  <2>2. /\ atl'[queue'[i].handle] = "requested"
        /\ \A n \in Fw : queue'[i].handle \notin HandlesOf(mSubscriberList'[n])
    BY <2>1 DEF PlainStep
  <2>3. ASSUME NEW j \in DOMAIN queue', queue'[j].kind \in {"RequestATL", "ReleaseATL"},
               queue'[j].handle = queue'[i].handle
        PROVE  i <= j
    <3>1. j + 1 \in DOMAIN queue /\ queue'[j] = queue[j + 1]
      BY <1>1
    <3>2. i + 1 <= j + 1
      BY <2>1, <2>3, <3>1 DEF PlainInv, RequestsAreFresh
    <3> QED
      BY <1>1, <3>2
  <2> QED
    BY <2>2, <2>3
<1>3. ReleasesAreKnown'
  BY <1>1 DEF PlainInv, ReleasesAreKnown, IsRelease, PlainStep
<1>4. ReleasedWereAsked'
  BY NeverIdleAgain DEF PlainInv, PlainStep, ReleasedWereAsked, TypeOK
<1> QED
  BY <1>2, <1>3, <1>4 DEF PlainInv, PlainStep

LEMMA RequestHandle ==
  ASSUME TypeOK
  PROVE  \A i \in DOMAIN queue : IsRequest(i) => queue[i].handle \in Handle
<1>1. \A i \in DOMAIN queue : queue[i] \in Message
  BY DEF TypeOK
<1> QED
  BY <1>1 DEF IsRequest, Message

(* The other requests in the queue are of other handles.                   *)
LEMMA OtherRequests ==
  ASSUME TypeOK, PlainInv, queue # <<>>,
         Head(queue).kind \in {"RequestATL", "ReleaseATL"},
         NEW i \in DOMAIN queue, i # 1, IsRequest(i)
  PROVE  /\ queue[i].handle # Head(queue).handle
         /\ atl[queue[i].handle] = "requested"
         /\ \A n \in Fw : queue[i].handle \notin HandlesOf(mSubscriberList[n])
<1>1. queue \in Seq(Message) /\ 1 \in DOMAIN queue /\ queue[1] = Head(queue)
  BY DEF TypeOK
<1>2. i > 1
  BY <1>1
<1> QED
  BY <1>1, <1>2 DEF PlainInv, RequestsAreFresh

LEMMA PlainRelease ==
  ASSUME TypeOK, PlainInv, queue # <<>>, Head(queue).kind = "ReleaseATL"
  PROVE  Head(queue).handle \in released
  BY DEF TypeOK, PlainInv, ReleasesAreKnown, IsRelease

LEMMA AddPlain ==
  ASSUME TypeOK, PlainInv, queue # <<>>, Head(queue).kind = "RequestATL",
         NEW n \in Fw, AddCurrent(n)
  PROVE  /\ \E new : /\ mSubscriberList' = [mSubscriberList EXCEPT ![n] = @ \cup {new}]
                     /\ new.handle = Head(queue).handle
                     /\ ~new.inactive
         /\ SubscribedOnce'
         /\ mSubscriberList'["ds"] = mSubscriberList["ds"]
         /\ atl[Head(queue).handle] = "requested"
         /\ \A k \in Fw : Head(queue).handle \notin HandlesOf(mSubscriberList[k])
<1> DEFINE h == Head(queue).handle
           new == [handle |-> h, wait |-> Head(queue).type = "SUPL_ES", inactive |-> FALSE,
                   pos |-> NextPos(n)]
<1>1. atl[h] = "requested" /\ \A k \in Fw : h \notin HandlesOf(mSubscriberList[k])
  BY DEF TypeOK, PlainInv, RequestsAreFresh, IsRequest
<1>2. mSubscriberList' = [mSubscriberList EXCEPT ![n] = @ \cup {new}]
  BY <1>1 DEF AddCurrent, AddSubscriber
<1>3. new.handle = h /\ ~new.inactive
  OBVIOUS
<1> HIDE DEF new
<1>4. \A k \in Fw : mSubscriberList'[k] = mSubscriberList[k] \cup (IF k = n THEN {new} ELSE {})
  BY <1>2 DEF TypeOK, Nif
<1>5. SubscribedOnce'
  BY <1>1, <1>3, <1>4 DEF PlainInv, SubscribedOnce, HandlesOf
<1>6. mSubscriberList'["ds"] = mSubscriberList["ds"]
  BY <1>2 DEF TypeOK, Nif, Fw
<1> QED
  BY <1>1, <1>2, <1>3, <1>5, <1>6

LEMMA SubscribePlain ==
  ASSUME TypeOK, ListsFit, PlainInv, NEW n \in Fw,
         SubscribeReleased(n) \/ SubscribeWaiting(n) \/ SubscribeAcquired(n)
  PROVE  PlainStep
<1> DEFINE h == Head(queue).handle
<1>1. queue # <<>> /\ Head(queue).kind = "RequestATL" /\ AddCurrent(n)
  BY DEF SubscribeReleased, SubscribeWaiting, SubscribeAcquired, Subscribing, Receive
<1>2. h \in Handle
  BY <1>1, MessageTypes DEF Message
<1>3. PICK new : /\ mSubscriberList' = [mSubscriberList EXCEPT ![n] = @ \cup {new}]
                 /\ new.handle = h /\ ~new.inactive
  BY <1>1, AddPlain
<1>4. /\ SubscribedOnce'
      /\ mSubscriberList'["ds"] = mSubscriberList["ds"]
      /\ atl[h] = "requested"
      /\ \A k \in Fw : h \notin HandlesOf(mSubscriberList[k])
  BY <1>1, AddPlain
<1>5. \A k \in Fw : mSubscriberList'[k] = mSubscriberList[k] \cup (IF k = n THEN {new} ELSE {})
  BY <1>3 DEF TypeOK, Nif
<1>6. \A i \in DOMAIN queue : i # 1 /\ IsRequest(i) =>
        /\ queue[i].handle # h /\ atl[queue[i].handle] = "requested"
        /\ \A k \in Fw : queue[i].handle \notin HandlesOf(mSubscriberList'[k])
  BY <1>1, <1>3, <1>5, OtherRequests DEF HandlesOf
<1>7. queue' = Tail(queue) /\ released' = released
  BY DEF SubscribeReleased, SubscribeWaiting, SubscribeAcquired, Done, modemVars
<1>8. DsUnused'
  <2>1. mState'["ds"] = mState["ds"]
    BY DEF SubscribeReleased, SubscribeWaiting, SubscribeAcquired, TypeOK, Nif, Fw
  <2> QED
    BY <1>4, <2>1 DEF PlainInv, DsUnused
<1>9. \A k \in Fw : \A s \in mSubscriberList[k] : Told(mState[k], s) /\ s.handle # h
  BY <1>4 DEF PlainInv, SubscribersAreTold, HandlesOf
<1>10. CASE SubscribeReleased(n)
  <2>1. mSubscriberList[n] = {}
    BY <1>10 DEF SubscribeReleased, ListsFit, Fits, Nif
  <2>2. atl' = atl /\ mState' = [mState EXCEPT ![n] = "PENDING"]
    BY <1>10 DEF SubscribeReleased, modemVars
  <2>3. SubscribersAreTold'
    BY <1>3, <1>4, <1>5, <1>7, <1>9, <2>1, <2>2 DEF SubscribersAreTold, Told, TypeOK, Nif
  <2> QED
    BY <1>4, <1>6, <1>7, <1>8, <2>2, <2>3 DEF PlainStep, LifecycleStep
<1>11. CASE SubscribeWaiting(n)
  <2>1. atl' = atl /\ mState' = mState /\ mState[n] \in {"PENDING", "RELEASING"}
    BY <1>11 DEF SubscribeWaiting, modemVars
  <2>2. SubscribersAreTold'
    BY <1>3, <1>4, <1>5, <1>7, <1>9, <2>1 DEF SubscribersAreTold, Told
  <2> QED
    BY <1>4, <1>6, <1>7, <1>8, <2>1, <2>2 DEF PlainStep, LifecycleStep
<1>12. CASE SubscribeAcquired(n)
  <2>1. Notify({h}, "open") /\ mState' = mState /\ mState[n] = "ACQUIRED"
    BY <1>12 DEF SubscribeAcquired
  <2>2. atl' = [g \in Handle |-> IF g = h THEN "open" ELSE atl[g]]
    BY <2>1 DEF Notify
  <2>3. \A k \in Fw : \A s \in mSubscriberList[k] : s.handle \in Handle
    BY DEF TypeOK, Nif, Subscriber
  <2>4. SubscribersAreTold'
    BY <1>2, <1>3, <1>5, <1>7, <1>9, <2>1, <2>2, <2>3 DEF SubscribersAreTold, Told
  <2>5. LifecycleStep
    BY <1>2, <1>4, <1>7, <2>1, TellOpen
  <2>6. \A i \in DOMAIN queue : IsRequest(i) => queue[i].handle \in Handle
    BY RequestHandle
  <2> QED
    BY <1>4, <1>6, <1>7, <1>8, <2>2, <2>4, <2>5, <2>6 DEF PlainStep
<1> QED
  BY <1>10, <1>11, <1>12

LEMMA NoNifPlain ==
  ASSUME TypeOK, PlainInv, RequestNoNif
  PROVE  PlainStep
<1> DEFINE h == Head(queue).handle
<1>1. queue # <<>> /\ Head(queue).kind = "RequestATL"
  BY DEF RequestNoNif, Subscribing, Receive
<1>2. h \in Handle
  BY <1>1, MessageTypes DEF Message
<1>3. atl[h] = "requested" /\ \A k \in Fw : h \notin HandlesOf(mSubscriberList[k])
  BY <1>1 DEF TypeOK, PlainInv, RequestsAreFresh, IsRequest
<1>4. /\ Notify({h}, "failed") /\ released' = released /\ queue' = Tail(queue)
      /\ UNCHANGED <<mState, mSubscriberList>>
  BY DEF RequestNoNif, smVars, Done
<1>5. atl' = [g \in Handle |-> IF g = h THEN "failed" ELSE atl[g]]
  BY <1>4 DEF Notify
<1>6. \A k \in Fw : \A s \in mSubscriberList[k] : s.handle \in Handle /\ s.handle # h
  BY <1>3 DEF TypeOK, Nif, Subscriber, HandlesOf
<1>7. SubscribersAreTold'
  BY <1>4, <1>5, <1>6 DEF PlainInv, SubscribersAreTold, Told
<1>8. LifecycleStep
  BY <1>2, <1>3, <1>4, TellFailed
<1>9. \A i \in DOMAIN queue : IsRequest(i) => queue[i].handle \in Handle
  BY RequestHandle
<1>10. \A i \in DOMAIN queue : i # 1 /\ IsRequest(i) =>
         /\ atl'[queue[i].handle] = "requested"
         /\ \A n \in Fw : queue[i].handle \notin HandlesOf(mSubscriberList'[n])
  BY <1>1, <1>4, <1>5, <1>9, OtherRequests
<1> QED
  BY <1>4, <1>7, <1>8, <1>10 DEF PlainStep, PlainInv, SubscribedOnce, DsUnused

LEMMA WithdrawPlain ==
  ASSUME TypeOK, PlainInv, queue # <<>>, Head(queue).kind = "ReleaseATL",
         NEW n \in Fw, NEW s \in mSubscriberList[n], s.handle = Head(queue).handle,
         Withdraw(n, s), released' = released
  PROVE  /\ LifecycleStep
         /\ SubscribedOnce'
         /\ mSubscriberList'["ds"] = mSubscriberList["ds"]
         /\ \A k \in Fw : \A t \in mSubscriberList'[k] :
              \/ t \in mSubscriberList[k] /\ atl'[t.handle] = atl[t.handle]
              \/ /\ k = n /\ t.inactive /\ t.handle = s.handle /\ t.handle \in released
                 /\ atl'[t.handle] = atl[s.handle]
         /\ \A h \in Handle : h # s.handle => atl'[h] = atl[h]
<1>1. s \in Subscriber /\ s.handle \in released /\ s.handle \in Handle
  BY PlainRelease DEF TypeOK, Nif, Subscriber
<1>2. \A k \in Fw : \A t \in mSubscriberList[k] : t \in Subscriber /\ t.handle \in Handle
  BY DEF TypeOK, Nif, Subscriber
<1>3. CASE s.wait
  <2> DEFINE new == [s EXCEPT !.inactive = TRUE]
  <2>1. new.inactive /\ new.handle = s.handle
    BY <1>1 DEF Subscriber
  <2>2. /\ mSubscriberList' = [mSubscriberList EXCEPT ![n] = (@ \ {s}) \cup {new}]
        /\ atl' = atl
    BY <1>3 DEF Withdraw
  <2> HIDE DEF new
  <2>3. \A k \in Fw : mSubscriberList'[k]
                        = IF k = n THEN (mSubscriberList[n] \ {s}) \cup {new} ELSE mSubscriberList[k]
    BY <2>2 DEF TypeOK, Nif
  <2>4. SubscribedOnce'
    BY <2>1, <2>3 DEF PlainInv, SubscribedOnce
  <2>5. mSubscriberList'["ds"] = mSubscriberList["ds"]
    BY <2>2 DEF TypeOK, Nif, Fw
  <2> QED
    BY <1>1, <2>1, <2>2, <2>3, <2>4, <2>5 DEF LifecycleStep
<1>4. CASE ~s.wait
  <2>1. /\ mSubscriberList' = [mSubscriberList EXCEPT ![n] = @ \ {s}]
        /\ Notify({s.handle}, "closed")
    BY <1>4 DEF Withdraw
  <2>2. \A k \in Fw : mSubscriberList'[k]
                        = IF k = n THEN mSubscriberList[n] \ {s} ELSE mSubscriberList[k]
    BY <2>1 DEF TypeOK, Nif
  <2>3. \A k \in Fw : \A t \in mSubscriberList'[k] : t \in mSubscriberList[k] /\ t.handle # s.handle
    BY <2>2 DEF PlainInv, SubscribedOnce
  <2>4. \A h \in Handle : h # s.handle => atl'[h] = atl[h]
    BY <2>1 DEF Notify
  <2>5. LifecycleStep
    BY <1>1, <2>1, TellClosed
  <2>6. mSubscriberList'["ds"] = mSubscriberList["ds"]
    BY <2>1 DEF TypeOK, Nif, Fw
  <2>7. SubscribedOnce'
    BY <2>3 DEF PlainInv, SubscribedOnce
  <2> QED
    BY <1>2, <2>3, <2>4, <2>5, <2>6, <2>7
<1> QED
  BY <1>3, <1>4

LEMMA UnsubscribePlain ==
  ASSUME TypeOK, ListsFit, PlainInv, NEW n \in Nif, NEW s \in mSubscriberList[n],
         UnsubscribeReleased(n, s) \/ UnsubscribeInUse(n, s) \/ UnsubscribeReleasing(n, s)
  PROVE  PlainStep
<1>1. n \in Fw /\ mState[n] # "RELEASED"
  BY DEF PlainInv, DsUnused, Nif, ListsFit, Fits
<1>2. /\ queue # <<>> /\ Head(queue).kind = "ReleaseATL" /\ s.handle = Head(queue).handle
      /\ Withdraw(n, s) /\ queue' = Tail(queue) /\ released' = released
  BY <1>1 DEF UnsubscribeReleased, UnsubscribeInUse, UnsubscribeReleasing, Unsubscribing, Receive, Done
<1>3. /\ LifecycleStep
      /\ SubscribedOnce'
      /\ mSubscriberList'["ds"] = mSubscriberList["ds"]
      /\ \A h \in Handle : h # s.handle => atl'[h] = atl[h]
  BY <1>1, <1>2, WithdrawPlain
<1>4. \A k \in Fw : \A t \in mSubscriberList'[k] :
        \/ t \in mSubscriberList[k] /\ atl'[t.handle] = atl[t.handle]
        \/ /\ k = n /\ t.inactive /\ t.handle = s.handle /\ t.handle \in released
           /\ atl'[t.handle] = atl[s.handle]
  BY <1>1, <1>2, WithdrawPlain
<1>5. /\ \A k \in Nif \ {n} : mState'[k] = mState[k]
      /\ \/ mState'[n] = mState[n]
         \/ mState'[n] = "RELEASED" /\ mSubscriberList'[n] = {}
         \/ mState'[n] = "RELEASING" /\ Active(mSubscriberList'[n]) = {}
  BY <1>1 DEF UnsubscribeReleased, UnsubscribeInUse, UnsubscribeReleasing, TypeOK
<1>6. \A k \in Fw : \A t \in mSubscriberList[k] : Told(mState[k], t)
  BY DEF PlainInv, SubscribersAreTold
<1>7. SubscribersAreTold'
  <2> SUFFICES ASSUME NEW k \in Fw, NEW t \in mSubscriberList'[k]
               PROVE  Told(mState[k], t)'
    BY DEF SubscribersAreTold, Told
  <2>1. \/ Told(mState[k], t) /\ atl'[t.handle] = atl[t.handle]
        \/ /\ k = n /\ t.inactive /\ t.handle = s.handle /\ t.handle \in released
           /\ atl'[t.handle] = atl[s.handle] /\ Told(mState[k], s)
    BY <1>4, <1>6
  <2>2. mState'[k] = mState[k] \/ (mState'[k] = "RELEASING" /\ t.inactive)
    BY <1>5 DEF Active, Nif
  <2> QED
    BY <1>2, <2>1, <2>2 DEF Told
<1>8. DsUnused'
  BY <1>1, <1>3, <1>5 DEF PlainInv, DsUnused, Nif, Fw
<1>9. \A i \in DOMAIN queue : i # 1 /\ IsRequest(i) =>
        /\ atl'[queue[i].handle] = "requested"
        /\ \A k \in Fw : queue[i].handle \notin HandlesOf(mSubscriberList'[k])
  BY <1>2, <1>3, <1>4, OtherRequests, RequestHandle DEF HandlesOf
<1> QED
  BY <1>2, <1>3, <1>7, <1>8, <1>9 DEF PlainStep

LEMMA NotFoundPlain ==
  ASSUME TypeOK, PlainInv, ReleaseNotFound
  PROVE  PlainStep
<1> DEFINE h == Head(queue).handle
<1>1. /\ queue # <<>> /\ Head(queue).kind = "ReleaseATL" /\ FindNif(h) = {}
      /\ Notify({h}, "closed") /\ queue' = Tail(queue) /\ released' = released
      /\ UNCHANGED <<mState, mSubscriberList>>
  BY DEF ReleaseNotFound, Receive, Done, smVars
<1>2. h \in released /\ h \in Handle
  BY <1>1, PlainRelease DEF TypeOK
<1>3. LifecycleStep
  BY <1>1, <1>2, TellClosed
<1>4. \A k \in Fw : h \notin HandlesOf(mSubscriberList[k])
  BY <1>1 DEF FindNif, HasHandle, Fw, Nif
<1>5. \A g \in Handle : g # h => atl'[g] = atl[g]
  BY <1>1 DEF Notify
<1>6. \A k \in Fw : \A s \in mSubscriberList[k] : s.handle \in Handle /\ s.handle # h
  BY <1>4 DEF TypeOK, Nif, Subscriber, HandlesOf
<1>7. SubscribersAreTold'
  BY <1>1, <1>5, <1>6 DEF PlainInv, SubscribersAreTold, Told
<1>8. \A i \in DOMAIN queue : i # 1 /\ IsRequest(i) =>
        /\ atl'[queue[i].handle] = "requested"
        /\ \A k \in Fw : queue[i].handle \notin HandlesOf(mSubscriberList'[k])
  BY <1>1, <1>5, OtherRequests, RequestHandle
<1> QED
  BY <1>1, <1>3, <1>7, <1>8 DEF PlainStep, PlainInv, SubscribedOnce, DsUnused

(* A report changes one machine and what its subscribers were told.        *)
LEMMA ReportedPlain ==
  ASSUME TypeOK, PlainInv, NEW n \in Fw, NEW H \in SUBSET HandlesOf(mSubscriberList[n]),
         NEW status \in {"open", "failed", "closed"}, NEW state \in AgpsState,
         NEW list \in SUBSET mSubscriberList[n],
         Notify(H, status), LifecycleStep,
         mState' = [mState EXCEPT ![n] = state],
         mSubscriberList' = [mSubscriberList EXCEPT ![n] = list],
         queue' = Tail(queue), released' = released,
         \A t \in list : Told(state, t)'
  PROVE  PlainStep
<1>1. /\ \A k \in Nif : mState'[k] = IF k = n THEN state ELSE mState[k]
      /\ \A k \in Nif : mSubscriberList'[k] = IF k = n THEN list ELSE mSubscriberList[k]
  BY DEF TypeOK, Nif
<1>2. \A k \in Fw : \A s \in mSubscriberList[k] : s.handle \in Handle
  BY DEF TypeOK, Nif, Subscriber
<1>3. \A k \in Fw \ {n} : \A s \in mSubscriberList[k] : s.handle \notin H
  BY DEF PlainInv, SubscribedOnce, HandlesOf
<1>4. \A h \in Handle \ H : atl'[h] = atl[h]
  BY DEF Notify
<1>5. SubscribersAreTold'
  <2>1. \A k \in Fw \ {n} : \A s \in mSubscriberList'[k] : Told(mState[k], s)'
    BY <1>1, <1>2, <1>3, <1>4 DEF PlainInv, SubscribersAreTold, Told, Nif
  <2>2. \A t \in mSubscriberList'[n] : Told(mState[n], t)'
    BY <1>1 DEF Told, Nif
  <2> QED
    BY <2>1, <2>2 DEF SubscribersAreTold
<1>6. SubscribedOnce'
  <2>1. \A k \in Fw : mSubscriberList'[k] \subseteq mSubscriberList[k]
    BY <1>1 DEF Nif
  <2> QED
    BY <2>1 DEF PlainInv, SubscribedOnce
<1>7. DsUnused'
  BY <1>1 DEF PlainInv, DsUnused, Nif, Fw
<1>8. \A i \in DOMAIN queue : IsRequest(i) =>
        /\ atl'[queue[i].handle] = "requested"
        /\ \A k \in Fw : queue[i].handle \notin HandlesOf(mSubscriberList'[k])
  <2> SUFFICES ASSUME NEW i \in DOMAIN queue, IsRequest(i)
               PROVE  /\ atl'[queue[i].handle] = "requested"
                      /\ \A k \in Fw : queue[i].handle \notin HandlesOf(mSubscriberList'[k])
    OBVIOUS
  <2>1. /\ queue[i].handle \in Handle
        /\ atl[queue[i].handle] = "requested"
        /\ \A k \in Fw : queue[i].handle \notin HandlesOf(mSubscriberList[k])
    BY RequestHandle DEF PlainInv, RequestsAreFresh
  <2>2. \A k \in Fw : HandlesOf(mSubscriberList'[k]) \subseteq HandlesOf(mSubscriberList[k])
    BY <1>1 DEF HandlesOf, Nif
  <2> QED
    BY <1>4, <2>1, <2>2
<1> QED
  BY <1>5, <1>6, <1>7, <1>8 DEF PlainStep

LEMMA ReportPlain ==
  ASSUME TypeOK, ListsFit, PlainInv, NEW n \in Fw,
         Granted(n) \/ ForceReleased(n) \/ ReleasedInReleasing(n) \/ Denied(n)
  PROVE  PlainStep
<1> DEFINE L == mSubscriberList[n]
<1>1. \A s \in L : Told(mState[n], s) /\ s.handle \in Handle
  BY DEF PlainInv, SubscribersAreTold, TypeOK, Nif, Subscriber
<1>2. \A s, t \in L : s.handle = t.handle => s = t
  BY DEF PlainInv, SubscribedOnce
<1>3. mSubscriberList = [mSubscriberList EXCEPT ![n] = L]
  BY DEF TypeOK
<1>4. CASE Granted(n)
  <2> DEFINE H == HandlesOf(Active(L))
  <2>1. /\ mState[n] = "PENDING" /\ mState' = [mState EXCEPT ![n] = "ACQUIRED"]
        /\ mSubscriberList' = mSubscriberList
        /\ Notify(H, "open") /\ queue' = Tail(queue) /\ released' = released
    BY <1>4 DEF Granted, Done
  <2>2. H \in SUBSET Handle /\ H \in SUBSET HandlesOf(L)
    BY <1>1 DEF HandlesOf, Active
  <2>3. \A h \in H : atl[h] = "requested"
    BY <1>1, <2>1 DEF HandlesOf, Active, Told
  <2>4. LifecycleStep
    BY <2>1, <2>2, <2>3, TellOpen
  <2>5. \A t \in L : Told("ACQUIRED", t)'
    <3> TAKE t \in L
    <3>1. ~t.inactive => t.handle \in H
      BY DEF HandlesOf, Active
    <3> QED
      BY <1>1, <2>1, <3>1 DEF Told, Notify
  <2> QED
    BY <1>3, <2>1, <2>2, <2>4, <2>5, ReportedPlain DEF AgpsState
<1>5. CASE ForceReleased(n)
  <2>1. /\ mState[n] = "ACQUIRED" /\ mState' = [mState EXCEPT ![n] = "RELEASED"]
        /\ mSubscriberList' = [mSubscriberList EXCEPT ![n] = {}]
        /\ Notify(HandlesOf(L), "closed") /\ queue' = Tail(queue) /\ released' = released
    BY <1>5 DEF ForceReleased, Done
  <2>2. HandlesOf(L) \in SUBSET Handle
    BY <1>1 DEF HandlesOf
  <2>3. \A h \in HandlesOf(L) : atl[h] = "open" \/ h \in released
    BY <1>1, <2>1 DEF HandlesOf, Told
  <2>4. LifecycleStep
    BY <2>1, <2>2, <2>3, TellClosed
  <2> QED
    BY <2>1, <2>4, ReportedPlain DEF AgpsState
<1>6. CASE Denied(n)
  <2>1. /\ mState[n] = "PENDING" /\ mState' = [mState EXCEPT ![n] = "RELEASED"]
        /\ mSubscriberList' = [mSubscriberList EXCEPT ![n] = {}]
        /\ Notify(HandlesOf(L), "failed") /\ queue' = Tail(queue) /\ released' = released
    BY <1>6 DEF Denied, Done
  <2>2. HandlesOf(L) \in SUBSET Handle
    BY <1>1 DEF HandlesOf
  <2>3. \A h \in HandlesOf(L) : atl[h] = "requested"
    BY <1>1, <2>1 DEF HandlesOf, Told
  <2>4. LifecycleStep
    BY <2>1, <2>2, <2>3, TellFailed
  <2> QED
    BY <2>1, <2>4, ReportedPlain DEF AgpsState
<1>7. CASE ReleasedInReleasing(n)
  <2> DEFINE H == HandlesOf(Inactive(L))
  <2>1. /\ mState[n] = "RELEASING"
        /\ mSubscriberList' = [mSubscriberList EXCEPT ![n] = Active(L)]
        /\ Notify(H, "closed") /\ queue' = Tail(queue) /\ released' = released
    BY <1>7 DEF ReleasedInReleasing, EndReleasing, Done
  <2>2. PICK state \in {"PENDING", "RELEASED"} : mState' = [mState EXCEPT ![n] = state]
    BY <1>7 DEF ReleasedInReleasing
  <2>3. H \in SUBSET Handle /\ H \in SUBSET HandlesOf(L)
    BY <1>1 DEF HandlesOf, Inactive
  <2>4. \A h \in H : atl[h] = "open" \/ h \in released
    BY <1>1 DEF HandlesOf, Inactive, Told
  <2>5. LifecycleStep
    BY <2>1, <2>3, <2>4, TellClosed
  <2>6. \A t \in Active(L) : Told(state, t)'
    <3> TAKE t \in Active(L)
    <3>1. t \in L /\ ~t.inactive
      BY DEF Active
    <3>2. t.handle \notin H
      BY <1>2, <3>1 DEF HandlesOf, Inactive
    <3>3. atl'[t.handle] = "requested"
      BY <1>1, <2>1, <3>1, <3>2 DEF Told, Notify
    <3> QED
      BY <2>2, <3>1, <3>3 DEF Told
  <2>7. Active(L) \in SUBSET L
    BY DEF Active
  <2> QED
    BY <2>1, <2>2, <2>3, <2>5, <2>6, <2>7, ReportedPlain DEF AgpsState
<1> QED
  BY <1>4, <1>5, <1>6, <1>7

LEMMA IgnoredPlain ==
  ASSUME TypeOK, PlainInv, NEW n \in Nif, IgnoredReport(n)
  PROVE  PlainStep
<1>1. /\ UNCHANGED <<mState, mSubscriberList, atl, released>> /\ queue' = Tail(queue)
  BY DEF IgnoredReport, smVars, modemVars, Done
<1>2. SubscribersAreTold' /\ SubscribedOnce' /\ DsUnused'
  BY <1>1 DEF PlainInv, SubscribersAreTold, Told, SubscribedOnce, DsUnused
<1> QED
  BY <1>1, <1>2 DEF PlainInv, RequestsAreFresh, PlainStep, LifecycleStep

LEMMA MessagePlain ==
  ASSUME TypeOK, ListsFit, PlainInv, MsgTask, mDsNif' # "created"
  PROVE  PlainStep
<1>1. mState["ds"] = "RELEASED"
  BY DEF PlainInv, DsUnused
<1>2. ~SubscribeDsReleased /\ ~DsReleasedInReleasing /\ ~DsDenied
  BY <1>1 DEF SubscribeDsReleased, DsReleasedInReleasing, EndReleasing, DsDenied
<1>3. ASSUME NEW n \in Nif, SubscribeWaiting(n) \/ SubscribeAcquired(n) \/ Granted(n)
                            \/ ForceReleased(n)
      PROVE  n \in Fw
  BY <1>1, <1>3 DEF SubscribeWaiting, SubscribeAcquired, Granted, ForceReleased, Nif
<1> QED
  BY <1>2, <1>3, NoNifPlain, SubscribePlain, NotFoundPlain, UnsubscribePlain, ReportPlain,
     IgnoredPlain DEF MsgTask

(* What the others post is not a request, but for the modem's.             *)
LEMMA PostedPlain ==
  ASSUME TypeOK, PlainInv, UNCHANGED <<mState, mSubscriberList, atl>>,
         released \subseteq released',
         \A h \in released' \ released : atl[h] # "idle",
         \/ queue' = queue
         \/ \E m \in Message : /\ queue' = Append(queue, m)
                               /\ m.kind # "RequestATL"
                               /\ m.kind = "ReleaseATL" => m.handle \in released'
  PROVE  PlainInv'
<1>1. SubscribersAreTold' /\ SubscribedOnce' /\ ReleasedWereAsked' /\ DsUnused'
  BY DEF PlainInv, SubscribersAreTold, Told, SubscribedOnce, ReleasedWereAsked, DsUnused
<1>2. queue \in Seq(Message) /\ DOMAIN queue \subseteq Int
  BY DEF TypeOK
<1>3. CASE queue' = queue
  BY <1>1, <1>3 DEF PlainInv, RequestsAreFresh, ReleasesAreKnown, IsRequest, IsRelease
<1>4. CASE queue' # queue
  <2>1. PICK m \in Message : /\ queue' = Append(queue, m)
                             /\ m.kind # "RequestATL"
                             /\ m.kind = "ReleaseATL" => m.handle \in released'
    BY <1>4
  <2>2. /\ DOMAIN queue' = DOMAIN queue \cup {Len(queue) + 1}
        /\ queue'[Len(queue) + 1] = m
        /\ \A i \in DOMAIN queue : queue'[i] = queue[i] /\ i <= Len(queue) + 1
    BY <1>2, <2>1
  <2>3. RequestsAreFresh'
    BY <2>1, <2>2 DEF PlainInv, RequestsAreFresh, IsRequest
  <2>4. ReleasesAreKnown'
    BY <2>1, <2>2 DEF PlainInv, ReleasesAreKnown, IsRelease
  <2> QED
    BY <1>1, <2>3, <2>4 DEF PlainInv
<1> QED
  BY <1>3, <1>4

LEMMA ModemRequestPlain ==
  ASSUME TypeOK, PlainInv, NEW h \in Handle, NEW t \in RequestTypes, ModemRequest(h, t)
  PROVE  PlainInv' /\ Lifecycle!Request(h)
<1> DEFINE m == RequestMsg(h, t)
<1>1. /\ atl[h] = "idle" /\ atl' = [atl EXCEPT ![h] = "requested"]
      /\ queue' = Append(queue, m)
      /\ UNCHANGED <<mState, mSubscriberList, released>>
  BY DEF ModemRequest, smVars
<1>2. m.kind = "RequestATL" /\ m.handle = h
  BY DEF RequestMsg
<1>3. queue \in Seq(Message) /\ DOMAIN queue \subseteq Int
  BY DEF TypeOK
<1>4. /\ DOMAIN queue' = DOMAIN queue \cup {Len(queue) + 1}
      /\ queue'[Len(queue) + 1] = m
      /\ \A i \in DOMAIN queue : queue'[i] = queue[i] /\ i <= Len(queue) + 1 /\ i # Len(queue) + 1
  BY <1>1, <1>3
<1>5. \A i \in DOMAIN queue : IsRequest(i) => queue[i].handle \in Handle
  BY RequestHandle
<1>6. \A k \in Fw : \A s \in mSubscriberList[k] : s.handle \in Handle /\ s.handle # h
  <2>1. \A k \in Fw : \A s \in mSubscriberList[k] : s.handle \in Handle
    BY DEF TypeOK, Nif, Subscriber
  <2>2. \A k \in Fw : \A s \in mSubscriberList[k] : atl[s.handle] # "idle"
    BY DEF PlainInv, SubscribersAreTold, Told
  <2> QED
    BY <1>1, <2>1, <2>2
<1>7. atl'[h] = "requested" /\ \A g \in Handle : g # h => atl'[g] = atl[g]
  BY <1>1 DEF TypeOK
<1>8. \A i \in DOMAIN queue : queue[i].kind \in {"RequestATL", "ReleaseATL"} => queue[i].handle # h
  BY <1>1 DEF PlainInv, RequestsAreFresh, ReleasesAreKnown, ReleasedWereAsked, IsRequest, IsRelease
<1>9. RequestsAreFresh'
  <2> SUFFICES ASSUME NEW i \in DOMAIN queue', queue'[i].kind = "RequestATL"
               PROVE  /\ atl'[queue'[i].handle] = "requested"
                      /\ \A n \in Fw : queue'[i].handle \notin HandlesOf(mSubscriberList'[n])
                      /\ \A j \in DOMAIN queue' : queue'[j].kind \in {"RequestATL", "ReleaseATL"}
                               /\ queue'[j].handle = queue'[i].handle => i <= j
    BY DEF RequestsAreFresh, IsRequest
  <2>1. CASE i = Len(queue) + 1
    BY <1>1, <1>2, <1>3, <1>4, <1>6, <1>7, <1>8, <2>1 DEF HandlesOf
  <2>2. CASE i \in DOMAIN queue
    <3>1. /\ queue'[i] = queue[i] /\ IsRequest(i) /\ queue[i].handle # h
          /\ queue[i].handle \in Handle
      BY <1>4, <1>5, <1>8, <2>2 DEF IsRequest
    <3> QED
      BY <1>1, <1>2, <1>4, <1>7, <2>2, <3>1 DEF PlainInv, RequestsAreFresh
  <2> QED
    BY <1>4, <2>1, <2>2
<1>10. ReleasesAreKnown'
  BY <1>1, <1>2, <1>4 DEF PlainInv, ReleasesAreKnown, IsRelease
<1>11. SubscribersAreTold'
  BY <1>1, <1>6, <1>7 DEF PlainInv, SubscribersAreTold, Told
<1>12. ReleasedWereAsked'
  BY <1>1, <1>7 DEF PlainInv, ReleasedWereAsked, TypeOK
<1> QED
  BY <1>1, <1>9, <1>10, <1>11, <1>12 DEF PlainInv, SubscribedOnce, DsUnused, Lifecycle!Request

LEMMA ModemReleasePlain ==
  ASSUME TypeOK, PlainInv, NEW h \in Handle, ModemRelease(h)
  PROVE  PlainInv' /\ Lifecycle!Release(h)
<1>1. /\ atl[h] \in {"requested", "open"} /\ released' = released \cup {h}
      /\ queue' = Append(queue, ReleaseMsg(h))
      /\ UNCHANGED <<mState, mSubscriberList, atl>>
  BY DEF ModemRelease, smVars
<1>2. ReleaseMsg(h) \in Message /\ ReleaseMsg(h).kind = "ReleaseATL" /\ ReleaseMsg(h).handle = h
  BY DEF ReleaseMsg, Message
<1> QED
  BY <1>1, <1>2, PostedPlain DEF Lifecycle!Release

(* The framework, the data service and the retry timer tell the modem      *)
(* nothing; without a DS subscriber the timer has nobody to retry for.     *)
LEMMA OthersPlain ==
  ASSUME TypeOK, PlainInv,
         \/ \E n \in Fw : FwServe(n) \/ FwLose(n)
         \/ DsServe \/ DsLose
         \/ RetryCallback
  PROVE  PlainInv' /\ UNCHANGED <<atl, released>>
<1>1. UNCHANGED <<mState, mSubscriberList, atl, released>>
  BY DEF FwServe, FwAnswer, FwLose, DsServe, DsLose, DsChange, RetryCallback, smVars, modemVars
<1>2. \/ queue' = queue
      \/ \E m \in Message : /\ queue' = Append(queue, m)
                            /\ m.kind \notin {"RequestATL", "ReleaseATL"}
  <2>1. CASE RetryCallback
    <3>1. FirstActive(mSubscriberList["ds"]) = {}
      BY DEF PlainInv, DsUnused, FirstActive, Active
    <3> QED
      BY <2>1, <3>1 DEF RetryCallback
  <2>2. CASE DsServe \/ DsLose
    <3>1. PICK k \in {"DataCallOpened", "DataCallClosed"} : queue' = Append(queue, DsMsg(k))
      BY <2>2 DEF DsServe, DsLose, DsChange
    <3>2. DsMsg(k) \in Message /\ DsMsg(k).kind = k
      BY DEF DsMsg, Message
    <3> QED
      BY <3>1, <3>2
  <2>3. ASSUME NEW n \in Fw, FwServe(n) \/ FwLose(n)
        PROVE  \E m \in Message : /\ queue' = Append(queue, m)
                                  /\ m.kind \notin {"RequestATL", "ReleaseATL"}
    <3>1. PICK k \in {"AtlOpenSuccess", "AtlOpenFailed", "AtlClosed"} :
            queue' = Append(queue, FwMsg(k, n))
      BY <2>3 DEF FwServe, FwAnswer, FwLose
    <3>2. FwMsg(k, n) \in Message /\ FwMsg(k, n).kind = k
      BY DEF FwMsg, Message
    <3> QED
      BY <3>1, <3>2
  <2> QED
    BY <2>1, <2>2, <2>3
<1> QED
  BY <1>1, <1>2, PostedPlain

(* Its creation tells the modem nothing, and it is not given up again.     *)
LEMMA DsStaysCreated ==
  ASSUME [Next]_vars
  PROVE  mDsNif' = mDsNif \/ (mDsNif' = "created" /\ UNCHANGED <<atl, released>>)
  BY DEF Next, MsgTask, RequestNoNif, SubscribeReleased, SubscribeDsReleased, SubscribeWaiting,
         SubscribeAcquired, ReleaseNotFound, UnsubscribeReleased, UnsubscribeInUse,
         UnsubscribeReleasing, Granted, ForceReleased, IgnoredReport, ReleasedInReleasing,
         EndReleasing, Denied, DsReleasedInReleasing, DsDenied, RetryCallback, Environment,
         ModemRelease, ModemRequest, FwServe, FwAnswer, FwLose, DsServe, DsLose, DsChange, dsVars,
         modemVars, vars

LEMMA PlainNext ==
  ASSUME TypeOK, ListsFit, PlainInv, [Next]_vars, mDsNif' # "created"
  PROVE  PlainInv' /\ LifecycleStep
<1>1. CASE UNCHANGED vars
  BY <1>1 DEF vars, smVars, modemVars, PlainInv, RequestsAreFresh, ReleasesAreKnown,
              SubscribersAreTold, Told, SubscribedOnce, ReleasedWereAsked, DsUnused, IsRequest,
              IsRelease, LifecycleStep
<1>2. CASE MsgTask
  <2>1. PlainStep
    BY <1>2, MessagePlain
  <2>2. queue # <<>>
    BY <1>2, Consumes
  <2> QED
    BY <2>1, <2>2, PlainStepKeeps DEF PlainStep
<1>3. CASE RetryCallback \/ Environment
  <2>1. ASSUME NEW h \in Handle, ModemRelease(h)
        PROVE  PlainInv' /\ LifecycleStep
    BY <2>1, ModemReleasePlain DEF LifecycleStep, Lifecycle!Next
  <2>2. ASSUME NEW h \in Handle, NEW t \in RequestTypes, ModemRequest(h, t)
        PROVE  PlainInv' /\ LifecycleStep
    BY <2>2, ModemRequestPlain DEF LifecycleStep, Lifecycle!Next
  <2> QED
    BY <1>3, <2>1, <2>2, OthersPlain DEF Environment, LifecycleStep
<1> QED
  BY <1>1, <1>2, <1>3 DEF Next

(* Refinement: as long as the DS machine does not exist, the manager is a  *)
(* life cycle of its handles (AtlLifecycle) - every request is answered    *)
(* once, nothing is closed that is neither open nor released, and nothing  *)
(* is opened again.                                                        *)
THEOREM ImplementsLifecycle == Spec => FollowsLifecycle
<1> DEFINE Plain == mDsNif # "created" => PlainInv
           Step == mDsNif = "created" \/ Lifecycle!Next
<1>1. Init => Lifecycle!Init /\ Plain
  BY DEF Init, Lifecycle!Init, PlainInv, RequestsAreFresh, ReleasesAreKnown, SubscribersAreTold,
         SubscribedOnce, ReleasedWereAsked, DsUnused, Nif, Fw, IsRequest, IsRelease
<1>2. TypeOK /\ ListsFit /\ Plain /\ [Next]_vars => Plain'
  <2> SUFFICES ASSUME TypeOK, ListsFit, Plain, [Next]_vars, mDsNif' # "created" PROVE PlainInv'
    OBVIOUS
  <2>1. mDsNif # "created"
    BY DsStaysCreated
  <2> QED
    BY <2>1, PlainNext
<1>3. TypeOK /\ ListsFit /\ Plain /\ [Next]_vars => [Step]_<<atl, released>>
  <2> SUFFICES ASSUME TypeOK, ListsFit, Plain, [Next]_vars, mDsNif # "created"
               PROVE  Lifecycle!Next \/ UNCHANGED <<atl, released>>
    OBVIOUS
  <2>1. CASE mDsNif' # "created"
    BY <2>1, PlainNext DEF LifecycleStep
  <2>2. CASE mDsNif' = "created"
    BY <2>2, DsStaysCreated
  <2> QED
    BY <2>1, <2>2
<1> QED
  BY <1>1, <1>2, <1>3, TypeCorrect, AlwaysFit, PTL DEF Spec, FollowsLifecycle
=============================================================================
