---------------------------- MODULE ClientProofs ----------------------------
(***************************************************************************)
(* Proofs about the client library under any of its services: HalClients   *)
(* with any numbers of sessions, of network initiated requests and of      *)
(* messages under way.                                                     *)
(*                                                                         *)
(* The owner's calls only add to the ends of the interfaces' queues, an    *)
(* interface only takes from the head of its own.  So the lemmas come in   *)
(* pairs, for what is posted and for what is taken: first about the queues *)
(* (PostedIs, TakenIs), then about each part of the invariant ClientInv:   *)
(* where a session's number may be (Places), which interfaces keep which   *)
(* clients (Membership), which sessions can still be stopped (RunsAreKept, *)
(* StartsAreKept, StoppedFirst), that the dictionary is one to one         *)
(* (WellKept), and which answer is still to come (BatchPairs).  PostedInv, *)
(* TakenInv and LeftInv put these together, and each action of the         *)
(* specification is shown to post, to take or to leave well.               *)
(*                                                                         *)
(* The last part is about the client that tracks: the messages about its   *)
(* session go with the requests that wait, one to one and in order         *)
(* (TrackInv), which needs the rest of the invariant and is needed by none *)
(* of it.                                                                  *)
(***************************************************************************)
EXTENDS HalClients, FiniteSetTheorems, SequenceTheorems, TLAPS

-----------------------------------------------------------------------------
(* What the state is made of.                                              *)
ClientOps == {"add", "remove", "capabilities", "start", "stop", "update", "get", "ni"}
ClientRequest == [kind : {"none", "start", "stop", "update", "get", "ni"}, of : Nat]
ClientMessage ==
  [op : ClientOps, of : Nat, cbs : SUBSET CallbackKind, gen : Nat, for : ClientRequest]
Waiting == [session : Nat, pending : Seq(ClientRequest)]
Stored == [tracking : Nat, batching : Nat, mode : SessionMode]
History ==
  [mixed : SUBSET RequestType, collided : BOOLEAN, overlapped : BOOLEAN, raced : SUBSET Id,
   refused : SUBSET Nat, joined : SUBSET Interface, asked : SUBSET Interface, forsaken : BOOLEAN]

MailTypeOK == mail \in [Interface -> Seq(ClientMessage)]
AdaptersTypeOK == DOMAIN members = Interface /\ running \in [Interface -> SUBSET (Nat \X Nat)]
ClientTypeOK ==
  /\ available \subseteq Interface /\ loaded \subseteq Interface /\ callbacks \subseteq CallbackKind
  /\ MailTypeOK /\ AdaptersTypeOK
  /\ mSessionIdCounter \in Nat \ {0}
  /\ life \in {"none", "live", "destroyed"} /\ generation \in Nat /\ (life # "none" => generation > 0)
  /\ mRequestQueues \in [RequestType -> Waiting] /\ mTracking \in BOOLEAN
  /\ calling = NoCall
     \/ (calling \in [op : {"stop", "get", "update"}, id : Id, mode : SessionMode] /\ life = "live")
  /\ answering \in [Interface -> Nat]
  /\ told \in BOOLEAN /\ seen \in History
  /\ use \in Uses

(* A service uses the library for tracking or for batching.                *)
Tracks == use \in {"tracker", "gnss", "measurement"}
Batches == use \in {"session", "batching"}
Nothing == [session |-> 0, pending |-> << >>]
UsesApart ==
  /\ ~Tracks => \A i \in Interface : \A k \in DOMAIN mail[i] : mail[i][k].op # "ni"
  /\ ~Batches => mSessionBiDict = EmptyDict /\ calling = NoCall

(* The steps of the library, by whose calls they are.                      *)
LibraryStep ==
  \/ \E cbs \in SUBSET CallbackKind : SetCallbacks(cbs)
  \/ Destroy
  \/ Tracks /\ \E far \in BOOLEAN : LocAPIStartTracking(far)
  \/ Tracks /\ (LocAPIStopTracking \/ LocAPIUpdateTrackingOptions)
  \/ Tracks /\ \E id \in NiId : LocAPIGnssNiResponse(id)
  \/ Batches /\ \E id \in Id, mode \in SessionMode : LocAPIStartSession(id, mode)
  \/ Batches /\ \E op \in {"stop", "get", "update"}, id \in Id, mode \in SessionMode :
                  LookUp(op, id, mode)
  \/ Resume
  \/ \E s \in 2 .. MaxSession : BeforeBatchingStatusCb(s)
  \/ \E i \in Interface : Handle(i)
  \/ UNCHANGED vars

LEMMA CallIs ==
  ASSUME Calls
  PROVE  LibraryStep /\ UNCHANGED use
<1>1. CASE TrackerCalls
  BY <1>1 DEF TrackerCalls, Changes, StartsTracking, LibraryStep, Tracks, CallbackKind
<1>2. CASE SessionCalls
  <2>1. {"tracking", "batching"} \in SUBSET CallbackKind
    BY DEF CallbackKind
  <2> QED
    BY <1>2, <2>1 DEF SessionCalls, LibraryStep, Batches
<1>3. ASSUME NEW cb, NEW ni, NEW asks, GnssCallback(cb, ni, asks)
      PROVE  LibraryStep /\ UNCHANGED use
  <2> DEFINE cbs == (IF cb THEN {"tracking"} ELSE {}) \cup (IF ni THEN {"ni"} ELSE {})
  <2>1. cbs \in SUBSET CallbackKind
    BY DEF CallbackKind
  <2>2. UNCHANGED use
    BY <1>3 DEF GnssCallback, Does
  <2>3. Changes(cbs) \/ UNCHANGED vars
    BY <1>3 DEF GnssCallback
  <2> QED
    BY <2>1, <2>2, <2>3 DEF LibraryStep, Changes
<1>4. ASSUME NEW cb, BatchingInit(cb)
      PROVE  LibraryStep /\ UNCHANGED use
  <2>1. (IF cb THEN {"batching"} ELSE {}) \in SUBSET CallbackKind
    BY DEF CallbackKind
  <2> QED
    BY <1>4, <2>1 DEF BatchingInit, LibraryStep, Does
<1>5. CASE GnssStart \/ GnssStop \/ GnssSetPositionMode \/ \E id \in NiId : GnssNiRespond(id)
  BY <1>5 DEF GnssStart, GnssStop, GnssSetPositionMode, GnssNiRespond, Does, StartsTracking,
              LibraryStep, Tracks
<1>6. CASE MeasurementSetCallback \/ MeasurementClose
  <2>1. {"measurements"} \in SUBSET CallbackKind
    BY DEF CallbackKind
  <2> QED
    BY <1>6, <2>1 DEF MeasurementSetCallback, MeasurementClose, Does, LibraryStep, Tracks
<1>7. CASE BatchingStart \/ BatchingStop \/ BatchingFlush
  BY <1>7 DEF BatchingStart, BatchingStop, BatchingFlush, Does, LibraryStep, Batches, SessionMode
<1> QED
  BY <1>1, <1>2, <1>3, <1>4, <1>5, <1>6, <1>7 DEF Calls, SetCallback, SetGnssNiCb

LEMMA StepIs ==
  ASSUME [Next]_halVars
  PROVE  LibraryStep /\ UNCHANGED use
<1>1. CASE Calls
  BY <1>1, CallIs
<1>2. CASE Continues
  <2>1. CASE SetAgain
    <3>1. Callbacks \in SUBSET CallbackKind
      BY DEF Callbacks, CallbackKind
    <3> QED
      BY <2>1, <3>1 DEF SetAgain, LibraryStep
  <2>2. CASE MeasurementStart
    BY <2>2 DEF MeasurementStart, Does, LibraryStep, Tracks
  <2>3. CASE RequestCapabilities
    BY <2>3 DEF RequestCapabilities, Does, LibraryStep
  <2> QED
    BY <1>2, <2>1, <2>2, <2>3 DEF Continues, LibraryStep, Same
<1>3. CASE OnCapabilitiesCb \/ UNCHANGED halVars
  BY <1>3 DEF OnCapabilitiesCb, halVars, LibraryStep
<1>4. CASE TripOver
  BY <1>4 DEF TripOver, Same, LibraryStep
<1>5. CASE \E i \in Interface : Serve(i)
  BY <1>5 DEF Serve, LibraryStep
<1> QED
  BY <1>1, <1>2, <1>3, <1>4, <1>5 DEF Next

-----------------------------------------------------------------------------
(* Messages posted and taken.                                              *)
LEMMA AppendedIs ==
  ASSUME NEW S, NEW s \in Seq(S), NEW e \in S, NEW t, t = Append(s, e)
  PROVE  /\ Len(t) = Len(s) + 1 /\ t[Len(s) + 1] = e /\ Len(s) + 1 \in DOMAIN t
         /\ \A k \in DOMAIN s : k \in DOMAIN t /\ t[k] = s[k]
<1>1. DOMAIN s = 1 .. Len(s) /\ Len(s) \in Nat
  BY LenProperties
<1>2. t \in Seq(S) /\ Len(t) = Len(s) + 1 /\ t[Len(s) + 1] = e /\ \A k \in 1 .. Len(s) : t[k] = s[k]
  BY AppendProperties
<1>3. DOMAIN t = 1 .. Len(t)
  BY <1>2, LenProperties
<1> QED
  BY <1>1, <1>2, <1>3

Longer(i, A, a, B, b) ==
  /\ Len(mail[i]) \in Nat /\ DOMAIN mail[i] = 1 .. Len(mail[i])
  /\ DOMAIN mail'[i] = 1 .. Len(mail'[i])
  /\ Len(mail'[i]) = Len(mail[i]) + (IF i \in A THEN 1 ELSE 0) + (IF i \in B THEN 1 ELSE 0)
  /\ \A k \in DOMAIN mail[i] : mail'[i][k] = mail[i][k]
  /\ i \in A => mail'[i][Len(mail[i]) + 1] = a
  /\ i \in B => mail'[i][Len(mail'[i])] = b

LEMMA PostedIs ==
  ASSUME MailTypeOK, NEW A, NEW B, NEW a \in ClientMessage, NEW b \in ClientMessage,
         mail' = Posted(Posted(mail, A, a), B, b)
  PROVE  /\ MailTypeOK'
         /\ \A i \in Interface : Longer(i, A, a, B, b)
<1> DEFINE first == Posted(mail, A, a)
<1>1. \A i \in Interface : mail[i] \in Seq(ClientMessage)
  BY DEF MailTypeOK
<1>2. \A i \in Interface : first[i] = IF i \in A THEN Append(mail[i], a) ELSE mail[i]
  BY DEF Posted
<1>3. \A i \in Interface : first[i] \in Seq(ClientMessage)
  <2> TAKE i \in Interface
  <2>1. mail[i] \in Seq(ClientMessage)
    BY <1>1
  <2>2. Append(mail[i], a) \in Seq(ClientMessage)
    BY <2>1, AppendProperties
  <2> QED
    BY <1>2, <2>1, <2>2
<1>4. \A i \in Interface : mail'[i] = IF i \in B THEN Append(first[i], b) ELSE first[i]
  BY DEF Posted
<1>5. mail' = [i \in Interface |-> mail'[i]]
  BY DEF Posted
<1> HIDE DEF first
<1>6. \A i \in Interface : mail'[i] \in Seq(ClientMessage)
  <2> TAKE i \in Interface
  <2>1. first[i] \in Seq(ClientMessage)
    BY <1>3
  <2>2. Append(first[i], b) \in Seq(ClientMessage)
    BY <2>1, AppendProperties
  <2> QED
    BY <1>4, <2>1, <2>2
<1>7. MailTypeOK'
  BY <1>5, <1>6 DEF MailTypeOK
<1>8. ASSUME NEW i \in Interface
      PROVE  Longer(i, A, a, B, b)
  <2>1. mail[i] \in Seq(ClientMessage) /\ first[i] \in Seq(ClientMessage) /\ mail'[i] \in Seq(ClientMessage)
    BY <1>1, <1>3, <1>6
  <2>2. first[i] = IF i \in A THEN Append(mail[i], a) ELSE mail[i]
    BY <1>2
  <2>3. mail'[i] = IF i \in B THEN Append(first[i], b) ELSE first[i]
    BY <1>4
  <2>4. /\ Len(first[i]) = Len(mail[i]) + (IF i \in A THEN 1 ELSE 0)
        /\ \A k \in DOMAIN mail[i] : k \in DOMAIN first[i] /\ first[i][k] = mail[i][k]
        /\ i \in A => first[i][Len(mail[i]) + 1] = a /\ Len(mail[i]) + 1 \in DOMAIN first[i]
    <3>1. CASE i \in A
      <4>1. first[i] = Append(mail[i], a)
        BY <2>2, <3>1
      <4> QED
        BY <2>1, <3>1, <4>1, AppendedIs
    <3>2. CASE i \notin A
      BY <2>1, <2>2, <3>2, LenProperties
    <3> QED
      BY <3>1, <3>2
  <2>5. /\ Len(mail'[i]) = Len(first[i]) + (IF i \in B THEN 1 ELSE 0)
        /\ \A k \in DOMAIN first[i] : mail'[i][k] = first[i][k]
        /\ i \in B => mail'[i][Len(first[i]) + 1] = b
    <3>1. CASE i \in B
      <4>1. mail'[i] = Append(first[i], b)
        BY <2>3, <3>1
      <4> QED
        BY <2>1, <3>1, <4>1, AppendedIs
    <3>2. CASE i \notin B
      BY <2>1, <2>3, <3>2, LenProperties
    <3> QED
      BY <3>1, <3>2
  <2> QED
    BY <2>1, <2>4, <2>5, LenProperties DEF Longer
<1> QED
  BY <1>7, <1>8

LEMMA TakenIs ==
  ASSUME MailTypeOK, NEW i \in Interface, mail[i] # << >>, mail' = [mail EXCEPT ![i] = Tail(@)]
  PROVE  /\ MailTypeOK'
         /\ mail[i][1] = Head(mail[i]) /\ 1 \in DOMAIN mail[i]
         /\ \A j \in Interface : j # i => mail'[j] = mail[j]
         /\ \A j \in Interface : DOMAIN mail[j] = 1 .. Len(mail[j]) /\ Len(mail[j]) \in Nat
         /\ DOMAIN mail'[i] = 1 .. Len(mail[i]) - 1
         /\ \A k \in DOMAIN mail'[i] : k + 1 \in DOMAIN mail[i] /\ mail'[i][k] = mail[i][k + 1]
<1>1. \A j \in Interface : mail[j] \in Seq(ClientMessage)
  BY DEF MailTypeOK
<1>2. mail'[i] = Tail(mail[i]) /\ \A j \in Interface : j # i => mail'[j] = mail[j]
  BY DEF MailTypeOK
<1>3. \A j \in Interface : mail'[j] \in Seq(ClientMessage)
  BY <1>1, <1>2
<1>4. MailTypeOK'
  <2>1. mail' = [j \in Interface |-> mail'[j]]
    BY DEF MailTypeOK
  <2> QED
    BY <1>3, <2>1 DEF MailTypeOK
<1>5. mail[i] \in Seq(ClientMessage) /\ Len(Tail(mail[i])) = Len(mail[i]) - 1
  BY <1>1, HeadTailProperties
<1>6. \A k \in 1 .. Len(Tail(mail[i])) : Tail(mail[i])[k] = mail[i][k + 1]
  BY <1>5, HeadTailProperties
<1>7. DOMAIN mail'[i] = 1 .. Len(mail[i]) - 1
  BY <1>2, <1>3, <1>5, LenProperties
<1>8. \A k \in DOMAIN mail'[i] : k + 1 \in DOMAIN mail[i] /\ mail'[i][k] = mail[i][k + 1]
  BY <1>2, <1>5, <1>6, <1>7, LenProperties
<1>9. mail[i][1] = Head(mail[i]) /\ 1 \in DOMAIN mail[i]
  BY <1>5, HeadTailProperties, LenProperties, EmptySeq
<1>10. \A j \in Interface : DOMAIN mail[j] = 1 .. Len(mail[j]) /\ Len(mail[j]) \in Nat
  BY <1>1, LenProperties
<1> QED
  BY <1>2, <1>4, <1>7, <1>8, <1>9, <1>10

-----------------------------------------------------------------------------
(* Sessions, clients and interfaces as messages and interfaces name them.  *)
(* A number is that of one session, which starts or runs in one place.     *)
InUse(i, m, last, newest, there, live) ==
  /\ m.op # "ni" => m.of <= last
  /\ m.op = "ni" => i = "gnss" /\ m.for = Request("ni", m.of)
  /\ m.op = "start" => m.of >= 2 /\ i # "geofence"
  /\ m.gen \in 1 .. newest /\ i \in there
  /\ m.op = "remove" /\ m.gen = newest => ~live
  /\ m.op \in {"start", "update", "get"} => m.for # NoRequest
  /\ m.for.kind \in {"start", "stop"} => m.op = m.for.kind
MessagesInUse ==
  \A i \in Interface : \A k \in DOMAIN mail[i] :
    InUse(i, mail[i][k], mSessionIdCounter, generation, loaded, life = "live")
RunningInUse ==
  \A i \in Interface :
    /\ \A r \in running[i] :
         r[2] \in 2 .. mSessionIdCounter /\ r[1] \in 1 .. generation /\ i \in loaded /\ i # "geofence"
    /\ DOMAIN members[i] \subseteq 1 .. generation
StartsOnce ==
  \A i, j \in Interface : \A k \in DOMAIN mail[i], l \in DOMAIN mail[j] :
    mail[i][k].op = "start" /\ mail[j][l].op = "start" /\ mail[i][k].of = mail[j][l].of
      => i = j /\ k = l
StartsBeforeRuns ==
  \A i, j \in Interface : \A k \in DOMAIN mail[i], r \in running[j] :
    ~(mail[i][k].op = "start" /\ mail[i][k].of = r[2])
RunsOnce ==
  \A i, j \in Interface : \A r \in running[i], q \in running[j] : r[2] = q[2] => i = j /\ r = q
Places ==
  /\ MessagesInUse /\ RunningInUse
  /\ StartsOnce /\ StartsBeforeRuns /\ RunsOnce

(* The owner posts one message, or two.                                    *)
Grows ==
  /\ loaded \subseteq loaded'
  /\ mSessionIdCounter <= mSessionIdCounter' /\ mSessionIdCounter' \in Nat
  /\ generation <= generation' /\ generation' \in Nat
  /\ life' = "live" /\ generation' = generation => life = "live"
UsedBy(A, m) ==
  \A i \in A : i \in Interface
               /\ InUse(i, m, mSessionIdCounter', generation', loaded', life' = "live")
Posts(A, a, B, b) ==
  /\ mail' = Posted(Posted(mail, A, a), B, b)
  /\ UNCHANGED adapters
  /\ a \in ClientMessage /\ b \in ClientMessage /\ UsedBy(A, a) /\ UsedBy(B, b)
  /\ a.op # "start"
  /\ b.op = "start" => \A i, j \in B : i = j /\ b.of > mSessionIdCounter

(* Where a message of the longer queue comes from.                         *)
Came(i, k, A, a, B, b) ==
  \/ k \in DOMAIN mail[i] /\ mail'[i][k] = mail[i][k]
  \/ /\ k \notin DOMAIN mail[i] /\ \A l \in DOMAIN mail[i] : l < k
     /\ \/ i \in A /\ mail'[i][k] = a
        \/ i \in B /\ mail'[i][k] = b /\ k = Len(mail'[i])

LEMMA PostedFrom ==
  ASSUME MailTypeOK, NEW A, NEW B, NEW a \in ClientMessage, NEW b \in ClientMessage,
         mail' = Posted(Posted(mail, A, a), B, b)
  PROVE  \A i \in Interface : \A k \in DOMAIN mail'[i] : k \in Nat /\ Came(i, k, A, a, B, b)
<1>1. \A i \in Interface : Longer(i, A, a, B, b)
  BY PostedIs
<1> SUFFICES ASSUME NEW i \in Interface, NEW k \in DOMAIN mail'[i]
             PROVE  k \in Nat /\ Came(i, k, A, a, B, b)
  OBVIOUS
<1> DEFINE n == Len(mail[i])
           m == Len(mail'[i])
<1>3. /\ n \in Nat /\ k \in 1 .. m /\ DOMAIN mail[i] = 1 .. n
      /\ m = n + (IF i \in A THEN 1 ELSE 0) + (IF i \in B THEN 1 ELSE 0)
      /\ \A l \in DOMAIN mail[i] : mail'[i][l] = mail[i][l]
      /\ i \in A => mail'[i][n + 1] = a
      /\ i \in B => mail'[i][m] = b
  BY <1>1 DEF Longer
<1> HIDE DEF n
<1>4. CASE k <= n
  <2>1. k \in DOMAIN mail[i] /\ k \in Nat
    BY <1>3, <1>4
  <2> QED
    BY <1>3, <2>1 DEF Came
<1>5. CASE k > n
  <2>1. k \notin DOMAIN mail[i] /\ k \in Nat /\ \A l \in DOMAIN mail[i] : l < k
    BY <1>3, <1>5
  <2>2. (i \in A /\ k = n + 1) \/ (i \in B /\ k = m)
    BY <1>3, <1>5
  <2> QED
    BY <1>3, <2>1, <2>2 DEF Came
<1>6. k \in Int
  BY <1>3
<1> QED
  BY <1>3, <1>4, <1>5, <1>6

LEMMA PostedCame ==
  ASSUME MailTypeOK, NEW A, NEW B, NEW a, NEW b, Posts(A, a, B, b)
  PROVE  \A i \in Interface : \A k \in DOMAIN mail'[i] : k \in Nat /\ Came(i, k, A, a, B, b)
BY PostedFrom DEF Posts

LEMMA InUseGrows ==
  ASSUME NEW i, NEW m \in ClientMessage, Grows, mSessionIdCounter \in Nat, generation \in Nat,
         InUse(i, m, mSessionIdCounter, generation, loaded, life = "live")
  PROVE  InUse(i, m, mSessionIdCounter', generation', loaded', life' = "live")
BY DEF InUse, Grows, ClientMessage

LEMMA MessageAt ==
  ASSUME MailTypeOK, NEW i \in Interface, NEW k \in DOMAIN mail[i]
  PROVE  mail[i][k] \in ClientMessage /\ k \in Nat \ {0} /\ k <= Len(mail[i]) /\ Len(mail[i]) \in Nat
<1>1. mail[i] \in Seq(ClientMessage)
  BY DEF MailTypeOK
<1> QED
  BY <1>1, LenProperties, ElementOfSeq

LEMMA PlacesPosted ==
  ASSUME MailTypeOK, AdaptersTypeOK, Places, Grows, mSessionIdCounter \in Nat, generation \in Nat,
         NEW A, NEW B, NEW a, NEW b, Posts(A, a, B, b)
  PROVE  Places'
<1>0. \A i \in Interface : \A k \in DOMAIN mail'[i] : k \in Nat /\ Came(i, k, A, a, B, b)
  BY PostedCame
<1>1. UNCHANGED <<members, running>>
  BY DEF Posts, adapters
<1>2. MessagesInUse'
  <2> SUFFICES ASSUME NEW i \in Interface, NEW k \in DOMAIN mail'[i]
               PROVE  InUse(i, mail'[i][k], mSessionIdCounter', generation', loaded', life' = "live")
    BY DEF MessagesInUse
  <2>1. CASE k \in DOMAIN mail[i] /\ mail'[i][k] = mail[i][k]
    BY <2>1, MessageAt, InUseGrows DEF Places, MessagesInUse
  <2>2. CASE i \in A /\ mail'[i][k] = a
    BY <2>2 DEF Posts, UsedBy
  <2>3. CASE i \in B /\ mail'[i][k] = b
    BY <2>3 DEF Posts, UsedBy
  <2> QED
    BY <1>0, <2>1, <2>2, <2>3 DEF Came
<1>3. RunningInUse'
  <2> SUFFICES ASSUME NEW i \in Interface
               PROVE  /\ \A r \in running[i] :
                           r[2] \in 2 .. mSessionIdCounter' /\ r[1] \in 1 .. generation' /\ i \in loaded'
                           /\ i # "geofence"
                      /\ DOMAIN members[i] \subseteq 1 .. generation'
    BY <1>1 DEF RunningInUse
  <2>1. /\ \A r \in running[i] :
             r[2] \in 2 .. mSessionIdCounter /\ r[1] \in 1 .. generation /\ i \in loaded /\ i # "geofence"
        /\ DOMAIN members[i] \subseteq 1 .. generation
    BY DEF Places, RunningInUse
  <2> QED
    BY <2>1 DEF Grows
<1> DEFINE Starting(m) == m.op = "start"
<1>4. \A i \in Interface : \A k \in DOMAIN mail'[i] : Starting(mail'[i][k]) =>
        \/ k \in DOMAIN mail[i] /\ mail'[i][k] = mail[i][k] /\ mail[i][k].of <= mSessionIdCounter
        \/ i \in B /\ k = Len(mail'[i]) /\ b.op = "start" /\ mail'[i][k] = b
  <2> TAKE i \in Interface
  <2> TAKE k \in DOMAIN mail'[i]
  <2> HAVE Starting(mail'[i][k])
  <2>1. CASE k \in DOMAIN mail[i] /\ mail'[i][k] = mail[i][k]
    BY <2>1 DEF Places, MessagesInUse, InUse
  <2>2. CASE i \in A /\ mail'[i][k] = a
    BY <2>2 DEF Posts
  <2> QED
    BY <1>0, <2>1, <2>2 DEF Came
<1>5. \A i \in Interface : \A k \in DOMAIN mail[i] : mail[i][k].of \in Nat
  BY MessageAt DEF ClientMessage
<1>6. b.op = "start" => b.of \in Nat /\ \A i, j \in B : i = j /\ b.of > mSessionIdCounter
  BY DEF Posts, ClientMessage
<1>7. StartsOnce'
  <2> SUFFICES ASSUME NEW i \in Interface, NEW j \in Interface,
                      NEW k \in DOMAIN mail'[i], NEW l \in DOMAIN mail'[j],
                      Starting(mail'[i][k]), Starting(mail'[j][l]), mail'[i][k].of = mail'[j][l].of
               PROVE  i = j /\ k = l
    BY DEF StartsOnce
  <2>1. CASE /\ k \in DOMAIN mail[i] /\ mail'[i][k] = mail[i][k]
             /\ l \in DOMAIN mail[j] /\ mail'[j][l] = mail[j][l]
    BY <2>1 DEF Places, StartsOnce
  <2>2. CASE i \in B /\ k = Len(mail'[i]) /\ j \in B /\ l = Len(mail'[j]) /\ b.op = "start"
    BY <1>6, <2>2
  <2> QED
    BY <1>4, <1>5, <1>6, <2>1, <2>2
<1>8. StartsBeforeRuns'
  <2> SUFFICES ASSUME NEW i \in Interface, NEW j \in Interface,
                      NEW k \in DOMAIN mail'[i], NEW r \in running[j],
                      Starting(mail'[i][k]), mail'[i][k].of = r[2]
               PROVE  FALSE
    BY <1>1 DEF StartsBeforeRuns
  <2>1. r[2] \in 2 .. mSessionIdCounter
    BY DEF Places, RunningInUse
  <2>2. CASE k \in DOMAIN mail[i] /\ mail'[i][k] = mail[i][k]
    BY <2>2 DEF Places, StartsBeforeRuns
  <2> QED
    BY <1>4, <1>6, <2>1, <2>2
<1>9. RunsOnce'
  BY <1>1 DEF Places, RunsOnce
<1> QED
  BY <1>2, <1>3, <1>7, <1>8, <1>9 DEF Places

(* An interface takes a message; only a start adds to what it runs.        *)
Runs(i) ==
  \A j \in Interface : \A r \in running'[j] :
    r \in running[j] \/ (j = i /\ mail[i][1].op = "start" /\ r = <<mail[i][1].gen, mail[i][1].of>>)
Still == UNCHANGED <<mSessionIdCounter, generation, loaded, life>>
Took(i) == mail[i] # << >> /\ mail' = [mail EXCEPT ![i] = Tail(@)]

LEMMA TookCame ==
  ASSUME MailTypeOK, NEW i \in Interface, Took(i)
  PROVE  /\ 1 \in DOMAIN mail[i]
         /\ \A j \in Interface : \A k \in DOMAIN mail'[j] :
              /\ k \in Nat \ {0}
              /\ j # i => k \in DOMAIN mail[j] /\ mail'[j][k] = mail[j][k]
              /\ j = i => k + 1 \in DOMAIN mail[i] /\ mail'[i][k] = mail[i][k + 1]
<1>1. mail[i] # << >> /\ mail' = [mail EXCEPT ![i] = Tail(@)]
  BY DEF Took
<1>2. /\ 1 \in DOMAIN mail[i]
      /\ \A j \in Interface : j # i => mail'[j] = mail[j]
      /\ \A j \in Interface : DOMAIN mail[j] = 1 .. Len(mail[j]) /\ Len(mail[j]) \in Nat
      /\ DOMAIN mail'[i] = 1 .. Len(mail[i]) - 1
      /\ \A k \in DOMAIN mail'[i] : k + 1 \in DOMAIN mail[i] /\ mail'[i][k] = mail[i][k + 1]
  BY <1>1, TakenIs
<1>3. ASSUME NEW j \in Interface, NEW k \in DOMAIN mail'[j], j # i
      PROVE  k \in Nat \ {0} /\ k \in DOMAIN mail[j] /\ mail'[j][k] = mail[j][k]
  BY <1>2, <1>3
<1>4. ASSUME NEW k \in DOMAIN mail'[i]
      PROVE  k \in Nat \ {0}
  BY <1>2
<1> QED
  BY <1>2, <1>3, <1>4

LEMMA PlacesTaken ==
  ASSUME MailTypeOK, AdaptersTypeOK, Places, Still, NEW i \in Interface, Took(i), Runs(i),
         \A j \in Interface : DOMAIN members'[j] \subseteq 1 .. generation
  PROVE  Places'
<1> DEFINE From(j, k) == IF j = i THEN k + 1 ELSE k
           Starting(m) == m.op = "start"
<1>1. \A j \in Interface : \A k \in DOMAIN mail'[j] :
        k \in Nat \ {0} /\ From(j, k) \in DOMAIN mail[j] /\ mail'[j][k] = mail[j][From(j, k)]
  BY TookCame
<1>2. 1 \in DOMAIN mail[i]
  BY TookCame
<1>3. MessagesInUse'
  BY <1>1 DEF Places, MessagesInUse, Still
<1>4. Starting(mail[i][1]) =>
        mail[i][1].of \in 2 .. mSessionIdCounter /\ mail[i][1].gen \in 1 .. generation /\ i \in loaded
        /\ i # "geofence"
  BY <1>2, MessageAt DEF Places, MessagesInUse, InUse, ClientMessage
<1>5. RunningInUse'
  <2> SUFFICES ASSUME NEW j \in Interface, NEW r \in running'[j]
               PROVE  r[2] \in 2 .. mSessionIdCounter /\ r[1] \in 1 .. generation /\ j \in loaded
                      /\ j # "geofence"
    BY DEF RunningInUse, Still
  <2>1. CASE r \in running[j]
    BY <2>1 DEF Places, RunningInUse
  <2>2. CASE j = i /\ Starting(mail[i][1]) /\ r = <<mail[i][1].gen, mail[i][1].of>>
    BY <1>4, <2>2
  <2> QED
    BY <2>1, <2>2 DEF Runs
<1>6. StartsOnce'
  <2> SUFFICES ASSUME NEW j \in Interface, NEW h \in Interface,
                      NEW k \in DOMAIN mail'[j], NEW l \in DOMAIN mail'[h],
                      Starting(mail'[j][k]), Starting(mail'[h][l]), mail'[j][k].of = mail'[h][l].of
               PROVE  j = h /\ k = l
    BY DEF StartsOnce
  <2>1. j = h /\ From(j, k) = From(h, l)
    <3> HIDE DEF From
    <3> QED
      BY <1>1 DEF Places, StartsOnce
  <2> QED
    BY <1>1, <2>1
<1>7. StartsBeforeRuns'
  <2> SUFFICES ASSUME NEW j \in Interface, NEW h \in Interface,
                      NEW k \in DOMAIN mail'[j], NEW r \in running'[h],
                      Starting(mail'[j][k]), mail'[j][k].of = r[2]
               PROVE  FALSE
    BY DEF StartsBeforeRuns
  <2>1. CASE r \in running[h]
    <3> HIDE DEF From
    <3> QED
      BY <1>1, <2>1 DEF Places, StartsBeforeRuns
  <2>2. CASE Starting(mail[i][1]) /\ r = <<mail[i][1].gen, mail[i][1].of>>
    <3>1. r[2] = mail[i][1].of
      BY <2>2
    <3>2. j = i /\ From(j, k) = 1
      <4> HIDE DEF From
      <4> QED
        BY <1>1, <1>2, <2>2, <3>1 DEF Places, StartsOnce
    <3> QED
      BY <1>1, <3>2
  <2> QED
    BY <2>1, <2>2 DEF Runs
<1>8. RunsOnce'
  <2> SUFFICES ASSUME NEW j \in Interface, NEW h \in Interface,
                      NEW r \in running'[j], NEW q \in running'[h], r[2] = q[2]
               PROVE  j = h /\ r = q
    BY DEF RunsOnce
  <2> DEFINE new == <<mail[i][1].gen, mail[i][1].of>>
  <2>1. CASE r \in running[j] /\ q \in running[h]
    BY <2>1 DEF Places, RunsOnce
  <2>2. CASE j = i /\ Starting(mail[i][1]) /\ r = new /\ h = i /\ q = new
    BY <2>2
  <2>3. CASE Starting(mail[i][1]) /\ r = new /\ q \in running[h]
    BY <1>2, <2>3 DEF Places, StartsBeforeRuns
  <2>4. CASE Starting(mail[i][1]) /\ q = new /\ r \in running[j]
    BY <1>2, <2>4 DEF Places, StartsBeforeRuns
  <2> QED
    BY <2>1, <2>2, <2>3, <2>4 DEF Runs
<1> QED
  BY <1>3, <1>5, <1>6, <1>7, <1>8 DEF Places

LEMMA PlacesStay ==
  ASSUME Places, Still, UNCHANGED mail, \A j \in Interface : running'[j] \subseteq running[j],
         UNCHANGED members
  PROVE  Places'
BY DEF Places, MessagesInUse, RunningInUse, StartsOnce, StartsBeforeRuns, RunsOnce, Still

-----------------------------------------------------------------------------
(* The messages that end a session, or that remove a client.               *)
LeavesAfter(i, k, g) == \E l \in DOMAIN mail[i] : k < l /\ RemovesClient(mail[i][l], g)
StoppedAfter(i, k, g, s) == \E l \in DOMAIN mail[i] : k < l /\ EndsSession(mail[i][l], g, s)

LEMMA EndingsPosted ==
  ASSUME MailTypeOK, NEW A, NEW B, NEW a, NEW b, Posts(A, a, B, b),
         NEW i \in Interface, NEW k, NEW g, NEW s
  PROVE  /\ LeavesAfter(i, k, g) => LeavesAfter(i, k, g)'
         /\ StoppedAfter(i, k, g, s) => StoppedAfter(i, k, g, s)'
<1>1. a \in ClientMessage /\ b \in ClientMessage /\ mail' = Posted(Posted(mail, A, a), B, b)
  BY DEF Posts
<1>2. Longer(i, A, a, B, b)
  BY <1>1, PostedIs
<1> DEFINE n == Len(mail[i])
           m == Len(mail'[i])
<1>3. /\ n \in Nat /\ DOMAIN mail[i] = 1 .. n /\ DOMAIN mail'[i] = 1 .. m
      /\ m = n + (IF i \in A THEN 1 ELSE 0) + (IF i \in B THEN 1 ELSE 0)
      /\ \A l \in DOMAIN mail[i] : mail'[i][l] = mail[i][l]
  BY <1>2 DEF Longer
<1> HIDE DEF n, m
<1>4. \A l \in DOMAIN mail[i] : l \in DOMAIN mail'[i] /\ mail'[i][l] = mail[i][l]
  <2>1. m \in Nat /\ n <= m
    BY <1>3
  <2> QED
    BY <1>3, <2>1
<1> QED
  BY <1>4 DEF LeavesAfter, StoppedAfter

LEMMA EndingsTaken ==
  ASSUME MailTypeOK, NEW i \in Interface, Took(i), NEW j \in Interface, NEW k \in Nat, NEW g, NEW s
  PROVE  /\ j # i => (LeavesAfter(j, k, g)' <=> LeavesAfter(j, k, g))
         /\ j # i => (StoppedAfter(j, k, g, s)' <=> StoppedAfter(j, k, g, s))
         /\ LeavesAfter(i, k + 1, g) => LeavesAfter(i, k, g)'
         /\ StoppedAfter(i, k + 1, g, s) => StoppedAfter(i, k, g, s)'
         /\ LeavesAfter(i, 0, g) => RemovesClient(mail[i][1], g) \/ LeavesAfter(i, 1, g)
         /\ StoppedAfter(i, 0, g, s) => EndsSession(mail[i][1], g, s) \/ StoppedAfter(i, 1, g, s)
<1>1. mail[i] # << >> /\ mail' = [mail EXCEPT ![i] = Tail(@)]
  BY DEF Took
<1>2. /\ 1 \in DOMAIN mail[i]
      /\ \A h \in Interface : h # i => mail'[h] = mail[h]
      /\ \A h \in Interface : DOMAIN mail[h] = 1 .. Len(mail[h]) /\ Len(mail[h]) \in Nat
      /\ DOMAIN mail'[i] = 1 .. Len(mail[i]) - 1
      /\ \A l \in DOMAIN mail'[i] : l + 1 \in DOMAIN mail[i] /\ mail'[i][l] = mail[i][l + 1]
  BY <1>1, TakenIs
<1>3. ASSUME NEW l \in DOMAIN mail[i], k + 1 < l
      PROVE  l - 1 \in DOMAIN mail'[i] /\ k < l - 1 /\ mail'[i][l - 1] = mail[i][l]
  <2>1. l - 1 \in DOMAIN mail'[i] /\ k < l - 1 /\ (l - 1) + 1 = l
    BY <1>2, <1>3
  <2> QED
    BY <1>2, <2>1
<1>4. \A l \in DOMAIN mail[i] : l = 1 \/ 1 < l
  BY <1>2
<1>5. LeavesAfter(i, k + 1, g) => LeavesAfter(i, k, g)'
  BY <1>3 DEF LeavesAfter
<1>6. StoppedAfter(i, k + 1, g, s) => StoppedAfter(i, k, g, s)'
  BY <1>3 DEF StoppedAfter
<1> QED
  BY <1>2, <1>4, <1>5, <1>6 DEF LeavesAfter, StoppedAfter

(* What an interface that takes a message does with it.                    *)
MembersMove(i) ==
  LET m == mail[i][1]
  IN /\ \A j \in Interface : j # i => members'[j] = members[j]
     /\ m.op = "add" => DOMAIN members'[i] = DOMAIN members[i] \cup {m.gen}
     /\ m.op = "remove" => DOMAIN members'[i] = DOMAIN members[i] \ {m.gen}
     /\ m.op \notin {"add", "remove"} => members'[i] = members[i]
RunningMoves(i) ==
  LET m == mail[i][1]
  IN /\ \A j \in Interface : \A r \in running'[j] :
          \/ r \in running[j]
          \/ j = i /\ m.op = "start" /\ r = <<m.gen, m.of>> /\ m.gen \in DOMAIN members[i]
     /\ \A r \in running'[i] : EndsSession(m, r[1], r[2]) => r[2] \in seen'.refused
HistoryMoves ==
  /\ seen.refused \subseteq seen'.refused
  /\ seen'.joined = seen.joined /\ seen'.forsaken = seen.forsaken
  /\ seen'.overlapped = seen.overlapped /\ seen'.collided = seen.collided
Handled(i) ==
  /\ Took(i) /\ Still /\ MembersMove(i) /\ RunningMoves(i) /\ HistoryMoves
  /\ UNCHANGED <<callbacks, mTracking, mSessionBiDict, calling>>
  /\ \A t \in RequestType : mRequestQueues'[t].session = mRequestQueues[t].session

-----------------------------------------------------------------------------
(* Who knows the client.                                                   *)
Joins(m, g) == m.op = "add" /\ m.gen = g
Here(g) == life = "live" /\ g = generation
JoinedKnown ==
  life = "live" => \A i \in Interface :
    generation \in DOMAIN members[i] \/ (\E k \in DOMAIN mail[i] : Joins(mail[i][k], generation))
      => i \in seen.joined
RunnersRegistered ==
  life = "live" => \A i \in Interface : \A r \in running[i] :
    r[1] = generation => generation \in DOMAIN members[i]
MembersLeave ==
  ~seen.forsaken => \A i \in Interface :
    /\ \A g \in DOMAIN members[i] : Here(g) \/ LeavesAfter(i, 0, g)
    /\ \A k \in DOMAIN mail[i] : \A g : Joins(mail[i][k], g) => Here(g) \/ LeavesAfter(i, k, g)
Membership == JoinedKnown /\ RunnersRegistered /\ MembersLeave

LEMMA MembershipTaken ==
  ASSUME MailTypeOK, AdaptersTypeOK, Places, Membership, NEW i \in Interface, Handled(i)
  PROVE  Membership'
<1> DEFINE head == mail[i][1]
<1>1. Took(i) /\ 1 \in DOMAIN mail[i] /\ UNCHANGED <<generation, life>>
  BY TookCame DEF Handled, Still
<1>2. \A j \in Interface : \A k \in DOMAIN mail'[j] :
        /\ k \in Nat \ {0}
        /\ j # i => k \in DOMAIN mail[j] /\ mail'[j][k] = mail[j][k]
        /\ j = i => k + 1 \in DOMAIN mail[i] /\ mail'[i][k] = mail[i][k + 1]
  BY <1>1, TookCame
<1>3. head.op = "remove" /\ head.gen = generation => life # "live"
  BY <1>1 DEF Places, MessagesInUse, InUse
<1>4. MembersMove(i) /\ RunningMoves(i) /\ seen'.joined = seen.joined /\ seen'.forsaken = seen.forsaken
  BY DEF Handled, HistoryMoves
<1>5. JoinedKnown'
  <2> SUFFICES ASSUME life = "live", NEW j \in Interface,
                      generation \in DOMAIN members'[j]
                        \/ (\E k \in DOMAIN mail'[j] : Joins(mail'[j][k], generation))
               PROVE  j \in seen.joined
    BY <1>1, <1>4 DEF JoinedKnown
  <2>1. CASE \E k \in DOMAIN mail'[j] : Joins(mail'[j][k], generation)
    BY <1>2, <2>1 DEF Membership, JoinedKnown
  <2>2. CASE generation \in DOMAIN members[j]
    BY <2>2 DEF Membership, JoinedKnown
  <2>3. CASE j = i /\ Joins(head, generation)
    BY <1>1, <2>3 DEF Membership, JoinedKnown
  <2> QED
    BY <1>4, <2>1, <2>2, <2>3 DEF MembersMove, Joins
<1>6. RunnersRegistered'
  <2> SUFFICES ASSUME life = "live", NEW j \in Interface, NEW r \in running'[j], r[1] = generation
               PROVE  generation \in DOMAIN members'[j]
    BY <1>1 DEF RunnersRegistered
  <2>1. generation \in DOMAIN members[j]
    BY <1>4 DEF RunningMoves, Membership, RunnersRegistered
  <2> QED
    BY <1>3, <1>4, <2>1 DEF MembersMove
<1>7. ASSUME NEW g, NEW s, NEW j \in Interface, NEW k \in Nat
      PROVE  /\ j # i => (LeavesAfter(j, k, g)' <=> LeavesAfter(j, k, g))
             /\ LeavesAfter(i, k + 1, g) => LeavesAfter(i, k, g)'
             /\ LeavesAfter(i, 0, g) => RemovesClient(mail[i][1], g) \/ LeavesAfter(i, 1, g)
  BY <1>1, EndingsTaken
<1>8. MembersLeave'
  <2> SUFFICES ASSUME ~seen.forsaken, NEW j \in Interface
               PROVE  /\ \A g \in DOMAIN members'[j] : Here(g)' \/ LeavesAfter(j, 0, g)'
                      /\ \A k \in DOMAIN mail'[j] : \A g :
                           Joins(mail'[j][k], g) => Here(g)' \/ LeavesAfter(j, k, g)'
    BY <1>4 DEF MembersLeave
  <2>0. \A g : Here(g)' <=> Here(g)
    BY <1>1 DEF Here
  <2>1. ASSUME NEW g \in DOMAIN members'[j]
        PROVE  Here(g)' \/ LeavesAfter(j, 0, g)'
    <3>1. CASE j = i /\ head.op = "add" /\ g = head.gen
      <4>1. Here(g) \/ LeavesAfter(i, 1, g)
        BY <1>1, <3>1 DEF Membership, MembersLeave, Joins
      <4> QED
        BY <1>7, <2>0, <3>1, <4>1
    <3>2. CASE g \in DOMAIN members[j] /\ ~(j = i /\ RemovesClient(head, g))
      <4>1. Here(g) \/ LeavesAfter(j, 0, g)
        BY <3>2 DEF Membership, MembersLeave
      <4>2. ASSUME j = i, LeavesAfter(i, 0, g)
            PROVE  LeavesAfter(i, 0, g)'
        BY <1>7, <3>2, <4>2
      <4> QED
        BY <1>7, <2>0, <4>1, <4>2
    <3> QED
      BY <1>4, <3>1, <3>2 DEF MembersMove, RemovesClient
  <2>2. ASSUME NEW k \in DOMAIN mail'[j], NEW g, Joins(mail'[j][k], g)
        PROVE  Here(g)' \/ LeavesAfter(j, k, g)'
    <3>1. CASE j = i
      <4>1. Here(g) \/ LeavesAfter(i, k + 1, g)
        BY <1>2, <2>2, <3>1 DEF Membership, MembersLeave
      <4>2. k \in Nat
        BY <1>2
      <4>3. LeavesAfter(i, k + 1, g) => LeavesAfter(i, k, g)'
        BY <1>7, <4>2
      <4> QED
        BY <2>0, <3>1, <4>1, <4>3
    <3>2. CASE j # i
      <4>1. Here(g) \/ LeavesAfter(j, k, g)
        BY <1>2, <2>2, <3>2 DEF Membership, MembersLeave
      <4>2. k \in Nat
        BY <1>2
      <4>3. LeavesAfter(j, k, g) => LeavesAfter(j, k, g)'
        BY <1>7, <3>2, <4>2
      <4> QED
        BY <2>0, <4>1, <4>3
    <3> QED
      BY <3>1, <3>2
  <2> QED
    BY <2>1, <2>2
<1> QED
  BY <1>5, <1>6, <1>8 DEF Membership

LEMMA PostedArrive ==
  ASSUME MailTypeOK, NEW A, NEW B, NEW a, NEW b, Posts(A, a, B, b), NEW i \in Interface
  PROVE  \A k \in DOMAIN mail[i] \cup {0} :
           /\ i \in A => \E l \in DOMAIN mail'[i] : k < l /\ mail'[i][l] = a
           /\ i \in B => \E l \in DOMAIN mail'[i] : k < l /\ mail'[i][l] = b
<1> DEFINE n == Len(mail[i])
           m == Len(mail'[i])
<1>1. a \in ClientMessage /\ b \in ClientMessage /\ mail' = Posted(Posted(mail, A, a), B, b)
  BY DEF Posts
<1>2. Longer(i, A, a, B, b)
  BY <1>1, PostedIs
<1>3. /\ n \in Nat /\ DOMAIN mail[i] = 1 .. n /\ DOMAIN mail'[i] = 1 .. m
      /\ m = n + (IF i \in A THEN 1 ELSE 0) + (IF i \in B THEN 1 ELSE 0)
      /\ i \in A => mail'[i][n + 1] = a
      /\ i \in B => mail'[i][m] = b
  BY <1>2 DEF Longer
<1> HIDE DEF n, m
<1> TAKE k \in DOMAIN mail[i] \cup {0}
<1>4. k \in 0 .. n
  BY <1>3
<1>5. CASE i \in A
  <2>1. n + 1 \in DOMAIN mail'[i] /\ k < n + 1
    BY <1>3, <1>4, <1>5
  <2>2. i \in B => m \in DOMAIN mail'[i] /\ k < m
    BY <1>3, <1>4, <1>5
  <2> QED
    BY <1>3, <2>1, <2>2
<1>6. CASE i \notin A
  <2>1. i \in B => m \in DOMAIN mail'[i] /\ k < m
    BY <1>3, <1>4, <1>6
  <2> QED
    BY <1>3, <1>6, <2>1
<1> QED
  BY <1>5, <1>6

(* What a call owes the interfaces that the client has joined.             *)
JoinsOwed(A, a, B, b) ==
  /\ b.op # "add" /\ (a.op = "add" => Here(a.gen)')
  /\ life' = "live" => \A i \in Interface :
       (life = "live" /\ generation' = generation /\ i \in seen.joined)
         \/ (i \in A /\ Joins(a, generation'))
         => i \in seen'.joined
  /\ ~seen'.forsaken => ~seen.forsaken
  /\ ~seen'.forsaken => \A i \in Interface : \A g :
       Here(g) /\ i \in seen.joined => Here(g)' \/ (i \in A /\ RemovesClient(a, g))

LEMMA MembershipPosted ==
  ASSUME MailTypeOK, AdaptersTypeOK, Places, Membership, Grows, generation \in Nat,
         NEW A, NEW B, NEW a, NEW b, Posts(A, a, B, b), JoinsOwed(A, a, B, b)
  PROVE  Membership'
<1>1. \A i \in Interface : \A k \in DOMAIN mail'[i] : k \in Nat /\ Came(i, k, A, a, B, b)
  BY PostedCame
<1>2. UNCHANGED <<members, running>>
  BY DEF Posts, adapters
<1>3. /\ generation' \in Nat /\ generation <= generation'
      /\ life' = "live" /\ generation' = generation => life = "live"
  BY DEF Grows
<1>4. \A i \in Interface : \A k \in DOMAIN mail[i] : mail[i][k].gen \in 1 .. generation
  BY DEF Places, MessagesInUse, InUse
<1>5. \A i \in Interface : DOMAIN members[i] \subseteq 1 .. generation
                           /\ \A r \in running[i] : r[1] \in 1 .. generation
  BY DEF Places, RunningInUse
<1>6. JoinedKnown'
  <2> SUFFICES ASSUME life' = "live", NEW i \in Interface,
                      generation' \in DOMAIN members[i]
                        \/ (\E k \in DOMAIN mail'[i] : Joins(mail'[i][k], generation'))
               PROVE  i \in seen'.joined
    BY <1>2 DEF JoinedKnown
  <2>1. CASE generation' \in DOMAIN members[i]
                \/ (\E k \in DOMAIN mail[i] : Joins(mail[i][k], generation'))
    <3>1. generation' \in 1 .. generation
      BY <1>4, <1>5, <2>1 DEF Joins
    <3>2. generation' = generation /\ life = "live"
      BY <1>3, <3>1
    <3>3. i \in seen.joined
      BY <2>1, <3>2 DEF Membership, JoinedKnown
    <3> QED
      BY <3>2, <3>3 DEF JoinsOwed
  <2>2. CASE i \in A /\ Joins(a, generation')
    BY <2>2 DEF JoinsOwed
  <2> QED
    BY <1>1, <2>1, <2>2 DEF Came, Joins, JoinsOwed
<1>7. RunnersRegistered'
  <2> SUFFICES ASSUME life' = "live", NEW i \in Interface, NEW r \in running[i], r[1] = generation'
               PROVE  generation' \in DOMAIN members[i]
    BY <1>2 DEF RunnersRegistered
  <2>1. generation' = generation /\ life = "live"
    BY <1>3, <1>5
  <2> QED
    BY <2>1 DEF Membership, RunnersRegistered
<1>8. MembersLeave'
  <2> SUFFICES ASSUME ~seen'.forsaken, NEW i \in Interface
               PROVE  /\ \A g \in DOMAIN members[i] : Here(g)' \/ LeavesAfter(i, 0, g)'
                      /\ \A k \in DOMAIN mail'[i] : \A g :
                           Joins(mail'[i][k], g) => Here(g)' \/ LeavesAfter(i, k, g)'
    BY <1>2 DEF MembersLeave
  <2>0. ~seen.forsaken
    BY DEF JoinsOwed
  <2>1. ASSUME NEW g, NEW k \in DOMAIN mail[i] \cup {0}, Here(g) => i \in seen.joined,
               Here(g) \/ LeavesAfter(i, k, g)
        PROVE  Here(g)' \/ LeavesAfter(i, k, g)'
    <3>1. LeavesAfter(i, k, g) => LeavesAfter(i, k, g)'
      BY EndingsPosted
    <3>2. CASE i \in A /\ RemovesClient(a, g)
      <4>1. \E l \in DOMAIN mail'[i] : k < l /\ mail'[i][l] = a
        BY <3>2, PostedArrive
      <4> QED
        BY <3>2, <4>1 DEF LeavesAfter
    <3> QED
      BY <2>1, <3>1, <3>2 DEF JoinsOwed
  <2>2. ASSUME NEW g \in DOMAIN members[i]
        PROVE  Here(g)' \/ LeavesAfter(i, 0, g)'
    <3>1. Here(g) \/ LeavesAfter(i, 0, g)
      BY <2>0 DEF Membership, MembersLeave
    <3>2. Here(g) => i \in seen.joined
      BY DEF Here, Membership, JoinedKnown
    <3> QED
      BY <2>1, <3>1, <3>2
  <2>3. ASSUME NEW k \in DOMAIN mail'[i], NEW g, Joins(mail'[i][k], g)
        PROVE  Here(g)' \/ LeavesAfter(i, k, g)'
    <3>1. CASE k \in DOMAIN mail[i] /\ mail'[i][k] = mail[i][k]
      <4>1. Here(g) \/ LeavesAfter(i, k, g)
        BY <2>0, <2>3, <3>1 DEF Membership, MembersLeave
      <4>2. Here(g) => i \in seen.joined
        BY <2>3, <3>1 DEF Here, Membership, JoinedKnown
      <4> QED
        BY <2>1, <3>1, <4>1, <4>2
    <3>2. CASE mail'[i][k] = a
      BY <2>3, <3>2 DEF JoinsOwed, Joins
    <3> QED
      BY <1>1, <2>3, <3>1, <3>2 DEF Came, Joins, JoinsOwed
  <2> QED
    BY <2>2, <2>3
<1> QED
  BY <1>6, <1>7, <1>8 DEF Membership

LEMMA MembershipStay ==
  ASSUME Membership, Still, UNCHANGED <<mail, members>>,
         \A j \in Interface : running'[j] \subseteq running[j],
         seen'.joined = seen.joined, seen'.forsaken = seen.forsaken
  PROVE  Membership'
<1>1. JoinedKnown'
  BY DEF Membership, JoinedKnown, Still
<1>2. RunnersRegistered'
  BY DEF Membership, RunnersRegistered, Still
<1>3. MembersLeave'
  BY DEF Membership, MembersLeave, Still, Here, LeavesAfter
<1> QED
  BY <1>1, <1>2, <1>3 DEF Membership

-----------------------------------------------------------------------------
(* A session that starts or runs is known to its client, or it is ended by *)
(* a message behind it, or excused.                                        *)
Known(s) == mRequestQueues["tracking"].session = s \/ HasSession(mSessionBiDict, s)
KnownHere(g, s) == Here(g) /\ Known(s)
Excused(s) == s \in seen.refused \/ seen.forsaken \/ seen.overlapped
StartsIt(m, g, s) == m.op = "start" /\ m.gen = g /\ m.of = s
Welcome(i, k, g) ==
  g \in DOMAIN members[i] \/ \E l \in DOMAIN mail[i] : l < k /\ Joins(mail[i][l], g)
RunsAreKept ==
  \A i \in Interface : \A g, s : <<g, s>> \in running[i] =>
    KnownHere(g, s) \/ StoppedAfter(i, 0, g, s) \/ Excused(s)
StartsAreKept ==
  \A i \in Interface : \A k \in DOMAIN mail[i] : \A g, s :
    StartsIt(mail[i][k], g, s) /\ Welcome(i, k, g) =>
      KnownHere(g, s) \/ StoppedAfter(i, k, g, s) \/ Excused(s)

(* A tracking session that the client has stopped is ended already.        *)
EndsFirst(g, s) ==
  \A i \in Interface :
    /\ \A k \in DOMAIN mail[i] : StartsIt(mail[i][k], g, s) => StoppedAfter(i, k, g, s)
    /\ <<g, s>> \in running[i] => StoppedAfter(i, 0, g, s) \/ s \in seen.refused
Halted(s) == ~mTracking /\ mRequestQueues["tracking"].session = s
StoppedFirst == \A g, s : Here(g) /\ Halted(s) => EndsFirst(g, s)

LEMMA KeptTaken ==
  ASSUME MailTypeOK, AdaptersTypeOK, Places, RunsAreKept, StartsAreKept, StoppedFirst,
         NEW i \in Interface, Handled(i)
  PROVE  RunsAreKept' /\ StartsAreKept' /\ StoppedFirst'
<1> DEFINE head == mail[i][1]
<1>1. Took(i) /\ 1 \in DOMAIN mail[i] /\ UNCHANGED <<generation, life, mSessionBiDict, mTracking>>
  BY TookCame DEF Handled, Still
<1>2. \A j \in Interface : \A k \in DOMAIN mail'[j] :
        /\ k \in Nat \ {0}
        /\ j # i => k \in DOMAIN mail[j] /\ mail'[j][k] = mail[j][k]
        /\ j = i => k + 1 \in DOMAIN mail[i] /\ mail'[i][k] = mail[i][k + 1]
  BY <1>1, TookCame
<1>3. mRequestQueues'["tracking"].session = mRequestQueues["tracking"].session
  BY DEF Handled, RequestType
<1>4. MembersMove(i) /\ RunningMoves(i) /\ HistoryMoves
  BY DEF Handled
<1>5. \A g, s : KnownHere(g, s) => KnownHere(g, s)'
  BY <1>1, <1>3 DEF KnownHere, Known, Here
<1>6. \A s : Excused(s) => Excused(s)'
  BY <1>4 DEF Excused, HistoryMoves
<1>7. ASSUME NEW g, NEW s, NEW j \in Interface, NEW k \in Nat
      PROVE  /\ j # i => (StoppedAfter(j, k, g, s)' <=> StoppedAfter(j, k, g, s))
             /\ StoppedAfter(i, k + 1, g, s) => StoppedAfter(i, k, g, s)'
             /\ StoppedAfter(i, 0, g, s) => EndsSession(mail[i][1], g, s) \/ StoppedAfter(i, 1, g, s)
  BY <1>1, EndingsTaken
<1>8. ASSUME NEW j \in Interface, NEW g, NEW s, <<g, s>> \in running'[j], StoppedAfter(j, 0, g, s)
      PROVE  StoppedAfter(j, 0, g, s)' \/ s \in seen'.refused
  <2>1. CASE j = i
    <3>1. CASE EndsSession(mail[i][1], g, s)
      BY <1>4, <1>8, <2>1, <3>1 DEF RunningMoves
    <3>2. CASE StoppedAfter(i, 1, g, s)
      <4>1. 0 \in Nat /\ 0 + 1 = 1
        OBVIOUS
      <4> QED
        BY <1>7, <2>1, <3>2, <4>1
    <3> QED
      BY <1>7, <1>8, <2>1, <3>1, <3>2
  <2>2. CASE j # i
    BY <1>7, <1>8, <2>2
  <2> QED
    BY <2>1, <2>2
<1>9. ASSUME NEW j \in Interface, NEW k \in DOMAIN mail'[j], NEW g, Welcome(j, k, g)'
      PROVE  /\ j = i => Welcome(i, k + 1, g)
             /\ j # i => Welcome(j, k, g)
  <2>1. CASE j = i
    <3>1. CASE g \in DOMAIN members'[i]
      <4>1. CASE g \in DOMAIN members[i]
        BY <2>1, <4>1 DEF Welcome
      <4>2. CASE head.op = "add" /\ g = head.gen
        <5>1. 1 < k + 1
          BY <1>2
        <5> QED
          BY <1>1, <2>1, <4>2, <5>1 DEF Welcome, Joins
      <4> QED
        BY <1>4, <3>1, <4>1, <4>2 DEF MembersMove
    <3>2. CASE \E l \in DOMAIN mail'[i] : l < k /\ Joins(mail'[i][l], g)
      <4>1. PICK l \in DOMAIN mail'[i] : l < k /\ Joins(mail'[i][l], g)
        BY <3>2
      <4>2. l + 1 \in DOMAIN mail[i] /\ Joins(mail[i][l + 1], g) /\ l + 1 < k + 1
        BY <1>2, <2>1, <4>1
      <4> QED
        BY <2>1, <4>2 DEF Welcome
    <3> QED
      BY <1>9, <2>1, <3>1, <3>2 DEF Welcome
  <2>2. CASE j # i
    BY <1>2, <1>4, <1>9, <2>2 DEF Welcome, MembersMove
  <2> QED
    BY <2>1, <2>2
<1>10. RunsAreKept'
  <2> SUFFICES ASSUME NEW j \in Interface, NEW g, NEW s, <<g, s>> \in running'[j]
               PROVE  KnownHere(g, s)' \/ StoppedAfter(j, 0, g, s)' \/ Excused(s)'
    BY DEF RunsAreKept
  <2>1. CASE <<g, s>> \in running[j]
    <3>1. KnownHere(g, s) \/ StoppedAfter(j, 0, g, s) \/ Excused(s)
      BY <2>1 DEF RunsAreKept
    <3> QED
      BY <1>5, <1>6, <1>8, <3>1 DEF Excused
  <2>2. CASE j = i /\ head.op = "start" /\ <<g, s>> = <<head.gen, head.of>> /\ head.gen \in DOMAIN members[i]
    <3>1. StartsIt(mail[i][1], g, s) /\ Welcome(i, 1, g)
      BY <2>2 DEF StartsIt, Welcome
    <3>2. KnownHere(g, s) \/ StoppedAfter(i, 1, g, s) \/ Excused(s)
      BY <1>1, <3>1 DEF StartsAreKept
    <3>3. StoppedAfter(i, 1, g, s) => StoppedAfter(i, 0, g, s)'
      <4>1. 0 \in Nat /\ 0 + 1 = 1
        OBVIOUS
      <4> QED
        BY <1>7, <4>1
    <3> QED
      BY <1>5, <1>6, <2>2, <3>2, <3>3
  <2> QED
    BY <1>4, <2>1, <2>2 DEF RunningMoves
<1>11. ASSUME NEW j \in Interface, NEW k \in DOMAIN mail'[j], NEW g, NEW s
       PROVE  /\ j = i /\ StoppedAfter(i, k + 1, g, s) => StoppedAfter(j, k, g, s)'
              /\ j # i /\ StoppedAfter(j, k, g, s) => StoppedAfter(j, k, g, s)'
  <2>1. k \in Nat
    BY <1>2
  <2> QED
    BY <1>7, <2>1
<1>12. StartsAreKept'
  <2> SUFFICES ASSUME NEW j \in Interface, NEW k \in DOMAIN mail'[j], NEW g, NEW s,
                      StartsIt(mail'[j][k], g, s), Welcome(j, k, g)'
               PROVE  KnownHere(g, s)' \/ StoppedAfter(j, k, g, s)' \/ Excused(s)'
    BY DEF StartsAreKept
  <2>1. CASE j = i
    <3>1. KnownHere(g, s) \/ StoppedAfter(i, k + 1, g, s) \/ Excused(s)
      BY <1>2, <1>9, <2>1 DEF StartsAreKept
    <3> QED
      BY <1>5, <1>6, <1>11, <2>1, <3>1
  <2>2. CASE j # i
    <3>1. KnownHere(g, s) \/ StoppedAfter(j, k, g, s) \/ Excused(s)
      BY <1>2, <1>9, <2>2 DEF StartsAreKept
    <3> QED
      BY <1>5, <1>6, <1>11, <2>2, <3>1
  <2> QED
    BY <2>1, <2>2
<1>13. StoppedFirst'
  <2> SUFFICES ASSUME NEW g, NEW s, Here(g), Halted(s), NEW j \in Interface
               PROVE  /\ \A k \in DOMAIN mail'[j] :
                           StartsIt(mail'[j][k], g, s) => StoppedAfter(j, k, g, s)'
                      /\ <<g, s>> \in running'[j] => StoppedAfter(j, 0, g, s)' \/ s \in seen'.refused
    BY <1>1, <1>3 DEF StoppedFirst, EndsFirst, Here, Halted
  <2>1. EndsFirst(g, s)
    BY DEF StoppedFirst
  <2>2. ASSUME NEW k \in DOMAIN mail'[j], StartsIt(mail'[j][k], g, s)
        PROVE  StoppedAfter(j, k, g, s)'
    <3>1. CASE j = i
      <4>1. StoppedAfter(i, k + 1, g, s)
        BY <1>2, <2>1, <2>2, <3>1 DEF EndsFirst
      <4> QED
        BY <1>11, <3>1, <4>1
    <3>2. CASE j # i
      <4>1. StoppedAfter(j, k, g, s)
        BY <1>2, <2>1, <2>2, <3>2 DEF EndsFirst
      <4> QED
        BY <1>11, <3>2, <4>1
    <3> QED
      BY <3>1, <3>2
  <2>3. ASSUME <<g, s>> \in running'[j]
        PROVE  StoppedAfter(j, 0, g, s)' \/ s \in seen'.refused
    <3>1. CASE <<g, s>> \in running[j]
      <4>1. StoppedAfter(j, 0, g, s) \/ s \in seen.refused
        BY <2>1, <3>1 DEF EndsFirst
      <4> QED
        BY <1>4, <1>8, <2>3, <4>1 DEF HistoryMoves
    <3>2. CASE j = i /\ StartsIt(head, g, s)
      <4>1. StoppedAfter(i, 1, g, s)
        BY <1>1, <2>1, <3>2 DEF EndsFirst
      <4>2. 0 \in Nat /\ 0 + 1 = 1
        OBVIOUS
      <4> QED
        BY <1>7, <3>2, <4>1, <4>2
    <3> QED
      BY <1>4, <2>3, <3>1, <3>2 DEF RunningMoves, StartsIt
  <2> QED
    BY <2>2, <2>3
<1> QED
  BY <1>10, <1>12, <1>13

(* What a call owes the sessions that are under way.                       *)
EndedBy(i, g, s, A, a, B, b) == (i \in A /\ EndsSession(a, g, s)) \/ (i \in B /\ EndsSession(b, g, s))
UnderWay(i, g, s) == <<g, s>> \in running[i] \/ \E k \in DOMAIN mail[i] : StartsIt(mail[i][k], g, s)
Arrives(i, g, s) ==
  <<g, s>> \in running[i] \/ \E k \in DOMAIN mail[i] : StartsIt(mail[i][k], g, s) /\ Welcome(i, k, g)
SessionsOwed(A, a, B, b) ==
  /\ seen.refused \subseteq seen'.refused /\ \A s : Excused(s) => Excused(s)'
  /\ \A g, s : StartsIt(b, g, s) => KnownHere(g, s)'
  /\ \A i \in Interface : \A g, s : KnownHere(g, s) /\ Arrives(i, g, s) =>
       \/ KnownHere(g, s)' \/ EndedBy(i, g, s, A, a, B, b) \/ Excused(s)'
       \/ EndsFirst(g, s)
  /\ \A g, s : Here(g)' /\ Halted(s)' =>
       /\ B = {} \/ ~StartsIt(b, g, s)
       /\ \/ Here(g) /\ Halted(s)
          \/ \A i \in Interface : UnderWay(i, g, s) => EndedBy(i, g, s, A, a, B, b)

LEMMA KeptPosted ==
  ASSUME MailTypeOK, RunsAreKept, StartsAreKept, StoppedFirst,
         NEW A, NEW B, NEW a, NEW b, Posts(A, a, B, b), SessionsOwed(A, a, B, b)
  PROVE  RunsAreKept' /\ StartsAreKept' /\ StoppedFirst'
<1>1. \A i \in Interface : \A k \in DOMAIN mail'[i] : k \in Nat /\ Came(i, k, A, a, B, b)
  BY PostedCame
<1>2. UNCHANGED <<members, running>> /\ a.op # "start"
  BY DEF Posts, adapters
<1>3. \A i \in Interface : \A k, g, s : StoppedAfter(i, k, g, s) => StoppedAfter(i, k, g, s)'
  BY EndingsPosted
<1>4. ASSUME NEW i \in Interface, NEW k \in DOMAIN mail[i] \cup {0}, NEW g, NEW s,
             EndedBy(i, g, s, A, a, B, b)
      PROVE  StoppedAfter(i, k, g, s)'
  <2>1. CASE i \in A /\ EndsSession(a, g, s)
    <3>1. \E l \in DOMAIN mail'[i] : k < l /\ mail'[i][l] = a
      BY <2>1, PostedArrive
    <3> QED
      BY <2>1, <3>1 DEF StoppedAfter
  <2>2. CASE i \in B /\ EndsSession(b, g, s)
    <3>1. \E l \in DOMAIN mail'[i] : k < l /\ mail'[i][l] = b
      BY <2>2, PostedArrive
    <3> QED
      BY <2>2, <3>1 DEF StoppedAfter
  <2> QED
    BY <1>4, <2>1, <2>2 DEF EndedBy
<1>5. \A s : Excused(s) => Excused(s)'
  BY DEF SessionsOwed
<1>6. RunsAreKept'
  <2> SUFFICES ASSUME NEW i \in Interface, NEW g, NEW s, <<g, s>> \in running[i]
               PROVE  KnownHere(g, s)' \/ StoppedAfter(i, 0, g, s)' \/ Excused(s)'
    BY <1>2 DEF RunsAreKept
  <2>1. KnownHere(g, s) \/ StoppedAfter(i, 0, g, s) \/ Excused(s)
    BY DEF RunsAreKept
  <2>2. CASE KnownHere(g, s)
    <3>1. \/ KnownHere(g, s)' \/ EndedBy(i, g, s, A, a, B, b) \/ Excused(s)'
          \/ EndsFirst(g, s)
      BY <2>2 DEF SessionsOwed, Arrives
    <3>2. EndsFirst(g, s) => StoppedAfter(i, 0, g, s) \/ Excused(s)
      BY DEF EndsFirst, Excused
    <3> QED
      BY <1>3, <1>4, <1>5, <3>1, <3>2
  <2> QED
    BY <1>3, <1>5, <2>1, <2>2
<1>7. StartsAreKept'
  <2> SUFFICES ASSUME NEW i \in Interface, NEW k \in DOMAIN mail'[i], NEW g, NEW s,
                      StartsIt(mail'[i][k], g, s), Welcome(i, k, g)'
               PROVE  KnownHere(g, s)' \/ StoppedAfter(i, k, g, s)' \/ Excused(s)'
    BY DEF StartsAreKept
  <2>1. CASE k \in DOMAIN mail[i] /\ mail'[i][k] = mail[i][k]
    <3>1. Welcome(i, k, g)
      <4>1. CASE \E l \in DOMAIN mail'[i] : l < k /\ Joins(mail'[i][l], g)
        <5>1. PICK l \in DOMAIN mail'[i] : l < k /\ Joins(mail'[i][l], g)
          BY <4>1
        <5>2. l \in Nat /\ k \in Nat /\ Came(i, l, A, a, B, b)
          BY <1>1
        <5>3. l \in DOMAIN mail[i] /\ mail'[i][l] = mail[i][l]
          BY <2>1, <5>1, <5>2 DEF Came
        <5> QED
          BY <5>1, <5>3 DEF Welcome
      <4> QED
        BY <1>2, <4>1 DEF Welcome
    <3>2. KnownHere(g, s) \/ StoppedAfter(i, k, g, s) \/ Excused(s)
      BY <2>1, <3>1 DEF StartsAreKept
    <3>3. CASE KnownHere(g, s)
      <4>1. \/ KnownHere(g, s)' \/ EndedBy(i, g, s, A, a, B, b) \/ Excused(s)'
            \/ EndsFirst(g, s)
        BY <2>1, <3>1, <3>3 DEF SessionsOwed, Arrives
      <4>2. EndsFirst(g, s) => StoppedAfter(i, k, g, s)
        BY <2>1 DEF EndsFirst
      <4> QED
        BY <1>3, <1>4, <2>1, <4>1, <4>2
    <3> QED
      BY <1>3, <1>5, <3>2, <3>3
  <2>2. CASE mail'[i][k] = b
    BY <2>2 DEF SessionsOwed
  <2> QED
    BY <1>1, <1>2, <2>1, <2>2 DEF Came, StartsIt
<1>8. StoppedFirst'
  <2> SUFFICES ASSUME NEW g, NEW s, Here(g)', Halted(s)', NEW i \in Interface
               PROVE  /\ \A k \in DOMAIN mail'[i] :
                           StartsIt(mail'[i][k], g, s) => StoppedAfter(i, k, g, s)'
                      /\ <<g, s>> \in running[i] => StoppedAfter(i, 0, g, s)' \/ s \in seen'.refused
    BY <1>2 DEF StoppedFirst, EndsFirst
  <2>1. (UnderWay(i, g, s) => EndedBy(i, g, s, A, a, B, b)) \/ EndsFirst(g, s)
    BY DEF SessionsOwed, StoppedFirst
  <2>2. ASSUME NEW k \in DOMAIN mail'[i], StartsIt(mail'[i][k], g, s)
        PROVE  StoppedAfter(i, k, g, s)'
    <3>1. (i \in B => mail'[i][k] # b) /\ mail'[i][k] # a
      BY <1>2, <2>2 DEF SessionsOwed, StartsIt
    <3>2. k \in DOMAIN mail[i] /\ mail'[i][k] = mail[i][k]
      BY <1>1, <3>1 DEF Came
    <3>3. UnderWay(i, g, s) /\ (EndsFirst(g, s) => StoppedAfter(i, k, g, s))
      BY <2>2, <3>2 DEF UnderWay, EndsFirst
    <3> QED
      BY <1>3, <1>4, <2>1, <3>2, <3>3
  <2>3. ASSUME <<g, s>> \in running[i]
        PROVE  StoppedAfter(i, 0, g, s)' \/ s \in seen'.refused
    <3>1. UnderWay(i, g, s) /\ (EndsFirst(g, s) => StoppedAfter(i, 0, g, s) \/ s \in seen.refused)
      BY <2>3 DEF UnderWay, EndsFirst
    <3> QED
      BY <1>3, <1>4, <2>1, <3>1 DEF SessionsOwed
  <2> QED
    BY <2>2, <2>3
<1> QED
  BY <1>6, <1>7, <1>8

(* A session forgotten without a message was under way nowhere.            *)
LEMMA KeptStay ==
  ASSUME RunsAreKept, StartsAreKept, StoppedFirst, Still, UNCHANGED <<mail, members, mTracking>>,
         mRequestQueues'["tracking"].session = mRequestQueues["tracking"].session,
         \A j \in Interface : running'[j] \subseteq running[j],
         seen.refused \subseteq seen'.refused, \A s : Excused(s) => Excused(s)',
         \A g, s : KnownHere(g, s) =>
           KnownHere(g, s)' \/ Excused(s)'
           \/ \A i \in Interface : /\ <<g, s>> \notin running'[i]
                                   /\ \A k \in DOMAIN mail[i] : ~StartsIt(mail[i][k], g, s)
  PROVE  RunsAreKept' /\ StartsAreKept' /\ StoppedFirst'
<1>1. RunsAreKept'
  BY DEF RunsAreKept, StoppedAfter
<1>2. StartsAreKept'
  <2> SUFFICES ASSUME NEW i \in Interface, NEW k \in DOMAIN mail[i], NEW g, NEW s,
                      StartsIt(mail[i][k], g, s), Welcome(i, k, g)
               PROVE  KnownHere(g, s)' \/ StoppedAfter(i, k, g, s)' \/ Excused(s)'
    BY DEF StartsAreKept, Welcome
  <2>1. KnownHere(g, s) \/ StoppedAfter(i, k, g, s) \/ Excused(s)
    BY DEF StartsAreKept
  <2> QED
    BY <2>1 DEF StoppedAfter
<1>3. StoppedFirst'
  <2> SUFFICES ASSUME NEW g, NEW s, Here(g), Halted(s)
               PROVE  EndsFirst(g, s)'
    BY DEF StoppedFirst, Here, Halted, Still
  <2>1. EndsFirst(g, s)
    BY DEF StoppedFirst
  <2> QED
    BY <2>1 DEF EndsFirst, StoppedAfter
<1> QED
  BY <1>1, <1>2, <1>3

-----------------------------------------------------------------------------
(* The dictionary of sessions: the two directions agree, and what is kept  *)
(* with a session is of that session.  0 stands for no session.            *)
MatchedBy(d, s) ==
  SessionOf(d.ext[s]) = s /\ d.backward[s] \in DOMAIN d.forward /\ d.forward[d.backward[s]] = s
WellKept(d, last) ==
  /\ d = [forward |-> d.forward, backward |-> d.backward, ext |-> d.ext]
  /\ DOMAIN d.forward \subseteq Id /\ DOMAIN d.backward \subseteq 0 .. last
  /\ DOMAIN d.ext = DOMAIN d.backward
  /\ \A s \in DOMAIN d.backward : d.ext[s] \in Stored /\ (s > 0 => MatchedBy(d, s))
  /\ \A id \in DOMAIN d.forward :
       /\ d.forward[id] \in Nat
       /\ d.forward[id] > 0 =>
            d.forward[id] \in DOMAIN d.backward /\ d.backward[d.forward[id]] = id

LEMMA EmptyKept ==
  ASSUME NEW last
  PROVE  WellKept(EmptyDict, last)
BY DEF WellKept, EmptyDict

LEMMA LaterKept ==
  ASSUME NEW d, NEW last \in Nat, NEW later \in Nat, last <= later, WellKept(d, last)
  PROVE  WellKept(d, later)
BY DEF WellKept

LEMMA SetKept ==
  ASSUME NEW d, NEW last \in Nat, NEW id \in Id, NEW s \in 0 .. last, NEW e \in Stored,
         WellKept(d, last), id \notin DOMAIN d.forward, s = 0 \/ s \notin DOMAIN d.backward,
         SessionOf(e) = s
  PROVE  /\ WellKept(Set(d, id, s, e), last)
         /\ DOMAIN Set(d, id, s, e).backward = DOMAIN d.backward \cup {s}
         /\ Set(d, id, s, e).ext[s] = e
         /\ \A z \in DOMAIN d.backward \ {s} : Set(d, id, s, e).ext[z] = d.ext[z]
<1> DEFINE n == Set(d, id, s, e)
<1>1. /\ n = [forward |-> n.forward, backward |-> n.backward, ext |-> n.ext]
      /\ n.forward = Over([i \in {id} |-> s], d.forward)
      /\ n.backward = Over([i \in {s} |-> id], d.backward)
      /\ n.ext = Over([i \in {s} |-> e], d.ext)
  BY DEF Set
<1> HIDE DEF n
<1>2. /\ DOMAIN n.forward = DOMAIN d.forward \cup {id}
      /\ DOMAIN n.backward = DOMAIN d.backward \cup {s}
      /\ DOMAIN n.ext = DOMAIN d.ext \cup {s}
      /\ n.forward[id] = s /\ n.backward[s] = id /\ n.ext[s] = e
      /\ \A x \in DOMAIN d.forward : x # id => n.forward[x] = d.forward[x]
      /\ \A z \in DOMAIN d.backward : z # s => n.backward[z] = d.backward[z]
      /\ \A z \in DOMAIN d.ext : z # s => n.ext[z] = d.ext[z]
  BY <1>1 DEF Over
<1>3. /\ DOMAIN d.forward \subseteq Id /\ DOMAIN d.backward \subseteq 0 .. last
      /\ DOMAIN d.ext = DOMAIN d.backward
      /\ \A z \in DOMAIN d.backward : d.ext[z] \in Stored /\ (z > 0 => MatchedBy(d, z))
      /\ \A x \in DOMAIN d.forward :
           /\ d.forward[x] \in Nat
           /\ d.forward[x] > 0 => d.forward[x] \in DOMAIN d.backward /\ d.backward[d.forward[x]] = x
  BY DEF WellKept
<1>4. ASSUME NEW z \in DOMAIN n.backward
      PROVE  n.ext[z] \in Stored /\ (z > 0 => MatchedBy(n, z))
  <2>1. CASE z = s
    BY <1>2, <2>1 DEF MatchedBy
  <2>2. CASE z # s
    <3>1. z \in DOMAIN d.backward /\ z \in DOMAIN d.ext
      BY <1>2, <1>3, <2>2
    <3>2. n.ext[z] = d.ext[z] /\ n.backward[z] = d.backward[z] /\ d.ext[z] \in Stored
      BY <1>2, <1>3, <2>2, <3>1
    <3>3. z > 0 => MatchedBy(n, z)
      BY <1>2, <1>3, <2>2, <3>1, <3>2 DEF MatchedBy
    <3> QED
      BY <3>2, <3>3
  <2> QED
    BY <2>1, <2>2
<1>5. ASSUME NEW x \in DOMAIN n.forward
      PROVE  /\ n.forward[x] \in Nat
             /\ n.forward[x] > 0 => n.forward[x] \in DOMAIN n.backward /\ n.backward[n.forward[x]] = x
  <2>1. CASE x = id
    BY <1>2, <2>1
  <2>2. CASE x # id
    <3>1. x \in DOMAIN d.forward /\ n.forward[x] = d.forward[x]
      BY <1>2, <2>2
    <3>2. d.forward[x] \in Nat
           /\ (d.forward[x] > 0 => d.forward[x] \in DOMAIN d.backward /\ d.backward[d.forward[x]] = x)
      BY <1>3, <3>1
    <3>3. d.forward[x] > 0 => d.forward[x] # s
      BY <3>2
    <3> QED
      BY <1>2, <3>1, <3>2, <3>3
  <2> QED
    BY <2>1, <2>2
<1>6. WellKept(n, last)
  <2>1. DOMAIN n.forward \subseteq Id /\ DOMAIN n.backward \subseteq 0 .. last
        /\ DOMAIN n.ext = DOMAIN n.backward
    BY <1>2, <1>3
  <2> QED
    BY <1>1, <1>4, <1>5, <2>1 DEF WellKept
<1> QED
  BY <1>2, <1>3, <1>6 DEF n

LEMMA TouchKept ==
  ASSUME NEW d, NEW last \in Nat, NEW id \in Id, WellKept(d, last)
  PROVE  /\ WellKept(Touch(d, id), last) /\ id \in DOMAIN Touch(d, id).forward
         /\ Touch(d, id).backward = d.backward /\ Touch(d, id).ext = d.ext
         /\ id \in DOMAIN d.forward => Touch(d, id) = d
         /\ id \notin DOMAIN d.forward => Touch(d, id).forward[id] = 0
<1>1. CASE id \in DOMAIN d.forward
  BY <1>1 DEF Touch, HasId
<1>2. CASE id \notin DOMAIN d.forward
  <2> DEFINE n == Touch(d, id)
  <2>1. /\ n = [forward |-> n.forward, backward |-> n.backward, ext |-> n.ext]
        /\ n.forward = Over([i \in {id} |-> 0], d.forward)
        /\ n.backward = d.backward /\ n.ext = d.ext
    <3>1. d = [forward |-> d.forward, backward |-> d.backward, ext |-> d.ext]
      BY DEF WellKept
    <3>2. n = [d EXCEPT !.forward = Over([i \in {id} |-> 0], @)]
      BY <1>2 DEF Touch, HasId
    <3> HIDE DEF n
    <3> QED
      BY <3>1, <3>2
  <2> HIDE DEF n
  <2>2. /\ DOMAIN n.forward = DOMAIN d.forward \cup {id} /\ n.forward[id] = 0
        /\ \A x \in DOMAIN d.forward : n.forward[x] = d.forward[x]
    BY <1>2, <2>1 DEF Over
  <2>3. WellKept(n, last)
    BY <2>1, <2>2 DEF WellKept, MatchedBy
  <2> QED
    BY <1>2, <2>1, <2>2, <2>3 DEF n
<1> QED
  BY <1>1, <1>2

LEMMA RmByIdKept ==
  ASSUME NEW d, NEW last \in Nat, NEW id \in DOMAIN d.forward, WellKept(d, last)
  PROVE  /\ WellKept(RmById(d, id), last) /\ id \notin DOMAIN RmById(d, id).forward
         /\ DOMAIN RmById(d, id).backward = DOMAIN d.backward \ {d.forward[id]}
         /\ \A z \in DOMAIN d.backward \ {d.forward[id]} : RmById(d, id).ext[z] = d.ext[z]
<1> DEFINE n == RmById(d, id)
           s == d.forward[id]
<1>1. /\ n = [forward |-> n.forward, backward |-> n.backward, ext |-> n.ext]
      /\ n.forward = Without(d.forward, {id})
      /\ n.backward = Without(d.backward, {s}) /\ n.ext = Without(d.ext, {s})
  BY DEF RmById
<1> HIDE DEF n, s
<1>2. /\ DOMAIN n.forward = DOMAIN d.forward \ {id}
      /\ DOMAIN n.backward = DOMAIN d.backward \ {s} /\ DOMAIN n.ext = DOMAIN d.ext \ {s}
      /\ \A x \in DOMAIN n.forward : n.forward[x] = d.forward[x]
      /\ \A z \in DOMAIN n.backward : n.backward[z] = d.backward[z]
      /\ \A z \in DOMAIN n.ext : n.ext[z] = d.ext[z]
  BY <1>1 DEF Without, Restrict
<1>3. /\ DOMAIN d.forward \subseteq Id /\ DOMAIN d.backward \subseteq 0 .. last
      /\ DOMAIN d.ext = DOMAIN d.backward
      /\ \A z \in DOMAIN d.backward : d.ext[z] \in Stored /\ (z > 0 => MatchedBy(d, z))
      /\ \A x \in DOMAIN d.forward :
           /\ d.forward[x] \in Nat
           /\ d.forward[x] > 0 => d.forward[x] \in DOMAIN d.backward /\ d.backward[d.forward[x]] = x
  BY DEF WellKept
<1>4. ASSUME NEW z \in DOMAIN n.backward
      PROVE  n.ext[z] \in Stored /\ (z > 0 => MatchedBy(n, z))
  <2>1. z \in DOMAIN d.backward /\ z # s /\ n.ext[z] = d.ext[z] /\ n.backward[z] = d.backward[z]
    BY <1>2, <1>3
  <2>2. z > 0 => d.backward[z] # id
    BY <1>3, <2>1 DEF MatchedBy, s
  <2> QED
    BY <1>2, <1>3, <2>1, <2>2 DEF MatchedBy
<1>5. ASSUME NEW x \in DOMAIN n.forward
      PROVE  /\ n.forward[x] \in Nat
             /\ n.forward[x] > 0 => n.forward[x] \in DOMAIN n.backward /\ n.backward[n.forward[x]] = x
  <2>1. x \in DOMAIN d.forward /\ x # id /\ n.forward[x] = d.forward[x]
    BY <1>2
  <2>2. d.forward[x] > 0 => d.forward[x] # s
    BY <1>3, <2>1 DEF s
  <2> QED
    BY <1>2, <1>3, <2>1, <2>2
<1>6. WellKept(n, last)
  <2>1. DOMAIN n.forward \subseteq Id /\ DOMAIN n.backward \subseteq 0 .. last
        /\ DOMAIN n.ext = DOMAIN n.backward
    BY <1>2, <1>3
  <2> QED
    BY <1>1, <1>4, <1>5, <2>1 DEF WellKept
<1> QED
  BY <1>2, <1>3, <1>6 DEF n, s

LEMMA RmBySessionKept ==
  ASSUME NEW d, NEW last \in Nat, NEW s \in DOMAIN d.backward \ {0}, WellKept(d, last)
  PROVE  /\ WellKept(RmBySession(d, s), last)
         /\ DOMAIN RmBySession(d, s).backward = DOMAIN d.backward \ {s}
         /\ \A z \in DOMAIN d.backward \ {s} : RmBySession(d, s).ext[z] = d.ext[z]
<1>1. /\ s \in Nat /\ s > 0
  BY DEF WellKept
<1>2. d.backward[s] \in DOMAIN d.forward /\ d.forward[d.backward[s]] = s
  BY <1>1 DEF WellKept, MatchedBy
<1>3. RmBySession(d, s) = RmById(d, d.backward[s])
  BY <1>2 DEF RmBySession, RmById
<1> QED
  BY <1>2, <1>3, RmByIdKept

LEMMA FoundIs ==
  ASSUME NEW d, NEW last \in Nat, NEW id, WellKept(d, last), NEW e, e = GetExtById(d, id, NoSession)
  PROVE  /\ e \in Stored /\ SessionOf(e) \in Nat
         /\ \/ e = NoSession /\ SessionOf(e) = 0
            \/ /\ id \in DOMAIN d.forward /\ d.forward[id] = SessionOf(e) /\ SessionOf(e) > 0
               /\ SessionOf(e) \in DOMAIN d.backward /\ e = d.ext[SessionOf(e)]
<1>1. CASE HasId(d, id) /\ d.forward[id] > 0 /\ d.forward[id] \in DOMAIN d.ext
  <2>1. e = d.ext[d.forward[id]] /\ d.forward[id] \in DOMAIN d.backward /\ d.forward[id] \in Nat
    BY <1>1 DEF GetExtById, HasId, WellKept
  <2>2. e \in Stored /\ SessionOf(e) = d.forward[id]
    BY <1>1, <2>1 DEF WellKept, MatchedBy
  <2> QED
    BY <1>1, <2>1, <2>2 DEF HasId
<1>2. CASE ~(HasId(d, id) /\ d.forward[id] > 0 /\ d.forward[id] \in DOMAIN d.ext)
  <2>1. e = NoSession
    BY <1>2 DEF GetExtById
  <2> QED
    BY <2>1 DEF NoSession, SessionOf, Stored, SessionMode
<1> QED
  BY <1>1, <1>2

LEMMA KnownIsStoppable ==
  ASSUME NEW d, NEW last \in Nat, NEW s \in DOMAIN d.backward \ {0}, WellKept(d, last)
  PROVE  \E id \in Id : SessionOf(GetExtById(d, id, NoSession)) = s
<1>1. s \in Nat /\ s > 0 /\ MatchedBy(d, s) /\ s \in DOMAIN d.ext
  BY DEF WellKept
<1>2. d.backward[s] \in Id
  BY <1>1 DEF WellKept, MatchedBy
<1>3. GetExtById(d, d.backward[s], NoSession) = d.ext[s]
  BY <1>1 DEF GetExtById, HasId, MatchedBy
<1> QED
  BY <1>1, <1>2, <1>3 DEF MatchedBy

-----------------------------------------------------------------------------
(* Where the sessions of the dictionary are; what is about to be removed   *)
(* from it; the stops that nobody waits for.                               *)
Starting(m, s) == m.op = "start" /\ m.of = s
NotAt(i, s) ==
  /\ \A k \in DOMAIN mail[i] : ~Starting(mail[i][k], s)
  /\ \A r \in running[i] : r[2] # s
Nowhere(s) == \A i \in Interface : NotAt(i, s)
Batching(s) == s \in DOMAIN mSessionBiDict.backward \ {0} /\ mSessionBiDict.ext[s].mode # "fix"
BatchHomes == \A s : Batching(s) => \A i \in Interface \ {"flp"} : NotAt(i, s)
SilentStop(m) == m.op = "stop" /\ m.for = NoRequest /\ m.of # 0
SilentStops ==
  \A i \in Interface : \A k \in DOMAIN mail[i] :
    SilentStop(mail[i][k]) => ~HasSession(mSessionBiDict, mail[i][k].of)
RemovedEnd ==
  Batches /\ ~seen.overlapped => \A i \in Interface :
    answering[i] <= mSessionIdCounter /\ \A s : answering[i] = s /\ s # 0 => Nowhere(s)

LEMMA NotAtTaken ==
  ASSUME MailTypeOK, NEW i \in Interface, Handled(i)
  PROVE  \A j \in Interface : \A s : NotAt(j, s) => NotAt(j, s)'
<1>1. Took(i) /\ RunningMoves(i)
  BY DEF Handled
<1>2. /\ 1 \in DOMAIN mail[i]
      /\ \A j \in Interface : \A k \in DOMAIN mail'[j] :
           /\ j # i => k \in DOMAIN mail[j] /\ mail'[j][k] = mail[j][k]
           /\ j = i => k + 1 \in DOMAIN mail[i] /\ mail'[i][k] = mail[i][k + 1]
  BY <1>1, TookCame
<1> SUFFICES ASSUME NEW j \in Interface, NEW s, NotAt(j, s)
             PROVE  NotAt(j, s)'
  OBVIOUS
<1>3. ASSUME NEW k \in DOMAIN mail'[j]
      PROVE  ~Starting(mail'[j][k], s)
  BY <1>2 DEF NotAt
<1>4. ASSUME NEW r \in running'[j]
      PROVE  r[2] # s
  BY <1>1, <1>2 DEF NotAt, RunningMoves, Starting
<1> QED
  BY <1>3, <1>4 DEF NotAt

LEMMA NotAtPosted ==
  ASSUME MailTypeOK, NEW A, NEW B, NEW a, NEW b, Posts(A, a, B, b), NEW j \in Interface, NEW s,
         NotAt(j, s), j \notin B \/ ~Starting(b, s)
  PROVE  NotAt(j, s)'
<1>1. \A k \in DOMAIN mail'[j] : Came(j, k, A, a, B, b)
  BY PostedCame
<1>2. UNCHANGED running /\ a.op # "start"
  BY DEF Posts, adapters
<1>3. ASSUME NEW k \in DOMAIN mail'[j]
      PROVE  ~Starting(mail'[j][k], s)
  BY <1>1, <1>2 DEF NotAt, Came, Starting
<1> QED
  BY <1>2, <1>3 DEF NotAt

LEMMA LateTaken ==
  ASSUME MailTypeOK, BatchHomes, SilentStops, RemovedEnd, UNCHANGED use,
         NEW i \in Interface, Handled(i), \A j \in Interface : j # i => answering'[j] = answering[j],
         Batches /\ ~seen.overlapped =>
           answering'[i] <= mSessionIdCounter /\ \A s : answering'[i] = s /\ s # 0 => Nowhere(s)'
  PROVE  BatchHomes' /\ SilentStops' /\ RemovedEnd'
<1>1. Took(i) /\ UNCHANGED <<mSessionBiDict, mSessionIdCounter>> /\ seen'.overlapped = seen.overlapped
  BY DEF Handled, HistoryMoves, Still
<1>2. \A j \in Interface : \A s : NotAt(j, s) => NotAt(j, s)'
  BY NotAtTaken
<1>3. BatchHomes'
  BY <1>1, <1>2 DEF BatchHomes, Batching
<1>4. SilentStops'
  <2>1. \A j \in Interface : \A k \in DOMAIN mail'[j] :
           /\ j # i => k \in DOMAIN mail[j] /\ mail'[j][k] = mail[j][k]
           /\ j = i => k + 1 \in DOMAIN mail[i] /\ mail'[i][k] = mail[i][k + 1]
    BY <1>1, TookCame
  <2> QED
    BY <1>1, <2>1 DEF SilentStops
<1>5. RemovedEnd'
  BY <1>1, <1>2 DEF RemovedEnd, Nowhere, Batches
<1> QED
  BY <1>3, <1>4, <1>5

(* What a call does to the dictionary: it adds sessions that are new.      *)
DictionaryOwed(A, a, B, b) ==
  /\ UNCHANGED <<use, answering>> /\ (seen.overlapped => seen'.overlapped)
  /\ \A s : Batching(s)' => s \in Nat
       /\ \/ Batching(s) /\ s <= mSessionIdCounter
          \/ s > mSessionIdCounter /\ (Starting(b, s) => B \subseteq {"flp"})
  /\ \A s \in Nat : HasSession(mSessionBiDict, s)' =>
       s = 0 \/ HasSession(mSessionBiDict, s) \/ s > mSessionIdCounter
  /\ SilentStop(a) => ~HasSession(mSessionBiDict, a.of)'
  /\ ~SilentStop(b)

LEMMA LatePosted ==
  ASSUME MailTypeOK, BatchHomes, SilentStops, RemovedEnd, Places, Grows,
         mSessionIdCounter \in Nat, answering \in [Interface -> Nat],
         NEW A, NEW B, NEW a, NEW b, Posts(A, a, B, b), DictionaryOwed(A, a, B, b)
  PROVE  BatchHomes' /\ SilentStops' /\ RemovedEnd'
<1>1. \A i \in Interface : \A k \in DOMAIN mail'[i] : Came(i, k, A, a, B, b)
  BY PostedCame
<1>2. \A i \in B : Starting(b, b.of) => b.of > mSessionIdCounter
  BY DEF Posts, Starting
<1>3. ASSUME NEW i \in Interface, NEW s \in Nat, s > mSessionIdCounter
      PROVE  NotAt(i, s)
  <2>1. ASSUME NEW k \in DOMAIN mail[i], Starting(mail[i][k], s)
        PROVE  FALSE
    BY <1>3, <2>1 DEF Places, MessagesInUse, InUse, Starting
  <2>2. ASSUME NEW r \in running[i]
        PROVE  r[2] # s
    BY <1>3 DEF Places, RunningInUse
  <2> QED
    BY <2>1, <2>2 DEF NotAt
<1>4. ASSUME NEW i \in Interface, NEW s \in Nat, NotAt(i, s), s <= mSessionIdCounter
      PROVE  NotAt(i, s)'
  <2>1. i \notin B \/ ~Starting(b, s)
    BY <1>2, <1>4 DEF Starting
  <2> QED
    BY <1>4, <2>1, NotAtPosted
<1>5. BatchHomes'
  <2> SUFFICES ASSUME NEW s, Batching(s)', NEW i \in Interface \ {"flp"}
               PROVE  NotAt(i, s)'
    BY DEF BatchHomes
  <2>1. s \in Nat
    BY DEF DictionaryOwed
  <2>2. CASE Batching(s) /\ s <= mSessionIdCounter
    BY <1>4, <2>1, <2>2 DEF BatchHomes
  <2>3. CASE s > mSessionIdCounter /\ (Starting(b, s) => B \subseteq {"flp"})
    <3>1. NotAt(i, s)
      BY <1>3, <2>1, <2>3
    <3>2. i \notin B \/ ~Starting(b, s)
      BY <2>3
    <3> QED
      BY <3>1, <3>2, NotAtPosted
  <2> QED
    BY <2>2, <2>3 DEF DictionaryOwed
<1>6. SilentStops'
  <2> SUFFICES ASSUME NEW i \in Interface, NEW k \in DOMAIN mail'[i], SilentStop(mail'[i][k])
               PROVE  ~(mail'[i][k].of \in DOMAIN mSessionBiDict'.backward)
    BY DEF SilentStops, HasSession
  <2>1. CASE k \in DOMAIN mail[i] /\ mail'[i][k] = mail[i][k]
    <3>1. ~HasSession(mSessionBiDict, mail[i][k].of) /\ mail[i][k].of # 0
      BY <2>1 DEF SilentStops, SilentStop
    <3>2. mail[i][k].of \in Nat /\ mail[i][k].of <= mSessionIdCounter
      BY <2>1, MessageAt DEF ClientMessage, Places, MessagesInUse, InUse, SilentStop
    <3> QED
      BY <2>1, <3>1, <3>2 DEF DictionaryOwed, HasSession
  <2>2. CASE mail'[i][k] = a
    BY <2>2 DEF DictionaryOwed, HasSession
  <2> QED
    BY <1>1, <2>1, <2>2 DEF Came, DictionaryOwed
<1>7. RemovedEnd'
  <2> SUFFICES ASSUME Batches, ~seen'.overlapped, NEW i \in Interface
               PROVE  /\ answering[i] <= mSessionIdCounter'
                      /\ \A s : answering[i] = s /\ s # 0 => Nowhere(s)'
    BY DEF RemovedEnd, DictionaryOwed, Batches, Nowhere
  <2>1. answering[i] \in Nat /\ answering[i] <= mSessionIdCounter /\ \A s : answering[i] = s /\ s # 0 => Nowhere(s)
    BY DEF RemovedEnd, DictionaryOwed
  <2> QED
    BY <1>4, <2>1 DEF Grows, Nowhere
<1> QED
  BY <1>5, <1>6, <1>7

LEMMA LateStay ==
  ASSUME BatchHomes, SilentStops, RemovedEnd, UNCHANGED <<mail, mSessionIdCounter, use>>,
         answering \in [Interface -> Nat], mSessionIdCounter \in Nat,
         seen.overlapped => seen'.overlapped, \A j \in Interface : running'[j] \subseteq running[j],
         \A j \in Interface : answering'[j] = 0 \/ answering'[j] = answering[j],
         \A s : Batching(s)' => Batching(s),
         DOMAIN mSessionBiDict'.backward \subseteq DOMAIN mSessionBiDict.backward
  PROVE  BatchHomes' /\ SilentStops' /\ RemovedEnd'
<1>1. \A i \in Interface : \A s : NotAt(i, s) => NotAt(i, s)'
  BY DEF NotAt
<1>2. BatchHomes'
  BY <1>1 DEF BatchHomes
<1>3. SilentStops'
  BY DEF SilentStops, HasSession
<1>4. RemovedEnd'
  <2> SUFFICES ASSUME Batches, ~seen.overlapped, NEW i \in Interface
               PROVE  /\ answering'[i] <= mSessionIdCounter
                      /\ \A s : answering'[i] = s /\ s # 0 => Nowhere(s)'
    BY DEF RemovedEnd, Batches, Nowhere
  <2>1. answering[i] \in Nat /\ answering[i] <= mSessionIdCounter /\ \A s : answering[i] = s /\ s # 0 => Nowhere(s)
    BY DEF RemovedEnd
  <2> QED
    BY <1>1, <2>1 DEF Nowhere
<1> QED
  BY <1>2, <1>3, <1>4

-----------------------------------------------------------------------------
(* The messages that a session request may be answered by: there is one at *)
(* most, and it is that of the request that waits.                         *)
Wants(m) == m.for # NoRequest /\ m.op \in {"start", "stop", "update", "get"}
MayAnswer(i, k, g) ==
  /\ Wants(mail[i][k]) /\ mail[i][k].gen = g
  /\ \/ mail[i][k].op = "start" \/ <<g, mail[i][k].of>> \in running[i]
     \/ \E l \in DOMAIN mail[i] : l < k /\ StartsIt(mail[i][l], g, mail[i][k].of)
Alone(g) ==
  /\ calling # NoCall => mRequestQueues["session"].pending = << >>
  /\ \A i \in Interface : \A k \in DOMAIN mail[i] :
       MayAnswer(i, k, g) => mRequestQueues["session"].pending = <<mail[i][k].for>>
  /\ \A i, j \in Interface : \A k \in DOMAIN mail[i], l \in DOMAIN mail[j] :
       MayAnswer(i, k, g) /\ MayAnswer(j, l, g) => i = j /\ k = l
BatchPairs == Batches /\ ~seen.overlapped => \A g : Here(g) => Alone(g)

LEMMA MayAnswerTaken ==
  ASSUME MailTypeOK, NEW i \in Interface, Handled(i), NEW j \in Interface, NEW k \in DOMAIN mail'[j],
         NEW g, MayAnswer(j, k, g)'
  PROVE  /\ j = i => k + 1 \in DOMAIN mail[i] /\ mail'[i][k] = mail[i][k + 1] /\ MayAnswer(i, k + 1, g)
                     /\ k + 1 # 1
         /\ j # i => k \in DOMAIN mail[j] /\ mail'[j][k] = mail[j][k] /\ MayAnswer(j, k, g)
<1>1. Took(i) /\ RunningMoves(i)
  BY DEF Handled
<1>2. /\ 1 \in DOMAIN mail[i]
      /\ \A h \in Interface : \A l \in DOMAIN mail'[h] :
           /\ l \in Nat \ {0}
           /\ h # i => l \in DOMAIN mail[h] /\ mail'[h][l] = mail[h][l]
           /\ h = i => l + 1 \in DOMAIN mail[i] /\ mail'[i][l] = mail[i][l + 1]
  BY <1>1, TookCame
<1> DEFINE m == mail'[j][k]
<1>3. Wants(m) /\ m.gen = g
      /\ (m.op = "start" \/ <<g, m.of>> \in running'[j]
          \/ \E l \in DOMAIN mail'[j] : l < k /\ StartsIt(mail'[j][l], g, m.of))
  BY DEF MayAnswer
<1>4. CASE j = i
  <2>1. k + 1 \in DOMAIN mail[i] /\ m = mail[i][k + 1] /\ 1 < k + 1
    BY <1>2, <1>4
  <2>2. ASSUME NEW l \in DOMAIN mail'[j], l < k, StartsIt(mail'[j][l], g, m.of)
        PROVE  \E h \in DOMAIN mail[i] : h < k + 1 /\ StartsIt(mail[i][h], g, m.of)
    <3>1. l + 1 \in DOMAIN mail[i] /\ mail'[i][l] = mail[i][l + 1] /\ l + 1 < k + 1
      BY <1>2, <1>4, <2>2
    <3> QED
      BY <1>4, <2>2, <3>1
  <2>3. ASSUME <<g, m.of>> \in running'[i], <<g, m.of>> \notin running[i]
        PROVE  \E h \in DOMAIN mail[i] : h < k + 1 /\ StartsIt(mail[i][h], g, m.of)
    <3>1. StartsIt(mail[i][1], g, m.of)
      BY <1>1, <2>3 DEF RunningMoves, StartsIt
    <3> QED
      BY <1>2, <2>1, <3>1
  <2> HIDE DEF m
  <2>4. m.op = "start" \/ <<g, m.of>> \in running[i]
        \/ \E h \in DOMAIN mail[i] : h < k + 1 /\ StartsIt(mail[i][h], g, m.of)
    BY <1>3, <1>4, <2>2, <2>3
  <2>5. MayAnswer(i, k + 1, g)
    BY <1>3, <2>1, <2>4 DEF MayAnswer
  <2> QED
    BY <1>4, <2>1, <2>5 DEF m
<1>5. CASE j # i
  <2>1. k \in DOMAIN mail[j] /\ m = mail[j][k]
    BY <1>2, <1>5
  <2>2. <<g, m.of>> \in running'[j] => <<g, m.of>> \in running[j]
    BY <1>1, <1>5 DEF RunningMoves
  <2>3. \A l \in DOMAIN mail'[j] : l \in DOMAIN mail[j] /\ mail'[j][l] = mail[j][l]
    BY <1>2, <1>5
  <2> HIDE DEF m
  <2>4. MayAnswer(j, k, g)
    BY <1>3, <2>1, <2>2, <2>3 DEF MayAnswer
  <2> QED
    BY <1>5, <2>1, <2>4 DEF m
<1> QED
  BY <1>4, <1>5

LEMMA PairsTaken ==
  ASSUME MailTypeOK, BatchPairs, UNCHANGED use, NEW i \in Interface, Handled(i),
         mRequestQueues["session"].pending = << >> => mRequestQueues'["session"].pending = << >>,
         Batches /\ ~seen.overlapped => \A g : Here(g) /\ ~MayAnswer(i, 1, g) =>
           mRequestQueues'["session"].pending = mRequestQueues["session"].pending
  PROVE  BatchPairs'
<1>1. Took(i) /\ UNCHANGED <<calling, generation, life>> /\ seen'.overlapped = seen.overlapped
  BY DEF Handled, HistoryMoves, Still
<1>2. 1 \in DOMAIN mail[i]
  BY <1>1, TookCame
<1> SUFFICES ASSUME Batches, ~seen.overlapped, NEW g, Here(g)
             PROVE  Alone(g)'
  BY <1>1 DEF BatchPairs, Batches, Here
<1>3. Alone(g)
  BY DEF BatchPairs
<1>4. calling # NoCall => mRequestQueues'["session"].pending = << >>
  BY <1>3 DEF Alone
<1> DEFINE From(j, k) == IF j = i THEN k + 1 ELSE k
<1>5. ASSUME NEW j \in Interface, NEW k \in DOMAIN mail'[j], MayAnswer(j, k, g)'
      PROVE  /\ From(j, k) \in DOMAIN mail[j] /\ MayAnswer(j, From(j, k), g)
             /\ mail'[j][k] = mail[j][From(j, k)] /\ (j = i => From(j, k) # 1) /\ k \in Nat
  <2>1. k \in Nat
    BY <1>1, TookCame
  <2> QED
    BY <1>5, <2>1, MayAnswerTaken
<1>6. ASSUME NEW j \in Interface, NEW k \in DOMAIN mail'[j], MayAnswer(j, k, g)'
      PROVE  mRequestQueues'["session"].pending = <<mail'[j][k].for>>
  <2>1. ~MayAnswer(i, 1, g)
    <3> HIDE DEF From
    <3> QED
      BY <1>2, <1>3, <1>5, <1>6 DEF Alone
  <2>2. mRequestQueues["session"].pending = <<mail'[j][k].for>>
    <3> HIDE DEF From
    <3> QED
      BY <1>3, <1>5, <1>6 DEF Alone
  <2> QED
    BY <2>1, <2>2
<1>7. ASSUME NEW j \in Interface, NEW k \in DOMAIN mail'[j], MayAnswer(j, k, g)',
             NEW h \in Interface, NEW l \in DOMAIN mail'[h], MayAnswer(h, l, g)'
      PROVE  j = h /\ k = l
  <2>1. j = h /\ From(j, k) = From(h, l)
    <3> HIDE DEF From
    <3> QED
      BY <1>3, <1>5, <1>7 DEF Alone
  <2>2. k \in Nat /\ l \in Nat
    BY <1>5, <1>7
  <2> QED
    BY <2>1, <2>2
<1> QED
  BY <1>1, <1>4, <1>6, <1>7 DEF Alone

(* What a call owes the queue of session requests: the request it leaves   *)
(* there is the only one, unless requests overlap.                         *)
RequestOwed(a, b) ==
  /\ UNCHANGED use /\ (seen.overlapped => seen'.overlapped)
  /\ Batches /\ ~seen'.overlapped => \A g : Here(g)' =>
       \/ /\ Here(g) /\ ~Wants(a) /\ ~Wants(b) /\ UNCHANGED calling
          /\ mRequestQueues'["session"].pending = mRequestQueues["session"].pending
       \/ g > generation /\ ~Wants(a) /\ ~Wants(b) /\ calling' = NoCall
       \/ /\ Here(g) /\ ~Wants(a) /\ calling' = NoCall
          /\ mRequestQueues["session"].pending = << >>
          /\ mRequestQueues'["session"].pending = <<b.for>>

LEMMA PairsPosted ==
  ASSUME MailTypeOK, BatchPairs, Places, generation \in Nat,
         NEW A, NEW B, NEW a, NEW b, Posts(A, a, B, b), RequestOwed(a, b)
  PROVE  BatchPairs'
<1>1. \A i \in Interface : \A k \in DOMAIN mail'[i] : k \in Nat /\ Came(i, k, A, a, B, b)
  BY PostedCame
<1>2. UNCHANGED running /\ a.op # "start"
  BY DEF Posts, adapters
<1> SUFFICES ASSUME Batches, ~seen'.overlapped, NEW g, Here(g)'
             PROVE  Alone(g)'
  BY DEF BatchPairs, Batches, RequestOwed
<1>3. ~seen.overlapped
  BY DEF RequestOwed
<1> DEFINE Old(i, k) == k \in DOMAIN mail[i] /\ mail'[i][k] = mail[i][k]
<1>4. ASSUME NEW i \in Interface, NEW k \in DOMAIN mail'[i], MayAnswer(i, k, g)', Old(i, k)
      PROVE  MayAnswer(i, k, g)
  <2>1. \A l \in DOMAIN mail'[i] : l < k => l \in DOMAIN mail[i] /\ mail'[i][l] = mail[i][l]
    BY <1>1, <1>4 DEF Came
  <2> QED
    BY <1>2, <1>4, <2>1 DEF MayAnswer
<1>5. CASE ~Wants(a) /\ ~Wants(b)
  <2>1. \A i \in Interface : \A k \in DOMAIN mail'[i] : MayAnswer(i, k, g)' => Old(i, k)
    BY <1>1, <1>5 DEF Came, MayAnswer
  <2>2. CASE Here(g)
    <3>1. Alone(g)
      BY <1>3, <2>2 DEF BatchPairs
    <3>2. /\ \A i \in Interface : \A k \in DOMAIN mail'[i] : MayAnswer(i, k, g)' =>
               Old(i, k) /\ mRequestQueues["session"].pending = <<mail'[i][k].for>>
          /\ \A i, j \in Interface : \A k \in DOMAIN mail'[i], l \in DOMAIN mail'[j] :
               MayAnswer(i, k, g)' /\ MayAnswer(j, l, g)' => i = j /\ k = l
      <4>1. ASSUME NEW i \in Interface, NEW k \in DOMAIN mail'[i], MayAnswer(i, k, g)'
            PROVE  Old(i, k) /\ MayAnswer(i, k, g)
        BY <1>4, <2>1, <4>1
      <4> QED
        BY <3>1, <4>1 DEF Alone
    <3>3. \/ UNCHANGED calling /\ mRequestQueues'["session"].pending = mRequestQueues["session"].pending
          \/ calling' = NoCall /\ mRequestQueues["session"].pending = << >>
      BY <2>2 DEF RequestOwed, Here
    <3>4. ASSUME NEW x
          PROVE  << >> # <<x>>
      OBVIOUS
    <3>5. calling' # NoCall => mRequestQueues'["session"].pending = << >>
      BY <3>1, <3>3 DEF Alone
    <3>6. ASSUME NEW i \in Interface, NEW k \in DOMAIN mail'[i], MayAnswer(i, k, g)'
          PROVE  mRequestQueues'["session"].pending = <<mail'[i][k].for>>
      BY <3>2, <3>3, <3>4, <3>6
    <3> QED
      BY <3>2, <3>5, <3>6 DEF Alone
  <2>3. CASE ~Here(g)
    <3>1. calling' = NoCall /\ g > generation
      BY <2>3 DEF RequestOwed
    <3>2. \A i \in Interface : \A k \in DOMAIN mail[i] : mail[i][k].gen \in 1 .. generation
      BY DEF Places, MessagesInUse, InUse
    <3>3. \A i \in Interface : \A k \in DOMAIN mail'[i] : ~MayAnswer(i, k, g)'
      BY <2>1, <3>1, <3>2 DEF MayAnswer
    <3> QED
      BY <3>1, <3>3 DEF Alone
  <2> QED
    BY <2>2, <2>3
<1>6. CASE Here(g) /\ ~Wants(a) /\ Wants(b)
  <2>1. /\ calling' = NoCall /\ mRequestQueues["session"].pending = << >>
        /\ mRequestQueues'["session"].pending = <<b.for>>
    BY <1>6 DEF RequestOwed
  <2>2. Alone(g)
    BY <1>3, <1>6 DEF BatchPairs
  <2>3. ASSUME NEW i \in Interface, NEW k \in DOMAIN mail'[i], MayAnswer(i, k, g)'
        PROVE  i \in B /\ mail'[i][k] = b /\ k = Len(mail'[i])
               /\ \A l \in DOMAIN mail[i] : l < k
    <3>1. ~Old(i, k)
      <4>1. ASSUME NEW x
            PROVE  << >> # <<x>>
        OBVIOUS
      <4> QED
        BY <1>4, <2>1, <2>2, <2>3, <4>1 DEF Alone
    <3>2. mail'[i][k] # a
      BY <1>6, <2>3 DEF MayAnswer
    <3> QED
      BY <1>1, <3>1, <3>2 DEF Came
  <2>4. ASSUME NEW i \in Interface, NEW k \in DOMAIN mail'[i], MayAnswer(i, k, g)', b.op # "start"
        PROVE  <<g, b.of>> \in running[i] \/ \E l \in DOMAIN mail[i] : StartsIt(mail[i][l], g, b.of)
    <3>1. <<g, b.of>> \in running[i] \/ \E l \in DOMAIN mail'[i] : StartsIt(mail'[i][l], g, b.of)
      BY <1>2, <2>3, <2>4 DEF MayAnswer
    <3> QED
      BY <1>1, <1>2, <2>4, <3>1 DEF Came, StartsIt
  <2>5. ASSUME NEW i \in Interface, NEW k \in DOMAIN mail'[i], MayAnswer(i, k, g)',
               NEW j \in Interface, NEW l \in DOMAIN mail'[j], MayAnswer(j, l, g)'
        PROVE  i = j /\ k = l
    <3>1. i = j
      <4>1. CASE b.op = "start"
        BY <2>3, <2>5, <4>1 DEF Posts
      <4>2. CASE b.op # "start"
        <5>1. <<g, b.of>> \in running[i] \/ \E h \in DOMAIN mail[i] : StartsIt(mail[i][h], g, b.of)
          BY <2>4, <2>5, <4>2
        <5>2. <<g, b.of>> \in running[j] \/ \E h \in DOMAIN mail[j] : StartsIt(mail[j][h], g, b.of)
          BY <2>4, <2>5, <4>2
        <5>3. <<g, b.of>>[2] = b.of
          OBVIOUS
        <5> QED
          BY <5>1, <5>2, <5>3 DEF Places, StartsOnce, StartsBeforeRuns, RunsOnce, StartsIt
      <4> QED
        BY <4>1, <4>2
    <3>2. k = Len(mail'[i]) /\ l = Len(mail'[j])
      BY <2>3, <2>5
    <3> QED
      BY <3>1, <3>2
  <2> QED
    BY <2>1, <2>3, <2>5 DEF Alone
<1>7. ~Wants(a) /\ (Here(g) \/ ~Wants(b))
  BY DEF RequestOwed
<1> QED
  BY <1>5, <1>6, <1>7

LEMMA PairsStay ==
  ASSUME BatchPairs, Still, UNCHANGED <<mail, use>>, seen.overlapped => seen'.overlapped,
         \A j \in Interface : running'[j] \subseteq running[j],
         mRequestQueues'["session"].pending = mRequestQueues["session"].pending,
         Batches /\ ~seen'.overlapped /\ calling' # NoCall =>
           calling' = calling \/ mRequestQueues["session"].pending = << >>
  PROVE  BatchPairs'
<1> SUFFICES ASSUME Batches, ~seen'.overlapped, NEW g, Here(g)
             PROVE  Alone(g)'
  BY DEF BatchPairs, Batches, Here, Still
<1>1. Alone(g)
  BY DEF BatchPairs
<1>2. ASSUME NEW i \in Interface, NEW k \in DOMAIN mail[i], MayAnswer(i, k, g)'
      PROVE  MayAnswer(i, k, g)
  BY <1>2 DEF MayAnswer
<1> QED
  BY <1>1, <1>2 DEF Alone

-----------------------------------------------------------------------------
(* Answers.                                                                *)
SessionsUnmixed ==
  /\ "session" \in seen.mixed => seen.overlapped
  /\ Batches => "tracking" \notin seen.mixed /\ "niresponse" \notin seen.mixed
QueuesApart ==
  /\ ~Tracks => mRequestQueues["tracking"] = Nothing /\ mRequestQueues["niresponse"] = Nothing
  /\ ~Batches => mRequestQueues["session"].pending = << >>

LEMMA ClaimedIs ==
  ASSUME mRequestQueues \in [RequestType -> Waiting], NEW s
  PROVE  /\ \/ Claimed(s) = {}
            \/ \E q \in RequestType : /\ Claimed(s) = {q} /\ mRequestQueues[q].pending # << >>
                                      /\ q # "session" => mRequestQueues[q].session = s
                                      /\ q = "session" => HasSession(mSessionBiDict, s)
<1>1. CASE Owner(s) # "none" /\ mRequestQueues[Owner(s)].pending # << >>
  <2>1. Owner(s) \in RequestType /\ Owner(s) # "session" /\ mRequestQueues[Owner(s)].session = s
    BY <1>1 DEF Owner, RequestType
  <2>2. Claimed(s) = {Owner(s)}
    BY <1>1 DEF Claimed
  <2> QED
    BY <1>1, <2>1, <2>2
<1>2. CASE ~(Owner(s) # "none" /\ mRequestQueues[Owner(s)].pending # << >>)
  <2>1. "session" \in RequestType
    BY DEF RequestType
  <2>2. Claimed(s) = {} \/ (Claimed(s) = {"session"} /\ HasSession(mSessionBiDict, s)
                            /\ mRequestQueues["session"].pending # << >>)
    BY <1>2 DEF Claimed
  <2> QED
    BY <2>1, <2>2
<1> QED
  BY <1>1, <1>2

(* What an interface answers, if a client waits for it.                    *)
Replies(i, ok) ==
  /\ Answer(i, mail[i][1], ok)
  /\ Batches /\ ~seen.overlapped /\ Here(mail[i][1].gen) =>
       MayAnswer(i, 1, mail[i][1].gen) \/ Claimed(mail[i][1].of) = {}

(* The queue that an answer is taken for, if any.                          *)
Answers(i, q) ==
  /\ q \in RequestType /\ Here(mail[i][1].gen) /\ mRequestQueues[q].pending # << >>
  /\ q # "session" => mRequestQueues[q].session = mail[i][1].of
  /\ q = "session" => HasSession(mSessionBiDict, mail[i][1].of)

LEMMA PoppedIs ==
  ASSUME mRequestQueues \in [RequestType -> Waiting], answering \in [Interface -> Nat], seen \in History,
         NEW i \in Interface, NEW ok, mail[i][1] \in ClientMessage, Answer(i, mail[i][1], ok)
  PROVE  LET m == mail[i][1]
             Claims == IF Here(m.gen) THEN Claimed(m.of) ELSE {}
         IN \/ /\ Claims = {} /\ mRequestQueues' = mRequestQueues
               /\ answering' = [answering EXCEPT ![i] = 0]
               /\ seen' = [seen EXCEPT !.refused = IF m.op = "stop" /\ ~ok THEN @ \cup {m.of} ELSE @]
            \/ \E q : /\ Claims = {q} /\ Answers(i, q)
                      /\ mRequestQueues' = [mRequestQueues EXCEPT ![q].pending = Tail(@)]
                      /\ answering' = [answering EXCEPT ![i] =
                           IF Ends(Head(mRequestQueues[q].pending), ok) THEN m.of ELSE 0]
                      /\ seen' = [seen EXCEPT
                           !.mixed = IF Head(mRequestQueues[q].pending) # m.for THEN @ \cup {q} ELSE @,
                           !.refused = IF m.op = "stop" /\ ~ok THEN @ \cup {m.of} ELSE @]
<1> DEFINE m == mail[i][1]
           Claims == IF Here(m.gen) THEN Claimed(m.of) ELSE {}
           popped == IF Claims = {} THEN NoRequest
                     ELSE Head(mRequestQueues[CHOOSE x \in Claims : TRUE].pending)
<1>1. Claims = IF life = "live" /\ m.gen = generation THEN Claimed(m.of) ELSE {}
  BY DEF Here
<1>2. /\ mRequestQueues' = [q \in RequestType |->
           [mRequestQueues[q] EXCEPT !.pending = IF q \in Claims THEN Tail(@) ELSE @]]
      /\ answering' = [answering EXCEPT ![i] = IF Ends(popped, ok) THEN m.of ELSE 0]
      /\ seen' = [seen EXCEPT !.mixed = IF popped # m.for THEN @ \cup Claims ELSE @,
                              !.refused = IF m.op = "stop" /\ ~ok THEN @ \cup {m.of} ELSE @]
  BY <1>1 DEF Answer
<1>3. \A q \in RequestType : mRequestQueues[q] \in Waiting
  OBVIOUS
<1>4. \A q \in RequestType : [mRequestQueues[q] EXCEPT !.pending = @] = mRequestQueues[q]
  BY <1>3 DEF Waiting
<1>5. CASE Claims = {}
  <2>1. popped = NoRequest /\ ~Ends(popped, ok)
    BY <1>5 DEF Ends, NoRequest
  <2>2. mRequestQueues' = [q \in RequestType |-> mRequestQueues[q]]
    BY <1>2, <1>4, <1>5
  <2>3. seen' = [seen EXCEPT !.refused = IF m.op = "stop" /\ ~ok THEN @ \cup {m.of} ELSE @]
    BY <1>2, <1>5 DEF History
  <2> QED
    BY <1>2, <1>5, <2>1, <2>2, <2>3
<1>6. CASE Claims # {}
  <2>1. Here(m.gen) /\ Claims = Claimed(m.of)
    BY <1>6
  <2>2. PICK q \in RequestType : /\ Claimed(m.of) = {q} /\ mRequestQueues[q].pending # << >>
                                 /\ q # "session" => mRequestQueues[q].session = m.of
                                 /\ q = "session" => HasSession(mSessionBiDict, m.of)
    BY <1>6, <2>1, ClaimedIs
  <2>3. Claims = {q} /\ Answers(i, q)
    BY <2>1, <2>2 DEF Answers
  <2>4. popped = Head(mRequestQueues[q].pending)
    BY <1>6, <2>3
  <2> HIDE DEF Claims, popped
  <2>5. mRequestQueues' = [mRequestQueues EXCEPT ![q].pending = Tail(@)]
    <3>1. \A x \in RequestType : mRequestQueues'[x] = [mRequestQueues EXCEPT ![q].pending = Tail(@)][x]
      BY <1>2, <1>4, <2>3
    <3>2. mRequestQueues' = [x \in RequestType |-> mRequestQueues'[x]]
      BY <1>2
    <3> QED
      BY <3>1, <3>2
  <2> QED
    BY <1>2, <2>3, <2>4, <2>5 DEF Claims
<1> QED
  BY <1>5, <1>6

(* What taking a message does to the requests that wait.                   *)
SameSessions ==
  \A t \in RequestType : mRequestQueues'[t].session = mRequestQueues[t].session
SessionPops(i) ==
  /\ mRequestQueues["session"].pending = << >> => mRequestQueues'["session"].pending = << >>
  /\ Batches /\ ~seen.overlapped => \A g : Here(g) /\ ~MayAnswer(i, 1, g) =>
       mRequestQueues'["session"].pending = mRequestQueues["session"].pending
Ending(i, ok) ==
  /\ \A j \in Interface : j # i => answering'[j] = answering[j]
  /\ answering'[i] # 0 =>
       /\ answering'[i] = mail[i][1].of
       /\ Batches /\ ~seen.overlapped => Ends(mail[i][1].for, ok)
Settled(i, ok) ==
  /\ mRequestQueues' \in [RequestType -> Waiting] /\ answering' \in [Interface -> Nat] /\ seen' \in History
  /\ SameSessions /\ SessionPops(i) /\ Ending(i, ok) /\ HistoryMoves
  /\ mail[i][1].op = "stop" /\ ~ok => mail[i][1].of \in seen'.refused

LEMMA PoppedQueue ==
  ASSUME mRequestQueues \in [RequestType -> Waiting], NEW q \in RequestType,
         mRequestQueues[q].pending # << >>,
         mRequestQueues' = [mRequestQueues EXCEPT ![q].pending = Tail(@)]
  PROVE  /\ mRequestQueues' \in [RequestType -> Waiting] /\ SameSessions
         /\ Head(mRequestQueues[q].pending) \in ClientRequest
         /\ mRequestQueues'[q].pending = Tail(mRequestQueues[q].pending)
         /\ \A t \in RequestType : t # q => mRequestQueues'[t] = mRequestQueues[t]
<1>1. mRequestQueues[q] \in Waiting
  OBVIOUS
<1>2. mRequestQueues[q].pending \in Seq(ClientRequest) /\ mRequestQueues[q].session \in Nat
  BY <1>1 DEF Waiting
<1>3. Head(mRequestQueues[q].pending) \in ClientRequest /\ Tail(mRequestQueues[q].pending) \in Seq(ClientRequest)
  BY <1>2, HeadTailProperties
<1>4. mRequestQueues'[q] = [mRequestQueues[q] EXCEPT !.pending = Tail(mRequestQueues[q].pending)]
  OBVIOUS
<1>5. mRequestQueues'[q] = [session |-> mRequestQueues[q].session, pending |-> Tail(mRequestQueues[q].pending)]
  BY <1>1, <1>4 DEF Waiting
<1>6. mRequestQueues'[q] \in Waiting
  BY <1>2, <1>3, <1>5 DEF Waiting
<1>7. \A t \in RequestType : t # q => mRequestQueues'[t] = mRequestQueues[t]
  OBVIOUS
<1>8. mRequestQueues' \in [RequestType -> Waiting]
  BY <1>6, <1>7
<1> QED
  BY <1>3, <1>5, <1>7, <1>8 DEF SameSessions

LEMMA AnswerSettles ==
  ASSUME mRequestQueues \in [RequestType -> Waiting], answering \in [Interface -> Nat], seen \in History,
         use \in Uses, QueuesApart, BatchPairs, SessionsUnmixed, NEW i \in Interface, 1 \in DOMAIN mail[i],
         mail[i][1] \in ClientMessage, NEW ok \in BOOLEAN, Replies(i, ok), UNCHANGED use
  PROVE  Settled(i, ok) /\ QueuesApart' /\ SessionsUnmixed'
<1> DEFINE m == mail[i][1]
           refused == IF m.op = "stop" /\ ~ok THEN seen.refused \cup {m.of} ELSE seen.refused
           Claims == IF Here(m.gen) THEN Claimed(m.of) ELSE {}
<1>1. m \in ClientMessage /\ m.of \in Nat /\ refused \in SUBSET Nat
  BY DEF ClientMessage, History
<1>2. "session" \in RequestType /\ "tracking" \in RequestType /\ "niresponse" \in RequestType
  BY DEF RequestType
<1>3. ~(Tracks /\ Batches)
  BY DEF Tracks, Batches
<1>4. CASE /\ Claims = {} /\ mRequestQueues' = mRequestQueues
           /\ answering' = [answering EXCEPT ![i] = 0]
           /\ seen' = [seen EXCEPT !.refused = IF m.op = "stop" /\ ~ok THEN @ \cup {m.of} ELSE @]
  <2>1. seen' = [seen EXCEPT !.refused = refused]
    BY <1>4
  <2> HIDE DEF refused
  <2>2. seen' \in History /\ seen'.refused = refused /\ seen'.mixed = seen.mixed
        /\ seen'.joined = seen.joined /\ seen'.forsaken = seen.forsaken
        /\ seen'.overlapped = seen.overlapped /\ seen'.collided = seen.collided
    BY <1>1, <2>1 DEF History
  <2>3. answering' \in [Interface -> Nat] /\ answering'[i] = 0
        /\ \A j \in Interface : j # i => answering'[j] = answering[j]
    BY <1>4
  <2>4. SameSessions /\ SessionPops(i) /\ Ending(i, ok)
    BY <1>4, <2>3 DEF SameSessions, SessionPops, Ending
  <2>5. HistoryMoves /\ (m.op = "stop" /\ ~ok => m.of \in seen'.refused)
    BY <2>2 DEF HistoryMoves, refused
  <2>6. QueuesApart' /\ SessionsUnmixed'
    BY <1>4, <2>2 DEF QueuesApart, SessionsUnmixed, Tracks, Batches
  <2> QED
    BY <1>4, <2>2, <2>3, <2>4, <2>5, <2>6 DEF Settled
<1>5. ASSUME NEW q, Claims = {q}, Answers(i, q),
             mRequestQueues' = [mRequestQueues EXCEPT ![q].pending = Tail(@)],
             answering' = [answering EXCEPT ![i] =
               IF Ends(Head(mRequestQueues[q].pending), ok) THEN m.of ELSE 0],
             seen' = [seen EXCEPT
               !.mixed = IF Head(mRequestQueues[q].pending) # m.for THEN @ \cup {q} ELSE @,
               !.refused = IF m.op = "stop" /\ ~ok THEN @ \cup {m.of} ELSE @]
      PROVE  Settled(i, ok) /\ QueuesApart' /\ SessionsUnmixed'
  <2> DEFINE popped == Head(mRequestQueues[q].pending)
             mixed == IF popped # m.for THEN seen.mixed \cup {q} ELSE seen.mixed
  <2>1. q \in RequestType /\ Here(m.gen) /\ mRequestQueues[q].pending # << >>
    BY <1>5 DEF Answers
  <2>2. /\ mRequestQueues' \in [RequestType -> Waiting] /\ SameSessions
        /\ popped \in ClientRequest
        /\ mRequestQueues'[q].pending = Tail(mRequestQueues[q].pending)
        /\ \A t \in RequestType : t # q => mRequestQueues'[t] = mRequestQueues[t]
    BY <1>5, <2>1, PoppedQueue
  <2>3. mixed \in SUBSET RequestType
    BY <2>1 DEF History
  <2>4. seen' = [seen EXCEPT !.mixed = mixed, !.refused = refused]
    BY <1>5
  <2>5. q = "session" /\ Batches /\ ~seen.overlapped => MayAnswer(i, 1, m.gen) /\ popped = m.for
    <3> SUFFICES ASSUME q = "session", Batches, ~seen.overlapped
                 PROVE  MayAnswer(i, 1, m.gen) /\ popped = m.for
      OBVIOUS
    <3>1. MayAnswer(i, 1, m.gen)
      BY <1>5, <2>1 DEF Replies
    <3>2. Alone(m.gen)
      BY <2>1 DEF BatchPairs
    <3>3. mRequestQueues["session"].pending = <<m.for>>
      BY <3>1, <3>2 DEF Alone
    <3> QED
      BY <3>1, <3>3
  <2>6. q = "session" <=> Batches
    BY <1>3, <2>1 DEF QueuesApart, RequestType, Nothing
  <2> HIDE DEF popped, mixed, refused, Claims
  <2>7. seen' \in History /\ seen'.refused = refused /\ seen'.mixed = mixed
        /\ seen'.joined = seen.joined /\ seen'.forsaken = seen.forsaken
        /\ seen'.overlapped = seen.overlapped /\ seen'.collided = seen.collided
    BY <1>1, <2>3, <2>4 DEF History
  <2>8. answering' \in [Interface -> Nat] /\ answering'[i] = (IF Ends(popped, ok) THEN m.of ELSE 0)
        /\ \A j \in Interface : j # i => answering'[j] = answering[j]
    BY <1>1, <1>5 DEF popped
  <2>9. Ending(i, ok)
    BY <2>5, <2>6, <2>8 DEF Ending
  <2>10. SessionPops(i)
    <3>1. mRequestQueues["session"].pending = << >> => mRequestQueues'["session"].pending = << >>
      BY <1>2, <2>1, <2>2
    <3>2. ASSUME Batches, ~seen.overlapped, NEW g, Here(g), ~MayAnswer(i, 1, g)
          PROVE  mRequestQueues'["session"].pending = mRequestQueues["session"].pending
      BY <2>1, <2>5, <2>6, <3>2 DEF Here
    <3> QED
      BY <3>1, <3>2 DEF SessionPops
  <2>11. HistoryMoves /\ (m.op = "stop" /\ ~ok => m.of \in seen'.refused)
    BY <2>7 DEF HistoryMoves, refused
  <2>12. QueuesApart'
    <3>1. q # "session" => Tracks
      BY <2>1 DEF QueuesApart, RequestType, Nothing
    <3>2. ~Tracks => mRequestQueues'["tracking"] = Nothing /\ mRequestQueues'["niresponse"] = Nothing
      BY <1>2, <2>2, <3>1 DEF QueuesApart
    <3>3. ~Batches => mRequestQueues'["session"].pending = << >>
      BY <1>2, <2>2, <2>6 DEF QueuesApart
    <3> QED
      BY <3>2, <3>3 DEF QueuesApart, Tracks, Batches
  <2>13. SessionsUnmixed'
    <3>1. "session" \in mixed => seen.overlapped
      BY <2>5, <2>6 DEF mixed, SessionsUnmixed
    <3>2. Batches => "tracking" \notin mixed /\ "niresponse" \notin mixed
      BY <2>6 DEF mixed, SessionsUnmixed
    <3> QED
      BY <2>7, <3>1, <3>2 DEF SessionsUnmixed, Batches
  <2> QED
    BY <2>2, <2>7, <2>8, <2>9, <2>10, <2>11, <2>12, <2>13 DEF Settled
<1>6. Answer(i, mail[i][1], ok)
  BY DEF Replies
<1> QED
  BY <1>1, <1>4, <1>5, <1>6, PoppedIs

-----------------------------------------------------------------------------
(* The inductive invariant.                                                *)
TrackingNumbered == mRequestQueues["tracking"].session <= mSessionIdCounter
ClientInv ==
  /\ ClientTypeOK /\ UsesApart /\ QueuesApart /\ TrackingNumbered
  /\ Places /\ Membership
  /\ RunsAreKept /\ StartsAreKept /\ StoppedFirst
  /\ WellKept(mSessionBiDict, mSessionIdCounter)
  /\ BatchHomes /\ SilentStops /\ RemovedEnd
  /\ BatchPairs /\ SessionsUnmixed

(* An interface takes a message.                                           *)
HandledTypeOK ==
  /\ AdaptersTypeOK' /\ mRequestQueues' \in [RequestType -> Waiting]
  /\ answering' \in [Interface -> Nat] /\ told' \in BOOLEAN /\ seen' \in History
TakenWell(i) ==
  /\ Handled(i) /\ HandledTypeOK /\ UNCHANGED <<available, use>>
  /\ SessionPops(i) /\ QueuesApart' /\ SessionsUnmixed'
  /\ \A j \in Interface : j # i => answering'[j] = answering[j]
  /\ Batches /\ ~seen.overlapped =>
       answering'[i] <= mSessionIdCounter /\ \A s : answering'[i] = s /\ s # 0 => Nowhere(s)'

LEMMA TakenInv ==
  ASSUME ClientInv, NEW i \in Interface, TakenWell(i)
  PROVE  ClientInv'
<1>1. Handled(i) /\ Took(i) /\ Still /\ MembersMove(i) /\ RunningMoves(i) /\ UNCHANGED use
      /\ UNCHANGED <<callbacks, mTracking, mSessionBiDict, calling>>
  BY DEF TakenWell, Handled
<1>2. MailTypeOK /\ AdaptersTypeOK /\ Places
  BY DEF ClientInv, ClientTypeOK
<1>3. MailTypeOK'
  BY <1>1, <1>2, TakenIs DEF Took
<1>4. ClientTypeOK'
  BY <1>1, <1>3 DEF ClientInv, ClientTypeOK, TakenWell, HandledTypeOK, Still
<1>5. UsesApart'
  <2>1. \A j \in Interface : \A k \in DOMAIN mail'[j] :
           /\ j # i => k \in DOMAIN mail[j] /\ mail'[j][k] = mail[j][k]
           /\ j = i => k + 1 \in DOMAIN mail[i] /\ mail'[i][k] = mail[i][k + 1]
    BY <1>1, <1>2, TookCame
  <2> QED
    BY <1>1, <2>1 DEF ClientInv, UsesApart, Tracks, Batches
<1>6. Places'
  <2>1. 1 \in DOMAIN mail[i]
    BY <1>1, <1>2, TookCame
  <2>2. mail[i][1].gen \in 1 .. generation
    BY <1>2, <2>1 DEF Places, MessagesInUse, InUse
  <2>3. \A j \in Interface : DOMAIN members'[j] \subseteq 1 .. generation
    BY <1>1, <1>2, <2>2 DEF Places, RunningInUse, MembersMove
  <2>4. Runs(i)
    BY <1>1 DEF Runs, RunningMoves
  <2> QED
    BY <1>1, <1>2, <2>3, <2>4, PlacesTaken
<1>7. Membership'
  BY <1>1, <1>2, MembershipTaken DEF ClientInv
<1>8. RunsAreKept' /\ StartsAreKept' /\ StoppedFirst'
  BY <1>1, <1>2, KeptTaken DEF ClientInv
<1>9. WellKept(mSessionBiDict, mSessionIdCounter)'
  BY <1>1 DEF ClientInv, Still
<1>10. BatchHomes' /\ SilentStops' /\ RemovedEnd'
  BY <1>1, <1>2, LateTaken DEF ClientInv, TakenWell
<1>11. BatchPairs'
  BY <1>1, <1>2, PairsTaken DEF ClientInv, TakenWell, SessionPops
<1>12. QueuesApart' /\ SessionsUnmixed'
  BY DEF TakenWell
<1>13. TrackingNumbered'
  BY DEF ClientInv, TrackingNumbered, TakenWell, Handled, Still, RequestType
<1> QED
  BY <1>4, <1>5, <1>6, <1>7, <1>8, <1>9, <1>10, <1>11, <1>12, <1>13 DEF ClientInv

LEMMA TakesIs ==
  ASSUME ClientTypeOK, NEW i \in Interface, NEW ops, Takes(i, ops)
  PROVE  /\ Took(i) /\ Still /\ answering[i] = 0 /\ MailTypeOK'
         /\ Message(i) = mail[i][1] /\ mail[i][1] \in ClientMessage /\ mail[i][1].op \in ops
         /\ 1 \in DOMAIN mail[i]
         /\ UNCHANGED <<available, callbacks, mSessionBiDict, calling>>
<1>1. mail[i] # << >> /\ mail' = [mail EXCEPT ![i] = Tail(@)] /\ Head(mail[i]).op \in ops /\ answering[i] = 0
      /\ UNCHANGED <<dispatcher, mSessionIdCounter, object, mSessionBiDict, calling>>
  BY DEF Takes
<1>2. MailTypeOK
  BY DEF ClientTypeOK
<1>3. MailTypeOK' /\ mail[i][1] = Head(mail[i]) /\ 1 \in DOMAIN mail[i]
  BY <1>1, <1>2, TakenIs
<1>4. mail[i][1] \in ClientMessage
  BY <1>2, <1>3, MessageAt
<1> QED
  BY <1>1, <1>3, <1>4 DEF Took, Still, dispatcher, object, Message

(* A message that is not answered.                                         *)
LEMMA SilentIs ==
  ASSUME ClientInv, NEW i \in Interface, answering[i] = 0, Silent, UNCHANGED use
  PROVE  /\ mRequestQueues' \in [RequestType -> Waiting] /\ answering' \in [Interface -> Nat]
         /\ told' \in BOOLEAN /\ seen' \in History /\ SameSessions /\ HistoryMoves
         /\ SessionPops(i) /\ QueuesApart' /\ SessionsUnmixed' /\ UNCHANGED mTracking
         /\ \A j \in Interface : j # i => answering'[j] = answering[j]
         /\ answering'[i] = 0
BY DEF ClientInv, ClientTypeOK, Silent, SameSessions, HistoryMoves, SessionPops, QueuesApart,
       SessionsUnmixed, Tracks, Batches

LEMMA AddTaken ==
  ASSUME ClientInv, NEW i \in Interface, HandleAddClient(i), UNCHANGED use
  PROVE  TakenWell(i)
<1> DEFINE m == mail[i][1]
<1>1. /\ Took(i) /\ Still /\ answering[i] = 0 /\ Message(i) = m /\ m \in ClientMessage /\ m.op = "add"
      /\ UNCHANGED <<available, callbacks, mSessionBiDict, calling>>
  BY TakesIs DEF HandleAddClient, ClientInv
<1>2. members' = [members EXCEPT ![i] = Over([g \in {m.gen} |-> m.cbs], @)] /\ Silent /\ UNCHANGED running
  BY <1>1 DEF HandleAddClient
<1>3. DOMAIN members = Interface /\ AdaptersTypeOK
  BY DEF ClientInv, ClientTypeOK, AdaptersTypeOK
<1>4. DOMAIN members' = Interface
      /\ members'[i] = Over([g \in {m.gen} |-> m.cbs], members[i])
      /\ \A j \in Interface : j # i => members'[j] = members[j]
  BY <1>2, <1>3
<1>5. DOMAIN members'[i] = DOMAIN members[i] \cup {m.gen}
  BY <1>4 DEF Over
<1>6. /\ mRequestQueues' \in [RequestType -> Waiting] /\ answering' \in [Interface -> Nat]
      /\ told' \in BOOLEAN /\ seen' \in History /\ SameSessions /\ HistoryMoves
      /\ SessionPops(i) /\ QueuesApart' /\ SessionsUnmixed' /\ UNCHANGED mTracking
      /\ \A j \in Interface : j # i => answering'[j] = answering[j]
      /\ answering'[i] = 0
  BY <1>1, <1>2, SilentIs
<1>7. MembersMove(i)
  BY <1>1, <1>4, <1>5 DEF MembersMove
<1>8. RunningMoves(i)
  BY <1>1, <1>2 DEF RunningMoves, EndsSession, RemovesClient
<1>9. AdaptersTypeOK'
  BY <1>2, <1>3, <1>4 DEF AdaptersTypeOK
<1>10. 0 <= mSessionIdCounter
  BY DEF ClientInv, ClientTypeOK
<1> QED
  BY <1>1, <1>6, <1>7, <1>8, <1>9, <1>10 DEF TakenWell, Handled, HandledTypeOK, SameSessions

LEMMA RemoveTaken ==
  ASSUME ClientInv, NEW i \in Interface, HandleRemoveClient(i), UNCHANGED use
  PROVE  TakenWell(i)
<1> DEFINE m == mail[i][1]
           its == {r \in running[i] : r[1] = m.gen}
<1>1. /\ Took(i) /\ Still /\ answering[i] = 0 /\ Message(i) = m /\ m \in ClientMessage /\ m.op = "remove"
      /\ UNCHANGED <<available, callbacks, mSessionBiDict, calling>>
  BY TakesIs DEF HandleRemoveClient, ClientInv
<1>2. /\ members' = [members EXCEPT ![i] = Without(@, {m.gen})]
      /\ UNCHANGED <<mRequestQueues, mTracking, answering, told>>
  BY <1>1 DEF HandleRemoveClient
<1>3. PICK kept \in {{}, its} :
        /\ running' = [running EXCEPT ![i] = (@ \ its) \cup kept]
        /\ seen' = [seen EXCEPT !.refused = @ \cup {r[2] : r \in kept}]
  <2> DEFINE all == {r \in running[i] : r[1] = Message(i).gen}
  <2>1. \E kept \in {{}, all} :
          /\ running' = [running EXCEPT ![i] = (@ \ all) \cup kept]
          /\ seen' = [seen EXCEPT !.refused = @ \cup {r[2] : r \in kept}]
    BY DEF HandleRemoveClient
  <2>2. all = its
    BY <1>1
  <2> HIDE DEF all, its
  <2> QED
    BY <2>1, <2>2
<1>4. DOMAIN members = Interface /\ running \in [Interface -> SUBSET (Nat \X Nat)]
  BY DEF ClientInv, ClientTypeOK, AdaptersTypeOK
<1>5. DOMAIN members' = Interface
      /\ members'[i] = Without(members[i], {m.gen})
      /\ \A j \in Interface : j # i => members'[j] = members[j]
  BY <1>2, <1>4
<1>6. DOMAIN members'[i] = DOMAIN members[i] \ {m.gen}
  BY <1>5 DEF Without, Restrict
<1>7. kept \subseteq its /\ its \subseteq running[i] /\ running[i] \subseteq Nat \X Nat
  BY <1>4
<1>8. running'[i] = (running[i] \ its) \cup kept /\ \A j \in Interface : j # i => running'[j] = running[j]
  BY <1>3, <1>4
<1>9. running' \in [Interface -> SUBSET (Nat \X Nat)] /\ \A j \in Interface : running'[j] \subseteq running[j]
  BY <1>3, <1>4, <1>7, <1>8
<1>10. {r[2] : r \in kept} \subseteq Nat
  BY <1>7
<1>11. seen \in History /\ mRequestQueues \in [RequestType -> Waiting] /\ answering \in [Interface -> Nat]
       /\ told \in BOOLEAN
  BY DEF ClientInv, ClientTypeOK
<1> HIDE DEF its
<1>12. /\ seen' \in History /\ seen'.refused = seen.refused \cup {r[2] : r \in kept}
       /\ HistoryMoves /\ seen'.mixed = seen.mixed
  BY <1>3, <1>10, <1>11 DEF History, HistoryMoves
<1>13. MembersMove(i)
  BY <1>1, <1>5, <1>6 DEF MembersMove
<1>14. RunningMoves(i)
  <2>1. ASSUME NEW r \in running'[i], EndsSession(m, r[1], r[2])
        PROVE  r[2] \in seen'.refused
    <3>1. r[1] = m.gen /\ r \in running[i]
      BY <1>1, <1>9, <2>1 DEF EndsSession, RemovesClient
    <3>2. r \in kept
      BY <1>8, <2>1, <3>1 DEF its
    <3> QED
      BY <1>12, <3>2
  <2> QED
    BY <1>1, <1>9, <2>1 DEF RunningMoves
<1>15. SameSessions /\ SessionPops(i) /\ QueuesApart' /\ SessionsUnmixed'
  BY <1>2, <1>12 DEF SameSessions, SessionPops, ClientInv, QueuesApart, SessionsUnmixed, Tracks, Batches,
                     HistoryMoves
<1>16. 0 <= mSessionIdCounter
  BY DEF ClientInv, ClientTypeOK
<1> QED
  BY <1>1, <1>2, <1>5, <1>9, <1>11, <1>12, <1>13, <1>14, <1>15, <1>16
     DEF TakenWell, Handled, HandledTypeOK, SameSessions, AdaptersTypeOK

LEMMA CapabilitiesTaken ==
  ASSUME ClientInv, NEW i \in Interface, HandleRequestCapabilities(i), UNCHANGED use
  PROVE  TakenWell(i)
<1> DEFINE m == mail[i][1]
<1>1. /\ Took(i) /\ Still /\ answering[i] = 0 /\ Message(i) = m /\ m \in ClientMessage /\ m.op = "capabilities"
      /\ UNCHANGED <<available, callbacks, mSessionBiDict, calling>>
  BY TakesIs DEF HandleRequestCapabilities, ClientInv
<1>2. /\ told' = (told \/ (Registered(i) /\ m.gen = generation))
      /\ UNCHANGED <<adapters, mRequestQueues, mTracking, answering, seen>>
  BY <1>1 DEF HandleRequestCapabilities
<1>3. told' \in BOOLEAN
  BY <1>2 DEF ClientInv, ClientTypeOK
<1>4. /\ mRequestQueues \in [RequestType -> Waiting] /\ answering \in [Interface -> Nat] /\ seen \in History
      /\ AdaptersTypeOK
  BY DEF ClientInv, ClientTypeOK
<1>5. MembersMove(i) /\ RunningMoves(i) /\ AdaptersTypeOK'
  BY <1>1, <1>2, <1>4 DEF MembersMove, RunningMoves, EndsSession, RemovesClient, adapters, AdaptersTypeOK
<1>6. SameSessions /\ SessionPops(i) /\ QueuesApart' /\ SessionsUnmixed' /\ HistoryMoves
  BY <1>2 DEF SameSessions, SessionPops, ClientInv, QueuesApart, SessionsUnmixed, Tracks, Batches,
              HistoryMoves
<1>7. 0 <= mSessionIdCounter
  BY DEF ClientInv, ClientTypeOK
<1> QED
  BY <1>1, <1>2, <1>3, <1>4, <1>5, <1>6, <1>7 DEF TakenWell, Handled, HandledTypeOK, SameSessions

(* A session that failed to start, or was stopped, is nowhere any more.    *)
LEMMA EndedNowhere ==
  ASSUME MailTypeOK, Places, NEW i \in Interface, Took(i), NEW s, mail[i][1].of = s,
         \/ mail[i][1].op = "start" /\ UNCHANGED running
         \/ /\ <<mail[i][1].gen, s>> \in running[i]
            /\ \A j \in Interface : running'[j] \subseteq running[j]
            /\ <<mail[i][1].gen, s>> \notin running'[i]
  PROVE  Nowhere(s)'
<1>1. /\ 1 \in DOMAIN mail[i]
      /\ \A j \in Interface : \A k \in DOMAIN mail'[j] :
           /\ k \in Nat \ {0}
           /\ j # i => k \in DOMAIN mail[j] /\ mail'[j][k] = mail[j][k]
           /\ j = i => k + 1 \in DOMAIN mail[i] /\ mail'[i][k] = mail[i][k + 1]
  BY TookCame
<1> SUFFICES ASSUME NEW j \in Interface
             PROVE  /\ \A k \in DOMAIN mail'[j] : ~Starting(mail'[j][k], s)
                    /\ \A r \in running'[j] : r[2] # s
  BY DEF Nowhere, NotAt
<1> DEFINE From(k) == IF j = i THEN k + 1 ELSE k
<1>2. \A k \in DOMAIN mail'[j] : /\ From(k) \in DOMAIN mail[j] /\ mail'[j][k] = mail[j][From(k)]
                                 /\ j = i => From(k) # 1
  BY <1>1
<1> HIDE DEF From
<1>3. CASE mail[i][1].op = "start" /\ UNCHANGED running
  BY <1>1, <1>2, <1>3 DEF Places, StartsOnce, StartsBeforeRuns, Starting
<1>4. CASE /\ <<mail[i][1].gen, s>> \in running[i]
           /\ \A h \in Interface : running'[h] \subseteq running[h]
           /\ <<mail[i][1].gen, s>> \notin running'[i]
  <2>1. <<mail[i][1].gen, s>>[2] = s
    OBVIOUS
  <2>2. ASSUME NEW r \in running'[j], r[2] = s
        PROVE  FALSE
    BY <1>4, <2>1, <2>2 DEF Places, RunsOnce
  <2>3. ASSUME NEW k \in DOMAIN mail'[j], Starting(mail'[j][k], s)
        PROVE  FALSE
    BY <1>2, <1>4, <2>1, <2>3 DEF Places, StartsBeforeRuns, Starting
  <2> QED
    BY <2>2, <2>3
<1> QED
  BY <1>3, <1>4

LEMMA RepliedWell ==
  ASSUME ClientInv, NEW i \in Interface, Took(i), Still, mail[i][1] \in ClientMessage, 1 \in DOMAIN mail[i],
         UNCHANGED <<use, available, callbacks, mSessionBiDict, calling, members>>,
         NEW ok \in BOOLEAN, Replies(i, ok), running' \in [Interface -> SUBSET (Nat \X Nat)], RunningMoves(i),
         mail[i][1].op \notin {"add", "remove"},
         mail[i][1].op = "start" /\ ~ok => UNCHANGED running,
         mail[i][1].op = "stop" /\ ok =>
           /\ <<mail[i][1].gen, mail[i][1].of>> \in running[i]
           /\ \A j \in Interface : running'[j] \subseteq running[j]
           /\ <<mail[i][1].gen, mail[i][1].of>> \notin running'[i]
  PROVE  TakenWell(i)
<1> DEFINE m == mail[i][1]
<1>1. /\ mRequestQueues \in [RequestType -> Waiting] /\ answering \in [Interface -> Nat] /\ seen \in History
      /\ use \in Uses /\ QueuesApart /\ BatchPairs /\ SessionsUnmixed /\ MailTypeOK /\ Places /\ AdaptersTypeOK
      /\ mSessionIdCounter \in Nat /\ told \in BOOLEAN /\ UsesApart
  BY DEF ClientInv, ClientTypeOK
<1>2. Settled(i, ok) /\ QueuesApart' /\ SessionsUnmixed'
  BY <1>1, AnswerSettles
<1>3. InUse(i, m, mSessionIdCounter, generation, loaded, life = "live")
  BY <1>1 DEF Places, MessagesInUse
<1>4. Batches /\ ~seen.overlapped =>
        answering'[i] <= mSessionIdCounter /\ \A s : answering'[i] = s /\ s # 0 => Nowhere(s)'
  <2> SUFFICES ASSUME Batches, ~seen.overlapped, answering'[i] # 0
               PROVE  answering'[i] <= mSessionIdCounter /\ \A s : answering'[i] = s => Nowhere(s)'
    BY <1>1
  <2>1. answering'[i] = m.of /\ Ends(m.for, ok)
    BY <1>2 DEF Settled, Ending
  <2>2. ~Tracks
    BY DEF Tracks, Batches
  <2>3. m.op # "ni"
    BY <1>1, <2>2 DEF UsesApart
  <2>4. (m.op = "start" /\ ~ok) \/ (m.op = "stop" /\ ok)
    BY <1>3, <2>1 DEF InUse, Ends
  <2>5. ASSUME NEW s, m.of = s
        PROVE  Nowhere(s)'
    BY <1>1, <2>4, <2>5, EndedNowhere
  <2> QED
    BY <1>3, <2>1, <2>3, <2>5 DEF InUse
<1>5. MembersMove(i)
  BY DEF MembersMove
<1>6. UNCHANGED mTracking /\ UNCHANGED told
  BY DEF Replies, Answer
<1> QED
  BY <1>1, <1>2, <1>4, <1>5, <1>6
     DEF TakenWell, Handled, HandledTypeOK, SameSessions, Settled, Ending, AdaptersTypeOK

LEMMA StartTaken ==
  ASSUME ClientInv, NEW i \in Interface, HandleStart(i), UNCHANGED use
  PROVE  TakenWell(i)
<1> DEFINE m == mail[i][1]
<1>1. /\ Took(i) /\ Still /\ answering[i] = 0 /\ Message(i) = m /\ m \in ClientMessage /\ m.op = "start"
      /\ 1 \in DOMAIN mail[i]
      /\ UNCHANGED <<available, callbacks, mSessionBiDict, calling>>
  BY TakesIs DEF HandleStart, ClientInv
<1>2. UNCHANGED members
  BY DEF HandleStart
<1>3. running \in [Interface -> SUBSET (Nat \X Nat)] /\ AdaptersTypeOK /\ mSessionIdCounter \in Nat
  BY DEF ClientInv, ClientTypeOK, AdaptersTypeOK
<1>4. CASE Silent /\ UNCHANGED running
  <2>1. /\ mRequestQueues' \in [RequestType -> Waiting] /\ answering' \in [Interface -> Nat]
        /\ told' \in BOOLEAN /\ seen' \in History /\ SameSessions /\ HistoryMoves
        /\ SessionPops(i) /\ QueuesApart' /\ SessionsUnmixed' /\ UNCHANGED mTracking
        /\ \A j \in Interface : j # i => answering'[j] = answering[j]
        /\ answering'[i] = 0
    BY <1>1, <1>4, SilentIs
  <2>2. MembersMove(i) /\ RunningMoves(i) /\ AdaptersTypeOK'
    BY <1>1, <1>2, <1>3, <1>4 DEF MembersMove, RunningMoves, EndsSession, RemovesClient, AdaptersTypeOK
  <2>3. 0 <= mSessionIdCounter
    BY <1>3
  <2> QED
    BY <1>1, <2>1, <2>2, <2>3 DEF TakenWell, Handled, HandledTypeOK, SameSessions
<1>5. ASSUME NEW ok \in BOOLEAN, Registered(i), Answer(i, Message(i), ok),
             running' = [running EXCEPT ![i] = IF ok THEN @ \cup {Session(i)} ELSE @]
      PROVE  TakenWell(i)
  <2>1. m.gen \in DOMAIN members[i] /\ Session(i) = <<m.gen, m.of>>
    BY <1>1, <1>5 DEF Registered, Session
  <2>2. <<m.gen, m.of>> \in Nat \X Nat
    BY <1>1 DEF ClientMessage
  <2>3. /\ running' \in [Interface -> SUBSET (Nat \X Nat)]
        /\ \A j \in Interface : \A r \in running'[j] : r \in running[j] \/ (j = i /\ ok /\ r = <<m.gen, m.of>>)
        /\ ~ok => UNCHANGED running
    BY <1>3, <1>5, <2>1, <2>2
  <2>4. RunningMoves(i)
    BY <1>1, <2>1, <2>3 DEF RunningMoves, EndsSession, RemovesClient
  <2>5. InUse(i, m, mSessionIdCounter, generation, loaded, life = "live")
    BY <1>1 DEF ClientInv, Places, MessagesInUse
  <2>6. MayAnswer(i, 1, m.gen)
    BY <1>1, <2>5 DEF MayAnswer, Wants, InUse
  <2>7. Replies(i, ok)
    BY <1>1, <1>5, <2>6 DEF Replies
  <2> QED
    BY <1>1, <1>2, <2>3, <2>4, <2>7, RepliedWell
<1> QED
  BY <1>4, <1>5 DEF HandleStart

LEMMA StopTaken ==
  ASSUME ClientInv, NEW i \in Interface, HandleStop(i), UNCHANGED use
  PROVE  TakenWell(i)
<1> DEFINE m == mail[i][1]
<1>1. /\ Took(i) /\ Still /\ answering[i] = 0 /\ Message(i) = m /\ m \in ClientMessage /\ m.op = "stop"
      /\ 1 \in DOMAIN mail[i]
      /\ UNCHANGED <<available, callbacks, mSessionBiDict, calling>>
  BY TakesIs DEF HandleStop, ClientInv
<1>2. UNCHANGED members /\ Session(i) = <<m.gen, m.of>>
  BY <1>1 DEF HandleStop, Session
<1>3. running \in [Interface -> SUBSET (Nat \X Nat)] /\ AdaptersTypeOK /\ mSessionIdCounter \in Nat
      /\ mRequestQueues \in [RequestType -> Waiting]
  BY DEF ClientInv, ClientTypeOK, AdaptersTypeOK
<1>4. ASSUME NEW r \in Nat \X Nat, EndsSession(m, r[1], r[2])
      PROVE  r = <<m.gen, m.of>>
  BY <1>1, <1>4 DEF EndsSession, RemovesClient
<1>5. CASE Session(i) \notin running[i] /\ Silent /\ UNCHANGED running
  <2>1. /\ mRequestQueues' \in [RequestType -> Waiting] /\ answering' \in [Interface -> Nat]
        /\ told' \in BOOLEAN /\ seen' \in History /\ SameSessions /\ HistoryMoves
        /\ SessionPops(i) /\ QueuesApart' /\ SessionsUnmixed' /\ UNCHANGED mTracking
        /\ \A j \in Interface : j # i => answering'[j] = answering[j]
        /\ answering'[i] = 0
    BY <1>1, <1>5, SilentIs
  <2>2. MembersMove(i) /\ AdaptersTypeOK'
    BY <1>1, <1>2, <1>3, <1>5 DEF MembersMove, AdaptersTypeOK
  <2>3. RunningMoves(i)
    BY <1>1, <1>2, <1>3, <1>4, <1>5 DEF RunningMoves
  <2>4. 0 <= mSessionIdCounter
    BY <1>3
  <2> QED
    BY <1>1, <2>1, <2>2, <2>3, <2>4 DEF TakenWell, Handled, HandledTypeOK, SameSessions
<1>6. ASSUME NEW ok \in BOOLEAN, Session(i) \in running[i], Answer(i, Message(i), ok),
             running' = [running EXCEPT ![i] = IF ok THEN @ \ {Session(i)} ELSE @]
      PROVE  TakenWell(i)
  <2>1. /\ running' \in [Interface -> SUBSET (Nat \X Nat)]
        /\ \A j \in Interface : running'[j] \subseteq running[j]
        /\ ok => <<m.gen, m.of>> \notin running'[i]
    BY <1>2, <1>3, <1>6
  <2>2. InUse(i, m, mSessionIdCounter, generation, loaded, life = "live")
    BY <1>1 DEF ClientInv, Places, MessagesInUse
  <2>3. Replies(i, ok)
    <3>1. CASE m.for # NoRequest
      BY <1>1, <1>2, <1>6, <3>1 DEF Replies, MayAnswer, Wants
    <3>2. CASE m.for = NoRequest /\ Batches
      <4>1. m.of # 0
        <5>1. <<m.gen, m.of>>[2] \in 2 .. mSessionIdCounter
          BY <1>2, <1>6 DEF ClientInv, Places, RunningInUse
        <5> QED
          BY <5>1
      <4>2. ~HasSession(mSessionBiDict, m.of)
        BY <1>1, <3>2, <4>1 DEF ClientInv, SilentStops, SilentStop
      <4>3. ~Tracks
        BY <3>2 DEF Tracks, Batches
      <4>4. mRequestQueues["tracking"].pending = << >> /\ mRequestQueues["niresponse"].pending = << >>
        BY <4>3 DEF ClientInv, QueuesApart, Nothing
      <4>5. Claimed(m.of) = {}
        BY <4>2, <4>4 DEF Claimed, Owner
      <4> QED
        BY <1>1, <1>6, <4>5 DEF Replies
    <3> QED
      BY <1>1, <1>6, <3>1, <3>2 DEF Replies
  <2>4. ~ok => m.of \in seen'.refused
    <3>1. Settled(i, ok)
      BY <1>1, <1>3, <2>3, AnswerSettles DEF ClientInv, ClientTypeOK
    <3> QED
      BY <1>1, <3>1 DEF Settled
  <2>5. RunningMoves(i)
    <3>1. ASSUME NEW r \in running'[i], EndsSession(m, r[1], r[2])
          PROVE  r[2] \in seen'.refused
      <4>1. r = <<m.gen, m.of>>
        BY <1>4, <2>1, <3>1
      <4> QED
        BY <2>1, <2>4, <3>1, <4>1
    <3> QED
      BY <2>1, <3>1 DEF RunningMoves
  <2> QED
    BY <1>1, <1>2, <1>6, <2>1, <2>3, <2>5, RepliedWell
<1> QED
  BY <1>5, <1>6 DEF HandleStop

LEMMA OtherTaken ==
  ASSUME ClientInv, NEW i \in Interface, HandleOther(i), UNCHANGED use
  PROVE  TakenWell(i)
<1> DEFINE m == mail[i][1]
<1>1. /\ Took(i) /\ Still /\ answering[i] = 0 /\ Message(i) = m /\ m \in ClientMessage
      /\ m.op \in {"update", "get", "ni"} /\ 1 \in DOMAIN mail[i]
      /\ UNCHANGED <<available, callbacks, mSessionBiDict, calling>>
  BY TakesIs DEF HandleOther, ClientInv
<1>2. UNCHANGED <<members, running>> /\ Session(i) = <<m.gen, m.of>>
  BY <1>1 DEF HandleOther, Session, adapters
<1>3. running \in [Interface -> SUBSET (Nat \X Nat)] /\ AdaptersTypeOK /\ mSessionIdCounter \in Nat
  BY DEF ClientInv, ClientTypeOK, AdaptersTypeOK
<1>4. MembersMove(i) /\ RunningMoves(i) /\ AdaptersTypeOK'
  BY <1>1, <1>2, <1>3 DEF MembersMove, RunningMoves, EndsSession, RemovesClient, AdaptersTypeOK
<1>5. CASE Silent
  <2>1. /\ mRequestQueues' \in [RequestType -> Waiting] /\ answering' \in [Interface -> Nat]
        /\ told' \in BOOLEAN /\ seen' \in History /\ SameSessions /\ HistoryMoves
        /\ SessionPops(i) /\ QueuesApart' /\ SessionsUnmixed' /\ UNCHANGED mTracking
        /\ \A j \in Interface : j # i => answering'[j] = answering[j]
        /\ answering'[i] = 0
    BY <1>1, <1>5, SilentIs
  <2>2. 0 <= mSessionIdCounter
    BY <1>3
  <2> QED
    BY <1>1, <1>4, <2>1, <2>2 DEF TakenWell, Handled, HandledTypeOK, SameSessions
<1>6. ASSUME NEW ok \in BOOLEAN, Answer(i, Message(i), ok), m.op = "ni" \/ Session(i) \in running[i]
      PROVE  TakenWell(i)
  <2>1. InUse(i, m, mSessionIdCounter, generation, loaded, life = "live")
    BY <1>1 DEF ClientInv, Places, MessagesInUse
  <2>2. Batches => m.op # "ni"
    <3>1. Batches => ~Tracks
      BY DEF Tracks, Batches
    <3> QED
      BY <1>1, <3>1 DEF ClientInv, UsesApart
  <2>3. m.op # "ni" => MayAnswer(i, 1, m.gen)
    BY <1>1, <1>2, <1>6, <2>1 DEF MayAnswer, Wants, InUse
  <2>4. Replies(i, ok)
    BY <1>1, <1>6, <2>2, <2>3 DEF Replies
  <2>5. running' \in [Interface -> SUBSET (Nat \X Nat)]
    BY <1>2, <1>3
  <2> QED
    BY <1>1, <1>2, <1>4, <2>4, <2>5, RepliedWell
<1> QED
  BY <1>1, <1>5, <1>6 DEF HandleOther

-----------------------------------------------------------------------------
(* Steps without a message.                                                *)
LeftWell ==
  /\ Still /\ UNCHANGED <<mail, members, use, mTracking, mRequestQueues, available, callbacks, told>>
  /\ running' \in [Interface -> SUBSET (Nat \X Nat)]
  /\ \A j \in Interface : running'[j] \subseteq running[j]
  /\ answering' \in [Interface -> Nat]
  /\ \A j \in Interface : answering'[j] = 0 \/ answering'[j] = answering[j]
  /\ seen' \in History /\ seen'.refused = seen.refused /\ seen'.mixed = seen.mixed
  /\ seen'.joined = seen.joined /\ seen'.forsaken = seen.forsaken
  /\ (seen.overlapped => seen'.overlapped)
  /\ calling' = NoCall \/ calling' \in [op : {"stop", "get", "update"}, id : Id, mode : SessionMode]
  /\ (calling' # NoCall => calling' = calling
                           \/ (Batches /\ life = "live" /\ (~seen'.overlapped => mRequestQueues["session"].pending = << >>)))
  /\ WellKept(mSessionBiDict', mSessionIdCounter)
  /\ (mSessionBiDict = EmptyDict => Batches \/ mSessionBiDict' = EmptyDict)
  /\ \A s \in DOMAIN mSessionBiDict'.backward :
       s \in DOMAIN mSessionBiDict.backward /\ mSessionBiDict'.ext[s] = mSessionBiDict.ext[s]
  /\ \A g, s : Here(g) /\ HasSession(mSessionBiDict, s) =>
       \/ s \in DOMAIN mSessionBiDict'.backward \/ seen.overlapped
       \/ \A i \in Interface : <<g, s>> \notin running'[i]
                               /\ \A k \in DOMAIN mail[i] : ~StartsIt(mail[i][k], g, s)

LEMMA LeftInv ==
  ASSUME ClientInv, LeftWell
  PROVE  ClientInv'
<1>1. MailTypeOK /\ AdaptersTypeOK /\ Places /\ mSessionIdCounter \in Nat /\ answering \in [Interface -> Nat]
  BY DEF ClientInv, ClientTypeOK
<1>2. MailTypeOK'
  BY <1>1 DEF LeftWell, MailTypeOK
<1>3. ClientTypeOK'
  BY <1>2 DEF ClientInv, ClientTypeOK, AdaptersTypeOK, LeftWell, Still
<1>4. UsesApart'
  BY DEF ClientInv, UsesApart, LeftWell, Tracks, Batches
<1>5. QueuesApart' /\ SessionsUnmixed'
  BY DEF ClientInv, QueuesApart, SessionsUnmixed, LeftWell, Tracks, Batches
<1>6. Places'
  BY <1>1, PlacesStay DEF LeftWell
<1>7. Membership'
  BY MembershipStay DEF ClientInv, LeftWell
<1>8. \A s : Excused(s) => Excused(s)'
  BY DEF Excused, LeftWell
<1>9. ASSUME NEW g, NEW s, KnownHere(g, s)
      PROVE  KnownHere(g, s)' \/ Excused(s)'
             \/ \A i \in Interface : /\ <<g, s>> \notin running'[i]
                                     /\ \A k \in DOMAIN mail[i] : ~StartsIt(mail[i][k], g, s)
  <2>1. Here(g)' /\ Here(g)
    BY <1>9 DEF KnownHere, Here, LeftWell, Still
  <2>2. CASE mRequestQueues["tracking"].session = s
    BY <2>1, <2>2 DEF KnownHere, Known, LeftWell
  <2>3. CASE HasSession(mSessionBiDict, s)
    <3>1. \/ s \in DOMAIN mSessionBiDict'.backward \/ seen.overlapped
          \/ \A i \in Interface : <<g, s>> \notin running'[i]
                                  /\ \A k \in DOMAIN mail[i] : ~StartsIt(mail[i][k], g, s)
      BY <2>1, <2>3 DEF LeftWell
    <3>2. s \in DOMAIN mSessionBiDict'.backward => KnownHere(g, s)'
      BY <2>1 DEF KnownHere, Known, HasSession
    <3>3. seen.overlapped => Excused(s)'
      BY DEF Excused, LeftWell
    <3> QED
      BY <3>1, <3>2, <3>3
  <2> QED
    BY <1>9, <2>2, <2>3 DEF KnownHere, Known
<1>10. RunsAreKept' /\ StartsAreKept' /\ StoppedFirst'
  <2>1. /\ RunsAreKept /\ StartsAreKept /\ StoppedFirst /\ Still /\ UNCHANGED <<mail, members, mTracking>>
        /\ mRequestQueues'["tracking"].session = mRequestQueues["tracking"].session
        /\ \A j \in Interface : running'[j] \subseteq running[j]
        /\ seen.refused \subseteq seen'.refused
    BY DEF ClientInv, LeftWell
  <2> QED
    BY <1>8, <1>9, <2>1, KeptStay
<1>11. BatchHomes' /\ SilentStops' /\ RemovedEnd'
  <2>1. \A s : Batching(s)' => Batching(s)
    BY DEF Batching, LeftWell
  <2>2. /\ BatchHomes /\ SilentStops /\ RemovedEnd /\ UNCHANGED <<mail, mSessionIdCounter, use>>
        /\ seen.overlapped => seen'.overlapped /\ \A j \in Interface : running'[j] \subseteq running[j]
        /\ \A j \in Interface : answering'[j] = 0 \/ answering'[j] = answering[j]
        /\ DOMAIN mSessionBiDict'.backward \subseteq DOMAIN mSessionBiDict.backward
    BY DEF ClientInv, LeftWell, Still
  <2> QED
    BY <1>1, <2>1, <2>2, LateStay DEF LeftWell
<1>12. BatchPairs'
  <2>1. /\ BatchPairs /\ Still /\ UNCHANGED <<mail, use>> /\ (seen.overlapped => seen'.overlapped)
        /\ \A j \in Interface : running'[j] \subseteq running[j]
        /\ mRequestQueues'["session"].pending = mRequestQueues["session"].pending
        /\ Batches /\ ~seen'.overlapped /\ calling' # NoCall =>
             calling' = calling \/ mRequestQueues["session"].pending = << >>
    BY DEF ClientInv, LeftWell
  <2> QED
    BY <2>1, PairsStay
<1>13. WellKept(mSessionBiDict, mSessionIdCounter)'
  BY DEF LeftWell, Still
<1>14. TrackingNumbered'
  BY DEF ClientInv, TrackingNumbered, LeftWell, Still
<1> QED
  BY <1>3, <1>4, <1>5, <1>6, <1>7, <1>10, <1>11, <1>12, <1>13, <1>14 DEF ClientInv

LEMMA RemoveSessionInv ==
  ASSUME ClientInv, NEW i \in Interface, RemoveSession(i), UNCHANGED use
  PROVE  ClientInv'
<1> DEFINE s == answering[i]
           d == mSessionBiDict
<1>1. /\ answering[i] # 0 /\ answering' = [answering EXCEPT ![i] = 0]
      /\ mSessionBiDict' # d => life = "live" /\ HasSession(d, s) /\ mSessionBiDict' = RmBySession(d, s)
      /\ UNCHANGED <<available, loaded, callbacks, mail, members, running, mSessionIdCounter, life,
                     generation, mRequestQueues, mTracking, calling, told, seen>>
  BY DEF RemoveSession, dispatcher, adapters, object
<1>2. /\ answering \in [Interface -> Nat] /\ running \in [Interface -> SUBSET (Nat \X Nat)]
      /\ seen \in History /\ WellKept(d, mSessionIdCounter) /\ mSessionIdCounter \in Nat
      /\ calling = NoCall \/ calling \in [op : {"stop", "get", "update"}, id : Id, mode : SessionMode]
  BY DEF ClientInv, ClientTypeOK, AdaptersTypeOK
<1>3. s \in Nat /\ s # 0
  BY <1>1, <1>2
<1>4. /\ answering' \in [Interface -> Nat]
      /\ \A j \in Interface : answering'[j] = 0 \/ answering'[j] = answering[j]
  BY <1>1, <1>2
<1>5. CASE mSessionBiDict' # d
  <2>1. s \in DOMAIN d.backward \ {0} /\ mSessionBiDict' = RmBySession(d, s)
    BY <1>1, <1>3, <1>5 DEF HasSession
  <2>2. /\ WellKept(mSessionBiDict', mSessionIdCounter)
        /\ DOMAIN mSessionBiDict'.backward = DOMAIN d.backward \ {s}
        /\ \A z \in DOMAIN d.backward \ {s} : mSessionBiDict'.ext[z] = d.ext[z]
    BY <1>2, <2>1, RmBySessionKept
  <2>3. Batches /\ d # EmptyDict
    <3>1. d # EmptyDict
      BY <2>1 DEF EmptyDict
    <3> QED
      BY <3>1 DEF ClientInv, UsesApart
  <2>4. seen.overlapped \/ Nowhere(s)
    BY <1>3, <2>3 DEF ClientInv, RemovedEnd
  <2>5. ASSUME NEW g, NEW z, HasSession(d, z)
        PROVE  \/ z \in DOMAIN mSessionBiDict'.backward \/ seen.overlapped
               \/ \A j \in Interface : <<g, z>> \notin running'[j]
                                       /\ \A k \in DOMAIN mail[j] : ~StartsIt(mail[j][k], g, z)
    <3>1. CASE z = s /\ Nowhere(s)
      <4>1. <<g, z>>[2] = z
        OBVIOUS
      <4> QED
        BY <1>1, <3>1, <4>1 DEF Nowhere, NotAt, StartsIt, Starting
    <3> QED
      BY <2>2, <2>4, <2>5, <3>1 DEF HasSession
  <2>6. LeftWell
    BY <1>1, <1>2, <1>4, <2>2, <2>3, <2>5 DEF LeftWell, Still
  <2> QED
    BY <2>6, LeftInv
<1>6. CASE mSessionBiDict' = d
  <2>1. LeftWell
    BY <1>1, <1>2, <1>4, <1>6 DEF LeftWell, Still, HasSession
  <2> QED
    BY <2>1, LeftInv
<1> QED
  BY <1>5, <1>6

LEMMA TripLostInv ==
  ASSUME ClientInv, NEW s \in 2 .. MaxSession, BeforeBatchingStatusCb(s), UNCHANGED <<use, mSessionBiDict>>
  PROVE  ClientInv'
<1>1. /\ running' = [running EXCEPT !["flp"] = @ \ {<<generation, s>>}]
      /\ UNCHANGED <<available, loaded, callbacks, mail, members, mSessionIdCounter, life,
                     generation, mRequestQueues, mTracking, calling, answering, told, seen>>
  BY DEF BeforeBatchingStatusCb, dispatcher, object
<1>2. /\ answering \in [Interface -> Nat] /\ running \in [Interface -> SUBSET (Nat \X Nat)]
      /\ seen \in History /\ WellKept(mSessionBiDict, mSessionIdCounter)
      /\ calling = NoCall \/ calling \in [op : {"stop", "get", "update"}, id : Id, mode : SessionMode]
  BY DEF ClientInv, ClientTypeOK, AdaptersTypeOK
<1>3. /\ running' \in [Interface -> SUBSET (Nat \X Nat)]
      /\ \A j \in Interface : running'[j] \subseteq running[j]
  BY <1>1, <1>2
<1>4. LeftWell
  BY <1>1, <1>2, <1>3 DEF LeftWell, Still, HasSession
<1> QED
  BY <1>4, LeftInv

LEMMA TripOverInv ==
  ASSUME ClientInv, NEW s \in 2 .. MaxSession, BeforeBatchingStatusCb(s), UNCHANGED use,
         mSessionBiDict' # mSessionBiDict
  PROVE  ClientInv'
<1> DEFINE d == mSessionBiDict
<1>1. /\ <<generation, s>> \in running["flp"] /\ HasSession(d, s)
      /\ running' = [running EXCEPT !["flp"] = @ \ {<<generation, s>>}]
      /\ mSessionBiDict' = RmBySession(d, s)
      /\ UNCHANGED <<available, loaded, callbacks, mail, members, mSessionIdCounter, life,
                     generation, mRequestQueues, mTracking, calling, answering, told, seen>>
  BY DEF BeforeBatchingStatusCb, dispatcher, object
<1>2. /\ answering \in [Interface -> Nat] /\ running \in [Interface -> SUBSET (Nat \X Nat)]
      /\ seen \in History /\ WellKept(d, mSessionIdCounter) /\ mSessionIdCounter \in Nat
      /\ calling = NoCall \/ calling \in [op : {"stop", "get", "update"}, id : Id, mode : SessionMode]
  BY DEF ClientInv, ClientTypeOK, AdaptersTypeOK
<1>3. s \in DOMAIN d.backward \ {0} /\ "flp" \in Interface
  BY <1>1 DEF HasSession, Interface
<1>4. /\ WellKept(mSessionBiDict', mSessionIdCounter)
      /\ DOMAIN mSessionBiDict'.backward = DOMAIN d.backward \ {s}
      /\ \A z \in DOMAIN d.backward \ {s} : mSessionBiDict'.ext[z] = d.ext[z]
  BY <1>1, <1>2, <1>3, RmBySessionKept
<1>5. Batches
  <2>1. d # EmptyDict
    BY <1>3 DEF EmptyDict
  <2> QED
    BY <2>1 DEF ClientInv, UsesApart
<1>6. /\ running' \in [Interface -> SUBSET (Nat \X Nat)]
      /\ \A j \in Interface : running'[j] \subseteq running[j]
      /\ <<generation, s>> \notin running'["flp"]
  BY <1>1, <1>2, <1>3
<1>7. ASSUME NEW g, NEW z, HasSession(d, z), Here(g)
      PROVE  \/ z \in DOMAIN mSessionBiDict'.backward \/ seen.overlapped
             \/ \A j \in Interface : <<g, z>> \notin running'[j]
                                     /\ \A k \in DOMAIN mail[j] : ~StartsIt(mail[j][k], g, z)
  <2>1. CASE z = s
    <3>1. g = generation /\ <<generation, s>>[2] = s
      BY <1>7 DEF Here
    <3>2. ASSUME NEW j \in Interface, <<g, s>> \in running'[j]
          PROVE  FALSE
      BY <1>1, <1>3, <1>6, <3>1, <3>2 DEF ClientInv, Places, RunsOnce
    <3>3. ASSUME NEW j \in Interface, NEW k \in DOMAIN mail[j], StartsIt(mail[j][k], g, s)
          PROVE  FALSE
      BY <1>1, <1>3, <3>1, <3>3 DEF ClientInv, Places, StartsBeforeRuns, StartsIt
    <3> QED
      BY <2>1, <3>2, <3>3
  <2> QED
    BY <1>4, <1>7, <2>1 DEF HasSession
<1>8. LeftWell
  BY <1>1, <1>2, <1>4, <1>5, <1>6, <1>7 DEF LeftWell, Still
<1> QED
  BY <1>8, LeftInv

LEMMA LookUpInv ==
  ASSUME ClientInv, Batches, NEW op \in {"stop", "get", "update"}, NEW id \in Id, NEW mode \in SessionMode,
         LookUp(op, id, mode), UNCHANGED use
  PROVE  ClientInv'
<1>1. /\ life = "live"
      /\ calling' = [op |-> op, id |-> id, mode |-> mode]
      /\ seen' = [seen EXCEPT !.overlapped = @ \/ Overlaps]
      /\ UNCHANGED <<available, loaded, callbacks, mail, members, running, mSessionIdCounter, life,
                     generation, mRequestQueues, mTracking, mSessionBiDict, answering, told>>
  BY DEF LookUp, CanCall, dispatcher, adapters, object, library
<1>2. /\ answering \in [Interface -> Nat] /\ running \in [Interface -> SUBSET (Nat \X Nat)]
      /\ seen \in History /\ WellKept(mSessionBiDict, mSessionIdCounter)
  BY DEF ClientInv, ClientTypeOK, AdaptersTypeOK
<1>3. /\ seen' \in History /\ seen'.refused = seen.refused /\ seen'.mixed = seen.mixed
      /\ seen'.joined = seen.joined /\ seen'.forsaken = seen.forsaken
      /\ (seen.overlapped => seen'.overlapped)
      /\ (~seen'.overlapped => ~Overlaps)
  <2> DEFINE over == seen.overlapped \/ Overlaps
  <2>1. seen' = [seen EXCEPT !.overlapped = over] /\ over \in BOOLEAN
    BY <1>1, <1>2 DEF History
  <2>2. seen' \in History /\ seen'.refused = seen.refused /\ seen'.mixed = seen.mixed
        /\ seen'.joined = seen.joined /\ seen'.forsaken = seen.forsaken /\ seen'.overlapped = over
    <3> HIDE DEF over
    <3> QED
      BY <1>2, <2>1 DEF History
  <2> QED
    BY <2>2
<1>4. calling' \in [op : {"stop", "get", "update"}, id : Id, mode : SessionMode]
  BY <1>1
<1>5. ~seen'.overlapped => mRequestQueues["session"].pending = << >>
  BY <1>3 DEF Overlaps
<1>6. LeftWell
  BY <1>1, <1>2, <1>3, <1>4, <1>5 DEF LeftWell, Still, HasSession
<1> QED
  BY <1>6, LeftInv

-----------------------------------------------------------------------------
(* Calls.                                                                  *)
PostedTypeOK ==
  /\ available' \subseteq Interface /\ loaded' \subseteq Interface /\ callbacks' \subseteq CallbackKind
  /\ mSessionIdCounter' \in Nat \ {0} /\ life' \in {"none", "live", "destroyed"} /\ generation' \in Nat
  /\ (life' # "none" => generation' > 0)
  /\ mRequestQueues' \in [RequestType -> Waiting] /\ mTracking' \in BOOLEAN
  /\ calling' = NoCall \/ (calling' \in [op : {"stop", "get", "update"}, id : Id, mode : SessionMode] /\ life' = "live")
  /\ told' \in BOOLEAN /\ seen' \in History
PostedWell(A, a, B, b) ==
  /\ Posts(A, a, B, b) /\ Grows /\ PostedTypeOK /\ QueuesApart' /\ TrackingNumbered'
  /\ JoinsOwed(A, a, B, b) /\ SessionsOwed(A, a, B, b)
  /\ DictionaryOwed(A, a, B, b) /\ RequestOwed(a, b)
  /\ WellKept(mSessionBiDict', mSessionIdCounter')
  /\ seen'.mixed = seen.mixed
  /\ (~Tracks => a.op # "ni" /\ b.op # "ni")
  /\ (~Batches => mSessionBiDict' = EmptyDict /\ calling' = NoCall)

LEMMA PostedInv ==
  ASSUME ClientInv, NEW A, NEW B, NEW a, NEW b, PostedWell(A, a, B, b)
  PROVE  ClientInv'
<1>1. /\ MailTypeOK /\ AdaptersTypeOK /\ Places /\ Membership /\ mSessionIdCounter \in Nat
      /\ answering \in [Interface -> Nat] /\ generation \in Nat
      /\ RunsAreKept /\ StartsAreKept /\ StoppedFirst /\ BatchHomes /\ SilentStops /\ RemovedEnd /\ BatchPairs
  BY DEF ClientInv, ClientTypeOK
<1>2. /\ Posts(A, a, B, b) /\ Grows /\ JoinsOwed(A, a, B, b) /\ SessionsOwed(A, a, B, b)
      /\ DictionaryOwed(A, a, B, b) /\ RequestOwed(a, b)
  BY DEF PostedWell
<1>3. /\ a \in ClientMessage /\ b \in ClientMessage /\ mail' = Posted(Posted(mail, A, a), B, b)
      /\ UNCHANGED <<members, running>>
  BY <1>2 DEF Posts, adapters
<1>4. MailTypeOK'
  BY <1>1, <1>3, PostedIs
<1>5. ClientTypeOK'
  <2>1. UNCHANGED <<answering, use>>
    BY <1>2 DEF DictionaryOwed
  <2> QED
    BY <1>3, <1>4, <2>1 DEF ClientInv, ClientTypeOK, AdaptersTypeOK, PostedWell, PostedTypeOK
<1>6. UsesApart'
  <2>1. \A i \in Interface : \A k \in DOMAIN mail'[i] : Came(i, k, A, a, B, b)
    BY <1>1, <1>2, PostedCame
  <2>2. UNCHANGED use
    BY <1>2 DEF DictionaryOwed
  <2>3. ASSUME ~Tracks, NEW i \in Interface, NEW k \in DOMAIN mail'[i]
        PROVE  mail'[i][k].op # "ni"
    BY <2>1, <2>3 DEF ClientInv, UsesApart, PostedWell, Came
  <2> QED
    BY <2>2, <2>3 DEF UsesApart, PostedWell, Tracks, Batches
<1>7. SessionsUnmixed'
  BY <1>2 DEF ClientInv, SessionsUnmixed, PostedWell, DictionaryOwed, Batches
<1>8. Places'
  BY <1>1, <1>2, PlacesPosted
<1>9. Membership'
  BY <1>1, <1>2, MembershipPosted
<1>10. RunsAreKept' /\ StartsAreKept' /\ StoppedFirst'
  BY <1>1, <1>2, KeptPosted
<1>11. BatchHomes' /\ SilentStops' /\ RemovedEnd'
  BY <1>1, <1>2, LatePosted
<1>12. BatchPairs'
  BY <1>1, <1>2, PairsPosted
<1>13. WellKept(mSessionBiDict, mSessionIdCounter)' /\ QueuesApart' /\ TrackingNumbered'
  BY DEF PostedWell
<1> QED
  BY <1>5, <1>6, <1>7, <1>8, <1>9, <1>10, <1>11, <1>12, <1>13 DEF ClientInv

LEMMA PostedNone ==
  ASSUME MailTypeOK, NEW x
  PROVE  Posted(mail, {}, x) = mail
<1>1. mail = [i \in Interface |-> mail[i]]
  BY DEF MailTypeOK
<1> QED
  BY <1>1 DEF Posted

LEMMA UnderWayAt ==
  ASSUME Places, NEW i \in Interface, NEW g, NEW s, UnderWay(i, g, s), MailTypeOK, mSessionIdCounter \in Nat
  PROVE  i \in loaded /\ i # "geofence" /\ s \in 2 .. mSessionIdCounter /\ g \in 1 .. generation
<1>1. CASE <<g, s>> \in running[i]
  <2>1. <<g, s>>[1] = g /\ <<g, s>>[2] = s
    OBVIOUS
  <2> QED
    BY <1>1, <2>1 DEF Places, RunningInUse
<1>2. ASSUME NEW k \in DOMAIN mail[i], StartsIt(mail[i][k], g, s)
      PROVE  i \in loaded /\ i # "geofence" /\ s \in 2 .. mSessionIdCounter /\ g \in 1 .. generation
  BY <1>2, MessageAt DEF Places, MessagesInUse, InUse, StartsIt, ClientMessage
<1> QED
  BY <1>1, <1>2 DEF UnderWay

(* What is left as it was by a call that has nothing to do with it.        *)
LEMMA JoinsLeft ==
  ASSUME NEW A, NEW B, NEW a, NEW b, Here(generation)' => Here(generation), UNCHANGED <<life, generation>>,
         a.op \notin {"add", "remove"}, b.op \notin {"add", "remove"},
         seen'.joined = seen.joined, seen'.forsaken = seen.forsaken
  PROVE  JoinsOwed(A, a, B, b)
BY DEF JoinsOwed, Here, Joins, RemovesClient

LEMMA DictionaryLeft ==
  ASSUME ClientInv, NEW A, NEW B, NEW a, NEW b, UNCHANGED <<use, answering, mSessionBiDict>>,
         seen.overlapped => seen'.overlapped, ~SilentStop(a), ~SilentStop(b)
  PROVE  DictionaryOwed(A, a, B, b)
<1>1. \A s \in DOMAIN mSessionBiDict.backward : s \in Nat /\ s <= mSessionIdCounter
  BY DEF ClientInv, WellKept, ClientTypeOK
<1> QED
  BY <1>1 DEF DictionaryOwed, Batching, HasSession

LEMMA CallAs ==
  ASSUME NEW op \in ClientOps, NEW s \in Nat, NEW r \in ClientRequest, generation \in Nat,
         NEW c, c = Call(op, s, r)
  PROVE  c \in ClientMessage /\ c.op = op /\ c.of = s /\ c.for = r /\ c.gen = generation
BY DEF Call, ClientMessage

LEMMA NoRequestIs == NoRequest \in ClientRequest /\ NoRequest.kind = "none"
BY DEF NoRequest, ClientRequest

LEMMA EmptyQueuesAre ==
  EmptyQueues \in [RequestType -> Waiting] /\ \A t \in RequestType : EmptyQueues[t] = Nothing
<1>1. << >> \in Seq(ClientRequest)
  BY EmptySeq
<1> QED
  BY <1>1 DEF EmptyQueues, Waiting, Nothing

LEMMA SetCallbacksInv ==
  ASSUME ClientInv, NEW cbs \in SUBSET CallbackKind, SetCallbacks(cbs), UNCHANGED use
  PROVE  ClientInv'
<1> DEFINE load == loaded \cup (Wanted(cbs) \cap available)
           joins == Wanted(cbs) \cap load
           fresh == life # "live"
           gen == IF fresh THEN generation + 1 ELSE generation
           asked == IF fresh THEN AskedFirst(joins) ELSE {}
<1>1. PICK a, b : a = [Call("add", 0, NoRequest) EXCEPT !.cbs = cbs, !.gen = gen]
                  /\ b = [Call("capabilities", 0, NoRequest) EXCEPT !.gen = gen]
  OBVIOUS
<1>2. /\ calling = NoCall
      /\ loaded' = load /\ callbacks' = cbs
      /\ mail' = Posted(Posted(mail, joins, a), asked, b)
      /\ life' = "live" /\ generation' = gen
      /\ fresh => /\ mRequestQueues' = EmptyQueues /\ mTracking' = FALSE
                  /\ mSessionBiDict' = EmptyDict /\ told' = FALSE
      /\ ~fresh => UNCHANGED <<library, told>>
      /\ seen' = [seen EXCEPT !.joined = joins \cup IF fresh THEN {} ELSE @,
                              !.asked = IF fresh THEN joins ELSE @]
      /\ UNCHANGED <<available, adapters, mSessionIdCounter, calling, answering>>
  BY <1>1 DEF SetCallbacks
<1>3. /\ generation \in Nat /\ seen \in History /\ mSessionIdCounter \in Nat \ {0} /\ told \in BOOLEAN
      /\ life # "none" => generation > 0
      /\ available \subseteq Interface /\ loaded \subseteq Interface
      /\ mRequestQueues \in [RequestType -> Waiting] /\ mTracking \in BOOLEAN
      /\ Places /\ MailTypeOK /\ WellKept(mSessionBiDict, mSessionIdCounter) /\ QueuesApart /\ UsesApart
      /\ life \in {"none", "live", "destroyed"}
  BY DEF ClientInv, ClientTypeOK
<1>4. /\ gen \in Nat /\ gen >= 1 /\ gen >= generation /\ (gen = generation => ~fresh)
      /\ (fresh => gen = generation + 1)
  BY <1>3
<1>5. /\ joins \subseteq load /\ joins \subseteq Interface /\ asked \subseteq joins /\ load \subseteq Interface
      /\ loaded \subseteq load
  BY <1>3 DEF Wanted, AskedFirst
<1>6. /\ a \in ClientMessage /\ a.op = "add" /\ a.of = 0 /\ a.gen = gen /\ a.for = NoRequest
      /\ b \in ClientMessage /\ b.op = "capabilities" /\ b.of = 0 /\ b.gen = gen /\ b.for = NoRequest
  <2> HIDE DEF gen
  <2>1. NoRequest \in ClientRequest
    BY NoRequestIs
  <2> QED
    BY <1>1, <1>4, <2>1 DEF Call, ClientMessage, ClientOps
<1> HIDE DEF load, joins, asked, gen
<1>7. /\ seen' \in History /\ seen'.refused = seen.refused /\ seen'.mixed = seen.mixed
      /\ seen'.forsaken = seen.forsaken /\ seen'.overlapped = seen.overlapped
      /\ joins \subseteq seen'.joined /\ (~fresh => seen.joined \subseteq seen'.joined)
  <2> DEFINE joined == joins \cup IF fresh THEN {} ELSE seen.joined
             ask == IF fresh THEN joins ELSE seen.asked
  <2>1. joined \in SUBSET Interface /\ ask \in SUBSET Interface
    BY <1>3, <1>5 DEF History
  <2>2. seen' = [seen EXCEPT !.joined = joined, !.asked = ask]
    BY <1>2
  <2>3. joins \subseteq joined /\ (~fresh => seen.joined \subseteq joined)
    OBVIOUS
  <2> HIDE DEF joined, ask
  <2>4. /\ seen' \in History /\ seen'.refused = seen.refused /\ seen'.mixed = seen.mixed
        /\ seen'.forsaken = seen.forsaken /\ seen'.overlapped = seen.overlapped /\ seen'.joined = joined
    BY <1>3, <2>1, <2>2 DEF History
  <2> QED
    BY <2>3, <2>4
<1>8. Grows
  BY <1>2, <1>3, <1>4, <1>5 DEF Grows
<1>9. Posts(joins, a, asked, b)
  <2>1. UsedBy(joins, a)
    BY <1>2, <1>3, <1>4, <1>5, <1>6, NoRequestIs DEF UsedBy, InUse
  <2>2. UsedBy(asked, b)
    BY <1>2, <1>3, <1>4, <1>5, <1>6, NoRequestIs DEF UsedBy, InUse
  <2> QED
    BY <1>2, <1>6, <2>1, <2>2 DEF Posts
<1>10. \A g : Here(g) => Here(g)' /\ ~fresh
  BY <1>2 DEF Here, gen
<1>11. \A g : Here(g)' => g = gen /\ (fresh => g > generation) /\ (~fresh => Here(g))
  BY <1>2, <1>3, <1>4 DEF Here, gen
<1>12. JoinsOwed(joins, a, asked, b)
  <2>1. Here(a.gen)'
    BY <1>2, <1>6 DEF Here
  <2>2. ASSUME life = "live", generation' = generation
        PROVE  ~fresh
    BY <2>2
  <2> QED
    BY <1>6, <1>7, <1>10, <2>1 DEF JoinsOwed
<1>13. ~fresh => UNCHANGED <<mRequestQueues, mTracking, mSessionBiDict, told>>
  BY <1>2 DEF library
<1>14. SessionsOwed(joins, a, asked, b)
  <2>1. \A s : Excused(s) => Excused(s)'
    BY <1>7 DEF Excused
  <2>2. \A g, s : KnownHere(g, s) => KnownHere(g, s)'
    BY <1>10, <1>13 DEF KnownHere, Known
  <2>3. ASSUME NEW g, NEW s, Here(g)', Halted(s)'
        PROVE  (Here(g) /\ Halted(s)) \/ \A i \in Interface : ~UnderWay(i, g, s)
    <3>1. CASE fresh
      <4>1. s = 0
        BY <1>2, <2>3, <3>1 DEF Halted, EmptyQueues, RequestType
      <4> QED
        BY <1>3, <4>1, UnderWayAt
    <3>2. CASE ~fresh
      BY <1>11, <1>13, <2>3, <3>2 DEF Halted
    <3> QED
      BY <3>1, <3>2
  <2> QED
    BY <1>6, <1>7, <2>1, <2>2, <2>3 DEF SessionsOwed, StartsIt
<1>15. DictionaryOwed(joins, a, asked, b)
  <2>1. ~SilentStop(a) /\ ~SilentStop(b)
    BY <1>6 DEF SilentStop
  <2>2. CASE ~fresh
    BY <1>2, <1>7, <1>13, <2>1, <2>2, DictionaryLeft
  <2>3. CASE fresh
    BY <1>2, <1>7, <2>1, <2>3 DEF DictionaryOwed, Batching, HasSession, EmptyDict
  <2> QED
    BY <2>2, <2>3
<1>16. RequestOwed(a, b)
  <2>1. ~Wants(a) /\ ~Wants(b)
    BY <1>6 DEF Wants
  <2> QED
    BY <1>2, <1>7, <1>11, <1>13, <2>1 DEF RequestOwed
<1>17. EmptyQueues \in [RequestType -> Waiting] /\ \A t \in RequestType : EmptyQueues[t] = Nothing
  BY EmptyQueuesAre
<1>18. QueuesApart'
  <2>1. CASE fresh
    BY <1>2, <1>17, <2>1 DEF QueuesApart, Nothing, RequestType
  <2>2. CASE ~fresh
    BY <1>3, <1>13, <2>2 DEF QueuesApart, Tracks, Batches
  <2> QED
    BY <2>1, <2>2
<1>19. WellKept(mSessionBiDict', mSessionIdCounter')
  BY <1>2, <1>3, <1>13, EmptyKept
<1>20. PostedTypeOK
  <2>1. available' \subseteq Interface /\ loaded' \subseteq Interface /\ callbacks' \subseteq CallbackKind
    BY <1>2, <1>3, <1>5
  <2>2. /\ mSessionIdCounter' \in Nat \ {0} /\ life' \in {"none", "live", "destroyed"}
        /\ generation' \in Nat /\ generation' > 0
    BY <1>2, <1>3, <1>4
  <2>3. mRequestQueues' \in [RequestType -> Waiting] /\ mTracking' \in BOOLEAN /\ told' \in BOOLEAN
    <3>1. CASE fresh
      BY <1>2, <1>17, <3>1
    <3>2. CASE ~fresh
      BY <1>3, <1>13, <3>2
    <3> QED
      BY <3>1, <3>2
  <2>4. calling' = NoCall
    BY <1>2
  <2> QED
    BY <1>7, <2>1, <2>2, <2>3, <2>4 DEF PostedTypeOK
<1>21. ~Batches => mSessionBiDict' = EmptyDict /\ calling' = NoCall
  BY <1>2, <1>3, <1>13 DEF UsesApart
<1>22. TrackingNumbered'
  <2>1. CASE fresh
    BY <1>2, <1>3, <1>17, <2>1 DEF TrackingNumbered, Nothing, RequestType
  <2>2. CASE ~fresh
    BY <1>2, <1>13, <2>2 DEF ClientInv, TrackingNumbered
  <2> QED
    BY <2>1, <2>2
<1>23. PostedWell(joins, a, asked, b)
  BY <1>22, <1>6, <1>7, <1>8, <1>9, <1>12, <1>14, <1>15, <1>16, <1>18, <1>19, <1>20, <1>21 DEF PostedWell
<1> QED
  BY <1>23, PostedInv

LEMMA PostedOnce ==
  ASSUME NEW A, NEW a, NEW x, mail' = Posted(mail, A, a)
  PROVE  mail' = Posted(Posted(mail, A, a), {}, x)
<1> DEFINE box == Posted(mail, A, a)
<1>1. box = [i \in Interface |-> box[i]]
  BY DEF Posted
<1> HIDE DEF box
<1>2. Posted(box, {}, x) = box
  BY <1>1 DEF Posted
<1> QED
  BY <1>2 DEF box

LEMMA DestroyInv ==
  ASSUME ClientInv, Destroy, UNCHANGED use
  PROVE  ClientInv'
<1>1. PICK a : a = Call("remove", 0, NoRequest)
  OBVIOUS
<1>2. PICK A : A = Leaves
  OBVIOUS
<1>3. /\ life = "live" /\ calling = NoCall
      /\ mail' = Posted(mail, A, a) /\ life' = "destroyed" /\ mRequestQueues' = EmptyQueues
      /\ seen' = [seen EXCEPT !.forsaken = @ \/ seen.joined # A]
      /\ A = Leaves
      /\ UNCHANGED <<available, loaded, callbacks, members, running, mSessionIdCounter, generation,
                     mTracking, mSessionBiDict, calling, answering, told>>
  BY <1>1, <1>2 DEF Destroy, CanCall, dispatcher, adapters, Leaves
<1>4. /\ generation \in Nat /\ generation > 0 /\ seen \in History /\ mSessionIdCounter \in Nat \ {0}
      /\ told \in BOOLEAN /\ mTracking \in BOOLEAN /\ callbacks \subseteq CallbackKind
      /\ available \subseteq Interface /\ loaded \subseteq Interface
      /\ WellKept(mSessionBiDict, mSessionIdCounter) /\ Membership /\ UsesApart
  BY <1>3 DEF ClientInv, ClientTypeOK
<1>5. A \subseteq loaded /\ A \subseteq Interface
  BY <1>2, <1>4 DEF Leaves
<1>6. a \in ClientMessage /\ a.op = "remove" /\ a.of = 0 /\ a.gen = generation /\ a.for = NoRequest
  BY <1>1, <1>4, CallAs, NoRequestIs DEF ClientOps
<1>7. /\ seen' \in History /\ seen'.refused = seen.refused /\ seen'.mixed = seen.mixed
      /\ seen'.joined = seen.joined /\ seen'.overlapped = seen.overlapped
      /\ (seen.forsaken => seen'.forsaken) /\ (~seen'.forsaken => seen.joined = A)
  <2> DEFINE gone == seen.forsaken \/ seen.joined # A
  <2>1. gone \in BOOLEAN /\ seen' = [seen EXCEPT !.forsaken = gone]
    BY <1>3, <1>4 DEF History
  <2>2. (seen.forsaken => gone) /\ (~gone => seen.joined = A)
    OBVIOUS
  <2> HIDE DEF gone
  <2>3. /\ seen' \in History /\ seen'.refused = seen.refused /\ seen'.mixed = seen.mixed
        /\ seen'.joined = seen.joined /\ seen'.overlapped = seen.overlapped /\ seen'.forsaken = gone
    BY <1>4, <2>1 DEF History
  <2> QED
    BY <2>2, <2>3
<1>8. Grows
  BY <1>3, <1>4 DEF Grows
<1>9. Posts(A, a, {}, a)
  <2>1. UsedBy(A, a)
    BY <1>3, <1>4, <1>5, <1>6, NoRequestIs DEF UsedBy, InUse
  <2>2. UsedBy({}, a)
    BY DEF UsedBy
  <2>3. mail' = Posted(Posted(mail, A, a), {}, a)
    BY <1>3, PostedOnce
  <2> QED
    BY <1>3, <1>6, <2>1, <2>2, <2>3 DEF Posts, adapters
<1>10. JoinsOwed(A, a, {}, a)
  BY <1>3, <1>6, <1>7 DEF JoinsOwed, RemovesClient, Here
<1>11. SessionsOwed(A, a, {}, a)
  <2>1. \A s : Excused(s) => Excused(s)'
    BY <1>7 DEF Excused
  <2>2. ASSUME NEW i \in Interface, NEW g, NEW s, KnownHere(g, s), Arrives(i, g, s)
        PROVE  EndedBy(i, g, s, A, a, {}, a) \/ Excused(s)'
    <3>1. g = generation
      BY <2>2 DEF KnownHere, Here
    <3>2. i \in seen.joined
      <4>1. CASE <<g, s>> \in running[i]
        <5>1. <<g, s>>[1] = generation
          BY <3>1
        <5> QED
          BY <1>3, <1>4, <4>1, <5>1 DEF Membership, JoinedKnown, RunnersRegistered
      <4>2. CASE \E k \in DOMAIN mail[i] : StartsIt(mail[i][k], g, s) /\ Welcome(i, k, g)
        BY <1>3, <1>4, <3>1, <4>2 DEF Membership, JoinedKnown, Welcome
      <4> QED
        BY <2>2, <4>1, <4>2 DEF Arrives
    <3> QED
      BY <1>6, <1>7, <3>1, <3>2 DEF EndedBy, EndsSession, RemovesClient, Excused
  <2> QED
    BY <1>3, <1>6, <1>7, <2>1, <2>2 DEF SessionsOwed, StartsIt, Here
<1>12. DictionaryOwed(A, a, {}, a)
  <2>1. ~SilentStop(a)
    BY <1>6 DEF SilentStop
  <2> QED
    BY <1>3, <1>7, <2>1, DictionaryLeft
<1>13. RequestOwed(a, a)
  BY <1>3, <1>7 DEF RequestOwed, Here
<1>14. QueuesApart'
  BY <1>3, EmptyQueuesAre DEF QueuesApart, Nothing, RequestType
<1>15. PostedTypeOK
  BY <1>3, <1>4, <1>7, EmptyQueuesAre DEF PostedTypeOK
<1>16. TrackingNumbered'
  BY <1>3, <1>4, EmptyQueuesAre DEF TrackingNumbered, Nothing, RequestType
<1>17. PostedWell(A, a, {}, a)
  BY <1>16, <1>3, <1>4, <1>6, <1>7, <1>8, <1>9, <1>10, <1>11, <1>12, <1>13, <1>14, <1>15 DEF PostedWell, UsesApart
<1> QED
  BY <1>17, PostedInv

(* The queues.                                                             *)
LEMMA PushedIs ==
  ASSUME NEW q \in [RequestType -> Waiting], NEW t \in RequestType, NEW r \in ClientRequest
  PROVE  /\ Push(q, t, r) \in [RequestType -> Waiting]
         /\ Push(q, t, r)[t].session = q[t].session /\ Push(q, t, r)[t].pending = Append(q[t].pending, r)
         /\ q[t].pending = << >> => Push(q, t, r)[t].pending = <<r>>
         /\ \A u \in RequestType : u # t => Push(q, t, r)[u] = q[u]
<1> DEFINE long == Append(q[t].pending, r)
<1>1. q[t] \in Waiting /\ q[t].pending \in Seq(ClientRequest) /\ long = Append(q[t].pending, r)
  BY DEF Waiting
<1>2. long \in Seq(ClientRequest) /\ (q[t].pending = << >> => long = <<r>>)
  <2>1. long \in Seq(ClientRequest)
    BY <1>1, AppendProperties
  <2>2. Append(<< >>, r) = <<r>>
    OBVIOUS
  <2> QED
    BY <2>1, <2>2
<1>3. Push(q, t, r) = [q EXCEPT ![t].pending = long]
  BY DEF Push
<1> HIDE DEF long
<1>4. [q[t] EXCEPT !.pending = long] \in Waiting
  BY <1>1, <1>2 DEF Waiting
<1> QED
  BY <1>1, <1>2, <1>3, <1>4 DEF Waiting

LEMMA ResetIs ==
  ASSUME NEW q \in [RequestType -> Waiting], NEW t \in RequestType, NEW s \in Nat
  PROVE  /\ Reset(q, t, s) \in [RequestType -> Waiting]
         /\ Reset(q, t, s)[t].session = s /\ Reset(q, t, s)[t].pending = << >>
         /\ \A u \in RequestType : u # t => Reset(q, t, s)[u] = q[u]
<1>1. << >> \in Seq(ClientRequest)
  BY EmptySeq
<1> QED
  BY <1>1 DEF Reset, Waiting

LEMMA StartTrackingInv ==
  ASSUME ClientInv, Tracks, NEW far \in BOOLEAN, LocAPIStartTracking(far), UNCHANGED use
  PROVE  ClientInv'
<1>1. PICK B, s : B = TrackingInterface(far) /\ s = NewSession(B)
  OBVIOUS
<1>2. PICK a, b : a = Call("capabilities", 0, NoRequest) /\ b = Call("start", s, Request("start", s))
  OBVIOUS
<1>3. /\ life = "live" /\ calling = NoCall /\ ~mTracking
      /\ mail' = Posted(mail, B, b) /\ Counted(B) /\ mRequestQueues' = StartedQueue(s) /\ mTracking' = TRUE
      /\ seen' = [seen EXCEPT !.collided = @ \/ Collides(s)]
      /\ UNCHANGED <<available, loaded, callbacks, members, running, life, generation,
                     mSessionBiDict, calling, answering, told>>
  BY <1>1, <1>2 DEF LocAPIStartTracking, CanStart, CanCall, dispatcher, adapters, object
<1>4. /\ generation \in Nat /\ generation > 0 /\ seen \in History /\ mSessionIdCounter \in Nat \ {0}
      /\ told \in BOOLEAN /\ callbacks \subseteq CallbackKind
      /\ available \subseteq Interface /\ loaded \subseteq Interface
      /\ mRequestQueues \in [RequestType -> Waiting] /\ QueuesApart
      /\ MailTypeOK /\ UsesApart /\ StoppedFirst
  BY <1>3 DEF ClientInv, ClientTypeOK
<1>5. ~Batches /\ mSessionBiDict = EmptyDict
  BY <1>4 DEF UsesApart, Tracks, Batches
<1>6. /\ B \subseteq loaded /\ B \subseteq Interface \ {"geofence"} /\ \A i, j \in B : i = j
      /\ B = {} \/ \E x : B = {x}
  BY <1>1, <1>4 DEF TrackingInterface, Interface
<1>7. /\ s \in Nat /\ mSessionIdCounter' \in Nat \ {0} /\ s <= mSessionIdCounter'
      /\ mSessionIdCounter <= mSessionIdCounter'
      /\ B # {} => s >= 2 /\ s > mSessionIdCounter
  <2>1. CASE B = {}
    BY <1>1, <1>3, <1>4, <2>1 DEF NewSession, Counted
  <2>2. CASE B # {}
    BY <1>1, <1>3, <1>4, <2>2 DEF NewSession, Counted
  <2> QED
    BY <2>1, <2>2
<1>8. Request("start", s) \in ClientRequest /\ Request("start", s).kind = "start" /\ Request("start", s) # NoRequest
  BY <1>7 DEF Request, ClientRequest, NoRequest
<1>9. /\ a \in ClientMessage /\ a.op = "capabilities" /\ a.of = 0 /\ a.gen = generation /\ a.for = NoRequest
      /\ b \in ClientMessage /\ b.op = "start" /\ b.of = s /\ b.gen = generation
      /\ b.for = Request("start", s)
  <2>1. "capabilities" \in ClientOps /\ "start" \in ClientOps /\ generation \in Nat /\ 0 \in Nat
    BY <1>4 DEF ClientOps
  <2>2. a \in ClientMessage /\ a.op = "capabilities" /\ a.of = 0 /\ a.gen = generation /\ a.for = NoRequest
    BY <1>2, <2>1, CallAs, NoRequestIs
  <2>3. /\ b \in ClientMessage /\ b.op = "start" /\ b.of = s /\ b.gen = generation
        /\ b.for = Request("start", s)
    BY <1>2, <1>7, <1>8, <2>1, CallAs
  <2> QED
    BY <2>2, <2>3
<1>10. /\ seen' \in History /\ seen'.refused = seen.refused /\ seen'.mixed = seen.mixed
       /\ seen'.joined = seen.joined /\ seen'.overlapped = seen.overlapped
       /\ seen'.forsaken = seen.forsaken
  <2> DEFINE same == seen.collided \/ Collides(s)
  <2>1. same \in BOOLEAN /\ seen' = [seen EXCEPT !.collided = same]
    BY <1>3, <1>4 DEF History
  <2> HIDE DEF same
  <2> QED
    BY <1>4, <2>1 DEF History
<1>11. /\ mRequestQueues' \in [RequestType -> Waiting] /\ mRequestQueues'["tracking"].session = s
       /\ mRequestQueues'["session"] = mRequestQueues["session"]
  <2>1. PICK q : q = Reset(mRequestQueues, "tracking", s)
    OBVIOUS
  <2>2. /\ q \in [RequestType -> Waiting] /\ q["tracking"].session = s
        /\ q["session"] = mRequestQueues["session"]
    <3>1. "tracking" \in RequestType /\ "session" \in RequestType /\ "session" # "tracking"
      BY DEF RequestType
    <3>2. /\ q \in [RequestType -> Waiting] /\ q["tracking"].session = s
          /\ \A u \in RequestType : u # "tracking" => q[u] = mRequestQueues[u]
      BY <1>4, <1>7, <2>1, <3>1, ResetIs
    <3> QED
      BY <3>1, <3>2
  <2>3. mRequestQueues' = Push(q, "tracking", Request("start", s))
    BY <1>3, <2>1 DEF StartedQueue
  <2> QED
    BY <1>8, <2>2, <2>3, PushedIs DEF RequestType
<1>12. Grows
  BY <1>3, <1>4, <1>7 DEF Grows
<1>13. Posts({}, a, B, b)
  <2>1. UsedBy(B, b)
    BY <1>3, <1>4, <1>6, <1>7, <1>8, <1>9 DEF UsedBy, InUse
  <2>2. UsedBy({}, a)
    BY DEF UsedBy
  <2>3. mail' = Posted(Posted(mail, {}, a), B, b)
    BY <1>3, <1>4, PostedNone
  <2> QED
    BY <1>3, <1>6, <1>7, <1>9, <2>1, <2>2, <2>3 DEF Posts, adapters
<1>14. JoinsOwed({}, a, B, b)
  BY <1>3, <1>9, <1>10, JoinsLeft DEF Here
<1>15. SessionsOwed({}, a, B, b)
  <2>1. \A z : Excused(z) => Excused(z)'
    BY <1>10 DEF Excused
  <2>2. ASSUME NEW g, NEW z, StartsIt(b, g, z)
        PROVE  KnownHere(g, z)'
    BY <1>3, <1>9, <1>11, <2>2 DEF StartsIt, KnownHere, Known, Here
  <2>3. ASSUME NEW g, NEW z, KnownHere(g, z)
        PROVE  EndsFirst(g, z)
    BY <1>3, <1>4, <1>5, <2>3 DEF KnownHere, Known, HasSession, EmptyDict, StoppedFirst, Halted
  <2>4. \A z : ~Halted(z)'
    BY <1>3 DEF Halted
  <2> QED
    BY <1>10, <2>1, <2>2, <2>3, <2>4 DEF SessionsOwed
<1>16. DictionaryOwed({}, a, B, b)
  <2>1. ~SilentStop(a) /\ ~SilentStop(b)
    BY <1>9 DEF SilentStop
  <2> QED
    BY <1>3, <1>10, <2>1, DictionaryLeft
<1>17. RequestOwed(a, b)
  BY <1>5, <1>10 DEF RequestOwed
<1>18. QueuesApart'
  BY <1>4, <1>11 DEF QueuesApart, Tracks, Batches
<1>19. PostedTypeOK
  BY <1>3, <1>4, <1>7, <1>10, <1>11 DEF PostedTypeOK
<1>20. WellKept(mSessionBiDict', mSessionIdCounter')
  BY <1>3, <1>5, EmptyKept
<1>21. TrackingNumbered'
  BY <1>7, <1>11 DEF TrackingNumbered
<1>22. PostedWell({}, a, B, b)
  BY <1>21, <1>3, <1>5, <1>9, <1>10, <1>12, <1>13, <1>14, <1>15, <1>16, <1>17, <1>18, <1>19, <1>20 DEF PostedWell
<1> QED
  BY <1>22, PostedInv

LEMMA AskInv ==
  ASSUME ClientInv, Tracks, NEW op \in {"stop", "update"}, NEW tracking \in BOOLEAN,
         op = "stop" => ~tracking, op = "update" => tracking = mTracking,
         Ask(op, tracking), UNCHANGED use
  PROVE  ClientInv'
<1>1. PICK B, s : B = Trackers /\ s = mRequestQueues["tracking"].session
  OBVIOUS
<1>2. PICK a, r : a = Call("capabilities", 0, NoRequest) /\ r = Request(op, s)
  OBVIOUS
<1>3. PICK b : b = Call(op, s, r)
  OBVIOUS
<1>4. /\ life = "live" /\ calling = NoCall /\ s > 0
      /\ mail' = Posted(mail, B, b) /\ mRequestQueues' = Push(mRequestQueues, "tracking", r)
      /\ mTracking' = tracking
      /\ UNCHANGED <<available, loaded, callbacks, members, running, life, generation, mSessionIdCounter,
                     mSessionBiDict, calling, answering, told, seen>>
  BY <1>1, <1>2, <1>3 DEF Ask, CanCall, dispatcher, adapters, object
<1>5. /\ generation \in Nat /\ generation > 0 /\ seen \in History /\ mSessionIdCounter \in Nat \ {0}
      /\ told \in BOOLEAN /\ callbacks \subseteq CallbackKind
      /\ available \subseteq Interface /\ loaded \subseteq Interface
      /\ mRequestQueues \in [RequestType -> Waiting] /\ QueuesApart /\ TrackingNumbered
      /\ MailTypeOK /\ UsesApart /\ Places
  BY <1>4 DEF ClientInv, ClientTypeOK
<1>6. ~Batches /\ mSessionBiDict = EmptyDict
  BY <1>5 DEF UsesApart, Tracks, Batches
<1>7. B = loaded \ {"geofence"} /\ B \subseteq Interface
  BY <1>1, <1>5 DEF Trackers, Interface
<1>8. s \in Nat /\ s <= mSessionIdCounter
  BY <1>1, <1>5 DEF TrackingNumbered, Waiting, RequestType
<1>9. r \in ClientRequest /\ r.kind = op /\ r # NoRequest
  BY <1>2, <1>8 DEF Request, ClientRequest, NoRequest
<1>10. /\ a \in ClientMessage /\ a.op = "capabilities" /\ a.of = 0 /\ a.gen = generation /\ a.for = NoRequest
       /\ b \in ClientMessage /\ b.op = op /\ b.of = s /\ b.gen = generation /\ b.for = r
  <2>1. "capabilities" \in ClientOps /\ op \in ClientOps /\ 0 \in Nat
    BY DEF ClientOps
  <2>2. b \in ClientMessage /\ b.op = op /\ b.of = s /\ b.gen = generation /\ b.for = r
    BY <1>3, <1>5, <1>8, <1>9, <2>1, CallAs
  <2> QED
    BY <1>2, <1>5, <2>1, <2>2, CallAs, NoRequestIs
<1>11. /\ mRequestQueues' \in [RequestType -> Waiting] /\ mRequestQueues'["tracking"].session = s
       /\ mRequestQueues'["session"] = mRequestQueues["session"]
  <2>1. "tracking" \in RequestType /\ "session" \in RequestType /\ "session" # "tracking"
    BY DEF RequestType
  <2> QED
    BY <1>1, <1>4, <1>5, <1>9, <2>1, PushedIs
<1>12. Grows
  BY <1>4, <1>5 DEF Grows
<1>13. Posts({}, a, B, b)
  <2>1. UsedBy(B, b)
    BY <1>4, <1>5, <1>7, <1>8, <1>9, <1>10 DEF UsedBy, InUse
  <2>2. UsedBy({}, a)
    BY DEF UsedBy
  <2>3. mail' = Posted(Posted(mail, {}, a), B, b)
    BY <1>4, <1>5, PostedNone
  <2> QED
    BY <1>4, <1>10, <2>1, <2>2, <2>3 DEF Posts, adapters
<1>14. JoinsOwed({}, a, B, b)
  BY <1>4, <1>10, JoinsLeft DEF Here
<1>15. SessionsOwed({}, a, B, b)
  <2>1. \A z : Excused(z) => Excused(z)'
    BY <1>4 DEF Excused
  <2>2. \A g, z : ~StartsIt(b, g, z)
    BY <1>10 DEF StartsIt
  <2>3. \A g, z : KnownHere(g, z) => KnownHere(g, z)'
    BY <1>1, <1>4, <1>11 DEF KnownHere, Known, Here
  <2>4. ASSUME NEW g, NEW z, Here(g)', Halted(z)'
        PROVE  \/ Here(g) /\ Halted(z)
               \/ \A i \in Interface : UnderWay(i, g, z) => EndedBy(i, g, z, {}, a, B, b)
    <3>1. g = generation /\ Here(g) /\ z = s
      BY <1>4, <1>11, <2>4 DEF Here, Halted
    <3>2. CASE op = "stop"
      <4>1. ASSUME NEW i \in Interface, UnderWay(i, g, z)
            PROVE  EndedBy(i, g, z, {}, a, B, b)
        <5>1. i \in B
          BY <1>5, <1>7, <4>1, UnderWayAt
        <5> QED
          BY <1>10, <3>1, <3>2, <5>1 DEF EndedBy, EndsSession
      <4> QED
        BY <4>1
    <3>3. CASE op = "update"
      BY <1>1, <1>4, <2>4, <3>1, <3>3 DEF Halted
    <3> QED
      BY <3>2, <3>3
  <2> QED
    BY <1>4, <2>1, <2>2, <2>3, <2>4 DEF SessionsOwed
<1>16. DictionaryOwed({}, a, B, b)
  <2>1. ~SilentStop(a) /\ ~SilentStop(b)
    BY <1>9, <1>10 DEF SilentStop
  <2> QED
    BY <1>4, <2>1, DictionaryLeft
<1>17. RequestOwed(a, b)
  BY <1>4, <1>6 DEF RequestOwed
<1>18. QueuesApart' /\ TrackingNumbered'
  BY <1>4, <1>5, <1>8, <1>11 DEF QueuesApart, TrackingNumbered, Tracks, Batches
<1>19. PostedTypeOK
  BY <1>4, <1>5, <1>11 DEF PostedTypeOK
<1>20. WellKept(mSessionBiDict', mSessionIdCounter')
  BY <1>4, <1>6, EmptyKept
<1>21. PostedWell({}, a, B, b)
  BY <1>4, <1>6, <1>10, <1>12, <1>13, <1>14, <1>15, <1>16, <1>17, <1>18, <1>19, <1>20 DEF PostedWell
<1> QED
  BY <1>21, PostedInv

LEMMA NiResponseInv ==
  ASSUME ClientInv, Tracks, NEW id \in NiId, LocAPIGnssNiResponse(id), UNCHANGED use
  PROVE  ClientInv'
<1>1. PICK B, r : B = loaded \cap {"gnss"} /\ r = Request("ni", id)
  OBVIOUS
<1>2. PICK a, b : a = Call("capabilities", 0, NoRequest) /\ b = Call("ni", id, r)
  OBVIOUS
<1>3. PICK hit : hit = (seen.collided \/ id \in {mRequestQueues["tracking"].session} \cup 2..mSessionIdCounter)
  OBVIOUS
<1>4. /\ life = "live" /\ calling = NoCall
      /\ mail' = Posted(mail, B, b)
      /\ mRequestQueues' = Push(Reset(mRequestQueues, "niresponse", id), "niresponse", r)
      /\ seen' = [seen EXCEPT !.collided = hit]
      /\ UNCHANGED <<available, loaded, callbacks, members, running, life, generation, mSessionIdCounter,
                     mTracking, mSessionBiDict, calling, answering, told>>
  BY <1>1, <1>2, <1>3 DEF LocAPIGnssNiResponse, CanCall, dispatcher, adapters, object
<1>5. /\ generation \in Nat /\ generation > 0 /\ seen \in History /\ mSessionIdCounter \in Nat \ {0}
      /\ told \in BOOLEAN /\ callbacks \subseteq CallbackKind /\ mTracking \in BOOLEAN
      /\ available \subseteq Interface /\ loaded \subseteq Interface
      /\ mRequestQueues \in [RequestType -> Waiting] /\ QueuesApart /\ TrackingNumbered
      /\ MailTypeOK /\ UsesApart
  BY <1>4 DEF ClientInv, ClientTypeOK
<1>6. ~Batches /\ mSessionBiDict = EmptyDict
  BY <1>5 DEF UsesApart, Tracks, Batches
<1>7. id \in Nat
  BY NiAssumption
<1>8. r \in ClientRequest /\ r.kind = "ni" /\ r # NoRequest
  BY <1>1, <1>7 DEF Request, ClientRequest, NoRequest
<1>9. /\ a \in ClientMessage /\ a.op = "capabilities" /\ a.of = 0 /\ a.gen = generation /\ a.for = NoRequest
      /\ b \in ClientMessage /\ b.op = "ni" /\ b.of = id /\ b.gen = generation /\ b.for = r
  <2>1. "capabilities" \in ClientOps /\ "ni" \in ClientOps /\ generation \in Nat /\ 0 \in Nat
    BY <1>5 DEF ClientOps
  <2>2. a \in ClientMessage /\ a.op = "capabilities" /\ a.of = 0 /\ a.gen = generation /\ a.for = NoRequest
    BY <1>2, <2>1, CallAs, NoRequestIs
  <2>3. b \in ClientMessage /\ b.op = "ni" /\ b.of = id /\ b.gen = generation /\ b.for = r
    BY <1>2, <1>7, <1>8, <2>1, CallAs
  <2> QED
    BY <2>2, <2>3
<1>10. /\ seen' \in History /\ seen'.refused = seen.refused /\ seen'.mixed = seen.mixed
       /\ seen'.joined = seen.joined /\ seen'.overlapped = seen.overlapped
       /\ seen'.forsaken = seen.forsaken
  <2>1. hit \in BOOLEAN
    BY <1>3, <1>5 DEF History
  <2> QED
    BY <1>4, <1>5, <2>1 DEF History
<1>11. /\ mRequestQueues' \in [RequestType -> Waiting]
       /\ mRequestQueues'["tracking"] = mRequestQueues["tracking"]
       /\ mRequestQueues'["session"] = mRequestQueues["session"]
  <2>1. PICK q : q = Reset(mRequestQueues, "niresponse", id)
    OBVIOUS
  <2>2. /\ "tracking" \in RequestType /\ "session" \in RequestType /\ "niresponse" \in RequestType
        /\ "session" # "niresponse" /\ "tracking" # "niresponse"
    BY DEF RequestType
  <2>3. /\ q \in [RequestType -> Waiting]
        /\ \A u \in RequestType : u # "niresponse" => q[u] = mRequestQueues[u]
    BY <1>5, <1>7, <2>1, <2>2, ResetIs
  <2>4. mRequestQueues' = Push(q, "niresponse", r)
    BY <1>4, <2>1
  <2> QED
    BY <1>8, <2>2, <2>3, <2>4, PushedIs
<1>12. Grows
  BY <1>4, <1>5 DEF Grows
<1>13. Posts({}, a, B, b)
  <2>1. UsedBy(B, b)
    BY <1>1, <1>4, <1>5, <1>7, <1>8, <1>9 DEF UsedBy, InUse
  <2>2. UsedBy({}, a)
    BY DEF UsedBy
  <2>3. mail' = Posted(Posted(mail, {}, a), B, b)
    BY <1>4, <1>5, PostedNone
  <2> QED
    BY <1>4, <1>9, <2>1, <2>2, <2>3 DEF Posts, adapters
<1>14. JoinsOwed({}, a, B, b)
  BY <1>4, <1>9, <1>10, JoinsLeft DEF Here
<1>15. SessionsOwed({}, a, B, b)
  <2>1. \A z : Excused(z) => Excused(z)'
    BY <1>10 DEF Excused
  <2>2. \A g, z : ~StartsIt(b, g, z)
    BY <1>9 DEF StartsIt
  <2>3. \A g, z : KnownHere(g, z) => KnownHere(g, z)'
    BY <1>4, <1>11 DEF KnownHere, Known, Here
  <2>4. \A g, z : Here(g)' /\ Halted(z)' => Here(g) /\ Halted(z)
    BY <1>4, <1>11 DEF Here, Halted
  <2> QED
    BY <1>10, <2>1, <2>2, <2>3, <2>4 DEF SessionsOwed
<1>16. DictionaryOwed({}, a, B, b)
  <2>1. ~SilentStop(a) /\ ~SilentStop(b)
    BY <1>9 DEF SilentStop
  <2> QED
    BY <1>4, <1>10, <2>1, DictionaryLeft
<1>17. RequestOwed(a, b)
  BY <1>6, <1>10 DEF RequestOwed
<1>18. QueuesApart' /\ TrackingNumbered'
  BY <1>4, <1>5, <1>11 DEF QueuesApart, TrackingNumbered, Tracks, Batches
<1>19. PostedTypeOK
  BY <1>4, <1>5, <1>10, <1>11 DEF PostedTypeOK
<1>20. WellKept(mSessionBiDict', mSessionIdCounter')
  BY <1>4, <1>6, EmptyKept
<1>21. PostedWell({}, a, B, b)
  BY <1>4, <1>6, <1>9, <1>10, <1>12, <1>13, <1>14, <1>15, <1>16, <1>17, <1>18, <1>19, <1>20 DEF PostedWell
<1> QED
  BY <1>21, PostedInv

LEMMA HistoryOverlaps ==
  ASSUME seen \in History, NEW over \in BOOLEAN, seen' = [seen EXCEPT !.overlapped = over]
  PROVE  /\ seen' \in History /\ seen'.refused = seen.refused /\ seen'.mixed = seen.mixed
         /\ seen'.joined = seen.joined /\ seen'.forsaken = seen.forsaken /\ seen'.overlapped = over
BY DEF History

LEMMA StartSessionInv ==
  ASSUME ClientInv, Batches, NEW id \in Id, NEW mode \in SessionMode, LocAPIStartSession(id, mode),
         UNCHANGED use
  PROVE  ClientInv'
<1>1. PICK B : B = IF mode = "fix" THEN TrackingInterface(FALSE) ELSE Batcher
  OBVIOUS
<1>2. PICK s, a : s = NewSession(B) /\ a = Call("capabilities", 0, NoRequest)
  OBVIOUS
<1>3. PICK r, e : /\ r = Request("start", s)
                  /\ e = [tracking |-> IF mode = "fix" THEN s ELSE 0,
                          batching |-> IF mode = "fix" THEN 0 ELSE s, mode |-> mode]
  OBVIOUS
<1>4. PICK b, over : b = Call("start", s, r) /\ over = (seen.overlapped \/ Overlaps)
  OBVIOUS
<1> DEFINE d == mSessionBiDict
<1>5. /\ life = "live" /\ calling = NoCall /\ id \notin DOMAIN d.forward
      /\ mail' = Posted(mail, B, b) /\ Counted(B)
      /\ mRequestQueues' = Push(mRequestQueues, "session", r)
      /\ mSessionBiDict' = Set(d, id, s, e)
      /\ seen' = [seen EXCEPT !.overlapped = over]
      /\ UNCHANGED <<available, loaded, callbacks, members, running, life, generation, mTracking,
                     calling, answering, told>>
  BY <1>1, <1>2, <1>3, <1>4 DEF LocAPIStartSession, CanStart, CanCall, HasId, dispatcher, adapters, object
<1>6. /\ generation \in Nat /\ generation > 0 /\ seen \in History /\ mSessionIdCounter \in Nat \ {0}
      /\ told \in BOOLEAN /\ callbacks \subseteq CallbackKind /\ mTracking \in BOOLEAN
      /\ available \subseteq Interface /\ loaded \subseteq Interface
      /\ mRequestQueues \in [RequestType -> Waiting] /\ QueuesApart /\ TrackingNumbered
      /\ MailTypeOK /\ WellKept(d, mSessionIdCounter)
  BY <1>5 DEF ClientInv, ClientTypeOK
<1>7. ~Tracks
  BY DEF Tracks, Batches
<1>8. /\ B \subseteq loaded /\ B \subseteq Interface \ {"geofence"} /\ \A i, j \in B : i = j
      /\ mode # "fix" => B \subseteq {"flp"}
  BY <1>1, <1>6 DEF TrackingInterface, Batcher, Interface
<1>9. /\ s \in Nat /\ mSessionIdCounter' \in Nat \ {0} /\ s <= mSessionIdCounter'
      /\ mSessionIdCounter <= mSessionIdCounter' /\ s \in 0 .. mSessionIdCounter'
      /\ B # {} => s >= 2
      /\ s = 0 \/ s > mSessionIdCounter
  <2>1. CASE B = {}
    BY <1>2, <1>5, <1>6, <2>1 DEF NewSession, Counted
  <2>2. CASE B # {}
    BY <1>2, <1>5, <1>6, <2>2 DEF NewSession, Counted
  <2> QED
    BY <2>1, <2>2
<1>10. r \in ClientRequest /\ r.kind = "start" /\ r # NoRequest
  BY <1>3, <1>9 DEF Request, ClientRequest, NoRequest
<1>11. /\ a \in ClientMessage /\ a.op = "capabilities" /\ a.of = 0 /\ a.gen = generation /\ a.for = NoRequest
       /\ b \in ClientMessage /\ b.op = "start" /\ b.of = s /\ b.gen = generation /\ b.for = r
  <2>1. "capabilities" \in ClientOps /\ "start" \in ClientOps /\ generation \in Nat /\ 0 \in Nat /\ s \in Nat
    BY <1>6, <1>9 DEF ClientOps
  <2>2. a \in ClientMessage /\ a.op = "capabilities" /\ a.of = 0 /\ a.gen = generation /\ a.for = NoRequest
    BY <1>2, <2>1, CallAs, NoRequestIs
  <2>3. b \in ClientMessage /\ b.op = "start" /\ b.of = s /\ b.gen = generation /\ b.for = r
    BY <1>4, <1>10, <2>1, CallAs
  <2> QED
    BY <2>2, <2>3
<1>12. /\ seen' \in History /\ seen'.refused = seen.refused /\ seen'.mixed = seen.mixed
       /\ seen'.joined = seen.joined /\ seen'.forsaken = seen.forsaken
       /\ (seen.overlapped => seen'.overlapped)
       /\ (~seen'.overlapped => mRequestQueues["session"].pending = << >>)
  <2>1. over \in BOOLEAN /\ (~over => mRequestQueues["session"].pending = << >>)
    BY <1>4, <1>6 DEF History, Overlaps
  <2> QED
    BY <1>4, <1>5, <1>6, <2>1, HistoryOverlaps
<1>13. /\ mRequestQueues' \in [RequestType -> Waiting]
       /\ mRequestQueues'["tracking"] = mRequestQueues["tracking"]
       /\ mRequestQueues'["niresponse"] = mRequestQueues["niresponse"]
       /\ mRequestQueues["session"].pending = << >> => mRequestQueues'["session"].pending = <<r>>
  <2>1. /\ "tracking" \in RequestType /\ "session" \in RequestType /\ "niresponse" \in RequestType
        /\ "session" # "niresponse" /\ "tracking" # "session"
    BY DEF RequestType
  <2> QED
    BY <1>5, <1>6, <1>10, <2>1, PushedIs
<1>14. e \in Stored /\ SessionOf(e) = s /\ e.mode = mode
  BY <1>3, <1>9 DEF Stored, SessionOf
<1>15. \A z \in DOMAIN d.backward : z \in Nat /\ z <= mSessionIdCounter
  BY <1>6 DEF WellKept
<1>16. /\ WellKept(mSessionBiDict', mSessionIdCounter')
       /\ DOMAIN mSessionBiDict'.backward = DOMAIN d.backward \cup {s}
       /\ mSessionBiDict'.ext[s] = e
       /\ \A z \in DOMAIN d.backward \ {s} : mSessionBiDict'.ext[z] = d.ext[z]
  <2>1. WellKept(d, mSessionIdCounter')
    BY <1>6, <1>9, LaterKept
  <2>2. s = 0 \/ s \notin DOMAIN d.backward
    BY <1>6, <1>9, <1>15
  <2> QED
    BY <1>5, <1>9, <1>14, <2>1, <2>2, SetKept
<1>17. Grows
  BY <1>5, <1>6, <1>9 DEF Grows
<1>18. Posts({}, a, B, b)
  <2>1. UsedBy(B, b)
    BY <1>5, <1>6, <1>8, <1>9, <1>10, <1>11 DEF UsedBy, InUse
  <2>2. UsedBy({}, a)
    BY DEF UsedBy
  <2>3. mail' = Posted(Posted(mail, {}, a), B, b)
    BY <1>5, <1>6, PostedNone
  <2>4. b.op = "start" => \A i, j \in B : i = j /\ b.of > mSessionIdCounter
    BY <1>8, <1>9, <1>11
  <2> QED
    BY <1>5, <1>11, <2>1, <2>2, <2>3, <2>4 DEF Posts, adapters
<1>19. JoinsOwed({}, a, B, b)
  BY <1>5, <1>11, <1>12, JoinsLeft DEF Here
<1>20. SessionsOwed({}, a, B, b)
  <2>1. \A z : Excused(z) => Excused(z)'
    BY <1>12 DEF Excused
  <2>2. ASSUME NEW g, NEW z, StartsIt(b, g, z)
        PROVE  KnownHere(g, z)'
    BY <1>5, <1>11, <1>16, <2>2 DEF StartsIt, KnownHere, Known, Here, HasSession
  <2>3. \A g, z : KnownHere(g, z) => KnownHere(g, z)'
    BY <1>5, <1>13, <1>16 DEF KnownHere, Known, Here, HasSession
  <2>4. ASSUME NEW g, NEW z, Here(g)', Halted(z)'
        PROVE  /\ Here(g) /\ Halted(z)
               /\ B = {} \/ ~StartsIt(b, g, z)
    <3>1. z = 0 /\ Here(g) /\ Halted(z)
      BY <1>5, <1>6, <1>7, <1>13, <2>4 DEF Here, Halted, QueuesApart, Nothing
    <3> QED
      BY <1>9, <1>11, <3>1 DEF StartsIt
  <2> QED
    BY <1>12, <2>1, <2>2, <2>3, <2>4 DEF SessionsOwed
<1>21. DictionaryOwed({}, a, B, b)
  <2>1. ~SilentStop(a) /\ ~SilentStop(b)
    BY <1>11 DEF SilentStop
  <2>2. ASSUME NEW z, Batching(z)'
        PROVE  /\ z \in Nat
               /\ \/ Batching(z) /\ z <= mSessionIdCounter
                  \/ z > mSessionIdCounter /\ (Starting(b, z) => B \subseteq {"flp"})
    <3>1. CASE z = s
      BY <1>8, <1>9, <1>14, <1>16, <2>2, <3>1 DEF Batching
    <3>2. CASE z # s
      BY <1>15, <1>16, <2>2, <3>2 DEF Batching
    <3> QED
      BY <3>1, <3>2
  <2>3. ASSUME NEW z \in Nat, z \in DOMAIN mSessionBiDict'.backward
        PROVE  z = 0 \/ z \in DOMAIN d.backward \/ z > mSessionIdCounter
    BY <1>9, <1>16, <2>3
  <2> QED
    BY <1>5, <1>12, <2>1, <2>2, <2>3 DEF DictionaryOwed, HasSession
<1>22. RequestOwed(a, b)
  <2>1. ~Wants(a)
    BY <1>11 DEF Wants
  <2> QED
    BY <1>5, <1>11, <1>12, <1>13, <2>1 DEF RequestOwed, Here
<1>23. QueuesApart' /\ TrackingNumbered'
  BY <1>6, <1>9, <1>13 DEF QueuesApart, TrackingNumbered, Tracks, Batches, Waiting, RequestType
<1>24. PostedTypeOK
  BY <1>5, <1>6, <1>9, <1>12, <1>13 DEF PostedTypeOK
<1>25. PostedWell({}, a, B, b)
  BY <1>11, <1>12, <1>16, <1>17, <1>18, <1>19, <1>20, <1>21, <1>22, <1>23, <1>24 DEF PostedWell
<1> QED
  BY <1>25, PostedInv

(* The second half of an operation on a session.                           *)
ReadIs(op) ==
  /\ calling.op = op /\ calling' = NoCall /\ calling # NoCall /\ calling.id \in Id
  /\ calling.mode \in SessionMode /\ Batches /\ life = "live"
  /\ seen' \in History /\ seen'.refused = seen.refused /\ seen'.mixed = seen.mixed
  /\ seen'.joined = seen.joined /\ seen'.forsaken = seen.forsaken /\ seen'.overlapped = seen.overlapped
  /\ UNCHANGED <<available, loaded, callbacks, members, running, life, generation, mTracking, answering,
                 told>>

LEMMA ReadDoes ==
  ASSUME ClientInv, NEW op \in {"stop", "get", "update"}, Read(op)
  PROVE  ReadIs(op)
<1>1. /\ calling.op = op /\ calling' = NoCall
      /\ UNCHANGED <<available, loaded, callbacks, members, running, life, generation, mTracking, answering,
                     told>>
      /\ seen' = [seen EXCEPT !.raced = @ \cup
                    IF HasId(mSessionBiDict, calling.id) THEN {} ELSE {calling.id}]
  BY DEF Read, dispatcher, adapters, object
<1>2. calling # NoCall
  BY <1>1 DEF NoCall
<1>3. /\ calling.id \in Id /\ calling.mode \in SessionMode /\ life = "live"
      /\ seen \in History /\ Batches
  BY <1>2 DEF ClientInv, ClientTypeOK, UsesApart
<1> DEFINE races == seen.raced \cup IF HasId(mSessionBiDict, calling.id) THEN {} ELSE {calling.id}
<1>4. races \in SUBSET Id /\ seen' = [seen EXCEPT !.raced = races]
  BY <1>1, <1>3 DEF History
<1> HIDE DEF races
<1>5. /\ seen' \in History /\ seen'.refused = seen.refused /\ seen'.mixed = seen.mixed
      /\ seen'.joined = seen.joined /\ seen'.forsaken = seen.forsaken /\ seen'.overlapped = seen.overlapped
  BY <1>3, <1>4 DEF History
<1> QED
  BY <1>1, <1>2, <1>3, <1>5 DEF ReadIs

LEMMA NoOtherWaits ==
  ASSUME ClientInv, NEW op, ReadIs(op), ~seen.overlapped
  PROVE  mRequestQueues["session"].pending = << >>
<1>1. Alone(generation)
  BY DEF ClientInv, BatchPairs, ReadIs, Here
<1> QED
  BY <1>1 DEF Alone, ReadIs

(* The sessions of the dictionary stay those they were.                    *)
SameKept ==
  LET d == mSessionBiDict
      n == mSessionBiDict'
  IN /\ WellKept(n, mSessionIdCounter)
     /\ DOMAIN d.backward \subseteq DOMAIN n.backward
     /\ DOMAIN n.backward \subseteq DOMAIN d.backward \cup {0}
     /\ \A z \in DOMAIN d.backward \ {0} : n.ext[z].mode # "fix" => d.ext[z].mode # "fix"

LEMMA ReadPosts ==
  ASSUME ClientInv, NEW op \in {"stop", "get", "update"}, ReadIs(op), UNCHANGED <<use, mSessionIdCounter>>,
         NEW s \in Nat, s <= mSessionIdCounter, NEW r, r = Request(op, s),
         NEW B \in SUBSET loaded, mail' = Posted(mail, B, Call(op, s, r)),
         mRequestQueues' = Push(mRequestQueues, "session", r), SameKept
  PROVE  ClientInv'
<1>1. PICK a, b : a = Call("capabilities", 0, NoRequest) /\ b = Call(op, s, r)
  OBVIOUS
<1> DEFINE d == mSessionBiDict
<1>2. /\ life = "live" /\ calling' = NoCall /\ Batches
      /\ seen' \in History /\ seen'.refused = seen.refused /\ seen'.mixed = seen.mixed
      /\ seen'.joined = seen.joined /\ seen'.forsaken = seen.forsaken /\ seen'.overlapped = seen.overlapped
      /\ UNCHANGED <<available, loaded, callbacks, members, running, life, generation, mTracking, answering,
                     told>>
      /\ mail' = Posted(mail, B, b)
  BY <1>1 DEF ReadIs
<1>3. /\ generation \in Nat /\ generation > 0 /\ mSessionIdCounter \in Nat \ {0}
      /\ told \in BOOLEAN /\ callbacks \subseteq CallbackKind /\ mTracking \in BOOLEAN
      /\ available \subseteq Interface /\ loaded \subseteq Interface
      /\ mRequestQueues \in [RequestType -> Waiting] /\ QueuesApart /\ TrackingNumbered
      /\ MailTypeOK /\ WellKept(d, mSessionIdCounter)
  BY <1>2 DEF ClientInv, ClientTypeOK
<1>4. ~Tracks /\ B \subseteq Interface
  BY <1>2, <1>3 DEF Tracks, Batches
<1>5. r \in ClientRequest /\ r.kind = op /\ r # NoRequest
  BY DEF Request, ClientRequest, NoRequest
<1>6. /\ a \in ClientMessage /\ a.op = "capabilities" /\ a.of = 0 /\ a.gen = generation /\ a.for = NoRequest
      /\ b \in ClientMessage /\ b.op = op /\ b.of = s /\ b.gen = generation /\ b.for = r
  <2>1. "capabilities" \in ClientOps /\ op \in ClientOps /\ 0 \in Nat
    BY DEF ClientOps
  <2>2. b \in ClientMessage /\ b.op = op /\ b.of = s /\ b.gen = generation /\ b.for = r
    BY <1>1, <1>3, <1>5, <2>1, CallAs
  <2> QED
    BY <1>1, <1>3, <2>1, <2>2, CallAs, NoRequestIs
<1>7. /\ mRequestQueues' \in [RequestType -> Waiting]
      /\ mRequestQueues'["tracking"] = mRequestQueues["tracking"]
      /\ mRequestQueues'["niresponse"] = mRequestQueues["niresponse"]
      /\ mRequestQueues["session"].pending = << >> => mRequestQueues'["session"].pending = <<r>>
  <2>1. /\ "tracking" \in RequestType /\ "session" \in RequestType /\ "niresponse" \in RequestType
        /\ "session" # "niresponse" /\ "tracking" # "session"
    BY DEF RequestType
  <2> QED
    BY <1>3, <1>5, <2>1, PushedIs
<1>8. \A z \in DOMAIN d.backward : z \in Nat /\ z <= mSessionIdCounter
  BY <1>3 DEF WellKept
<1>9. /\ WellKept(mSessionBiDict', mSessionIdCounter)
      /\ DOMAIN d.backward \subseteq DOMAIN mSessionBiDict'.backward
      /\ DOMAIN mSessionBiDict'.backward \subseteq DOMAIN d.backward \cup {0}
      /\ \A z \in DOMAIN d.backward \ {0} : mSessionBiDict'.ext[z].mode # "fix" => d.ext[z].mode # "fix"
  BY DEF SameKept
<1>10. Grows
  BY <1>2, <1>3 DEF Grows
<1>11. Posts({}, a, B, b)
  <2>1. UsedBy(B, b)
    BY <1>2, <1>3, <1>4, <1>5, <1>6 DEF UsedBy, InUse
  <2>2. UsedBy({}, a)
    BY DEF UsedBy
  <2>3. mail' = Posted(Posted(mail, {}, a), B, b)
    BY <1>2, <1>3, PostedNone
  <2> QED
    BY <1>2, <1>6, <2>1, <2>2, <2>3 DEF Posts, adapters
<1>12. JoinsOwed({}, a, B, b)
  BY <1>2, <1>6, JoinsLeft DEF Here
<1>13. SessionsOwed({}, a, B, b)
  <2>1. \A z : Excused(z) => Excused(z)'
    BY <1>2 DEF Excused
  <2>2. \A g, z : ~StartsIt(b, g, z)
    BY <1>6 DEF StartsIt
  <2>3. \A g, z : KnownHere(g, z) => KnownHere(g, z)'
    BY <1>2, <1>7, <1>9 DEF KnownHere, Known, Here, HasSession
  <2>4. \A g, z : Here(g)' /\ Halted(z)' => Here(g) /\ Halted(z)
    BY <1>2, <1>7 DEF Here, Halted
  <2> QED
    BY <1>2, <2>1, <2>2, <2>3, <2>4 DEF SessionsOwed
<1>14. DictionaryOwed({}, a, B, b)
  <2>1. ~SilentStop(a) /\ ~SilentStop(b)
    BY <1>5, <1>6 DEF SilentStop
  <2>2. \A z : Batching(z)' => z \in Nat /\ Batching(z) /\ z <= mSessionIdCounter
    BY <1>8, <1>9 DEF Batching
  <2> QED
    BY <1>2, <1>9, <2>1, <2>2 DEF DictionaryOwed, HasSession
<1>15. RequestOwed(a, b)
  <2>1. ~Wants(a)
    BY <1>6 DEF Wants
  <2>2. ~seen.overlapped => mRequestQueues["session"].pending = << >>
    BY NoOtherWaits
  <2> QED
    BY <1>2, <1>6, <1>7, <2>1, <2>2 DEF RequestOwed, Here
<1>16. QueuesApart' /\ TrackingNumbered'
  BY <1>2, <1>3, <1>7 DEF QueuesApart, TrackingNumbered, Tracks, Batches
<1>17. PostedTypeOK
  BY <1>2, <1>3, <1>7 DEF PostedTypeOK
<1>18. PostedWell({}, a, B, b)
  BY <1>2, <1>6, <1>9, <1>10, <1>11, <1>12, <1>13, <1>14, <1>15, <1>16, <1>17 DEF PostedWell
<1> QED
  BY <1>18, PostedInv

LEMMA FoundNumber ==
  ASSUME ClientInv
  PROVE  /\ Found \in Stored /\ SessionOf(Found) \in Nat /\ SessionOf(Found) <= mSessionIdCounter
         /\ \/ SessionOf(Found) = 0
            \/ /\ calling.id \in DOMAIN mSessionBiDict.forward
               /\ mSessionBiDict.forward[calling.id] = SessionOf(Found)
               /\ SessionOf(Found) \in DOMAIN mSessionBiDict.backward \ {0}
               /\ Found = mSessionBiDict.ext[SessionOf(Found)]
         /\ SessionOf(Found) = 0 => Found = NoSession
<1>1. WellKept(mSessionBiDict, mSessionIdCounter) /\ mSessionIdCounter \in Nat \ {0}
  BY DEF ClientInv, ClientTypeOK
<1>2. PICK e, id : e = Found /\ id = calling.id
  OBVIOUS
<1>3. e = GetExtById(mSessionBiDict, id, NoSession)
  BY <1>2 DEF Found
<1>4. /\ e \in Stored /\ SessionOf(e) \in Nat
      /\ \/ e = NoSession /\ SessionOf(e) = 0
         \/ /\ id \in DOMAIN mSessionBiDict.forward /\ mSessionBiDict.forward[id] = SessionOf(e)
            /\ SessionOf(e) > 0
            /\ SessionOf(e) \in DOMAIN mSessionBiDict.backward /\ e = mSessionBiDict.ext[SessionOf(e)]
  BY <1>1, <1>3, FoundIs
<1>5. \A z \in DOMAIN mSessionBiDict.backward : z <= mSessionIdCounter
  BY <1>1 DEF WellKept
<1> QED
  BY <1>1, <1>2, <1>4, <1>5

LEMMA TouchSame ==
  ASSUME ClientInv, calling.id \in Id, mSessionBiDict' = Touch(mSessionBiDict, calling.id)
  PROVE  SameKept /\ mSessionBiDict'.backward = mSessionBiDict.backward
         /\ mSessionBiDict'.ext = mSessionBiDict.ext
<1>1. PICK id : id = calling.id
  OBVIOUS
<1>2. id \in Id /\ WellKept(mSessionBiDict, mSessionIdCounter) /\ mSessionIdCounter \in Nat
      /\ mSessionBiDict' = Touch(mSessionBiDict, id)
  BY <1>1 DEF ClientInv, ClientTypeOK
<1>3. /\ WellKept(mSessionBiDict', mSessionIdCounter)
      /\ mSessionBiDict'.backward = mSessionBiDict.backward /\ mSessionBiDict'.ext = mSessionBiDict.ext
  BY <1>2, TouchKept
<1> QED
  BY <1>3 DEF SameKept

LEMMA ServingIs ==
  ASSUME ClientInv, NEW e
  PROVE  Serving(e) \subseteq loaded /\ Batcher \subseteq loaded
BY DEF Serving, Trackers, Batcher

LEMMA StopSessionInv ==
  ASSUME ClientInv, LocAPIStopSession, UNCHANGED use
  PROVE  ClientInv'
<1>1. PICK s, B : s = SessionOf(Found) /\ B = Serving(Found)
  OBVIOUS
<1>2. PICK r : r = Request("stop", s)
  OBVIOUS
<1>3. r.of = s
  BY <1>2 DEF Request
<1>4. /\ Read("stop") /\ mail' = Posted(mail, B, Call("stop", s, r))
      /\ mRequestQueues' = Push(mRequestQueues, "session", r)
      /\ mSessionBiDict' = Touch(mSessionBiDict, calling.id) /\ UNCHANGED mSessionIdCounter
  BY <1>1, <1>2, <1>3 DEF LocAPIStopSession
<1>5. ReadIs("stop")
  BY <1>4, ReadDoes
<1>6. SameKept
  BY <1>4, <1>5, TouchSame DEF ReadIs
<1>7. s \in Nat /\ s <= mSessionIdCounter /\ B \in SUBSET loaded
  BY <1>1, FoundNumber, ServingIs
<1> QED
  BY <1>2, <1>4, <1>5, <1>6, <1>7, ReadPosts

LEMMA GetBatchedInv ==
  ASSUME ClientInv, LocAPIGetBatchedLocations, UNCHANGED use
  PROVE  ClientInv'
<1>1. PICK s, B : s = Found.batching /\ B = Batcher
  OBVIOUS
<1>2. PICK r : r = Request("get", s)
  OBVIOUS
<1>3. r.of = s
  BY <1>2 DEF Request
<1>4. /\ Read("get") /\ mSessionBiDict' = Touch(mSessionBiDict, calling.id) /\ UNCHANGED mSessionIdCounter
  BY DEF LocAPIGetBatchedLocations
<1>5. ReadIs("get")
  BY <1>4, ReadDoes
<1>6. SameKept /\ mSessionBiDict'.backward = mSessionBiDict.backward /\ mSessionBiDict'.ext = mSessionBiDict.ext
  BY <1>4, <1>5, TouchSame DEF ReadIs
<1>7. CASE Found.mode = "fix"
  <2>1. UNCHANGED <<mail, mRequestQueues>>
    BY <1>7 DEF LocAPIGetBatchedLocations
  <2>2. answering \in [Interface -> Nat] /\ running \in [Interface -> SUBSET (Nat \X Nat)]
    BY DEF ClientInv, ClientTypeOK, AdaptersTypeOK
  <2>3. LeftWell
    BY <1>4, <1>5, <1>6, <2>1, <2>2 DEF LeftWell, ReadIs, Still, SameKept, HasSession
  <2> QED
    BY <2>3, LeftInv
<1>8. CASE Found.mode # "fix"
  <2>1. /\ mail' = Posted(mail, B, Call("get", s, r))
        /\ mRequestQueues' = Push(mRequestQueues, "session", r)
    BY <1>1, <1>2, <1>3, <1>8 DEF LocAPIGetBatchedLocations
  <2>2. s \in Nat /\ s <= mSessionIdCounter /\ B \in SUBSET loaded
    BY <1>1, <1>8, FoundNumber, ServingIs DEF SessionOf
  <2> QED
    BY <1>2, <1>4, <1>5, <1>6, <2>1, <2>2, ReadPosts
<1> QED
  BY <1>7, <1>8

(* An update takes its session out of the dictionary and puts one in.      *)
LEMMA Replaced ==
  ASSUME ClientInv, calling.id \in Id, NEW last \in Nat, mSessionIdCounter <= last,
         NEW s \in 0 .. last, NEW e \in Stored, SessionOf(e) = s,
         s \in {0, SessionOf(Found)} \/ s > mSessionIdCounter,
         mSessionBiDict' = Set(RmById(Touch(mSessionBiDict, calling.id), calling.id), calling.id, s, e)
  PROVE  /\ WellKept(mSessionBiDict', last)
         /\ DOMAIN mSessionBiDict'.backward =
              (DOMAIN mSessionBiDict.backward \ {SessionOf(Found)}) \cup {s}
         /\ mSessionBiDict'.ext[s] = e
         /\ \A z \in DOMAIN mSessionBiDict.backward \ {s, SessionOf(Found)} :
              mSessionBiDict'.ext[z] = mSessionBiDict.ext[z]
<1> DEFINE d == mSessionBiDict
<1>1. PICK id, z0 : id = calling.id /\ z0 = SessionOf(Found)
  OBVIOUS
<1>2. PICK t : t = Touch(d, id)
  OBVIOUS
<1>3. PICK n : n = RmById(t, id)
  OBVIOUS
<1>4. id \in Id /\ WellKept(d, mSessionIdCounter) /\ mSessionIdCounter \in Nat
  BY <1>1 DEF ClientInv, ClientTypeOK
<1>5. WellKept(d, last)
  BY <1>4, LaterKept
<1>6. /\ WellKept(t, last) /\ id \in DOMAIN t.forward
      /\ t.backward = d.backward /\ t.ext = d.ext
      /\ id \in DOMAIN d.forward => t = d
      /\ id \notin DOMAIN d.forward => t.forward[id] = 0
  BY <1>2, <1>4, <1>5, TouchKept
<1>7. t.forward[id] = z0
  <2>1. z0 = 0 \/ (id \in DOMAIN d.forward /\ d.forward[id] = z0)
    BY <1>1, FoundNumber
  <2>2. CASE id \in DOMAIN d.forward /\ z0 = 0
    <3>1. PICK f : f = GetExtById(d, id, NoSession)
      OBVIOUS
    <3>2. SessionOf(f) = 0
      BY <1>1, <2>2, <3>1 DEF Found
    <3>3. d.forward[id] = SessionOf(f) \/ ~(d.forward[id] > 0 /\ d.forward[id] \in DOMAIN d.ext)
      BY <1>4, <2>2, <3>1 DEF GetExtById, HasId, WellKept, MatchedBy
    <3>4. d.forward[id] \in Nat /\ (d.forward[id] > 0 => d.forward[id] \in DOMAIN d.ext)
      BY <1>4, <2>2 DEF WellKept
    <3> QED
      BY <1>6, <2>2, <3>2, <3>3, <3>4
  <2>3. CASE id \notin DOMAIN d.forward
    BY <1>6, <2>1, <2>3
  <2> QED
    BY <1>6, <2>1, <2>2, <2>3
<1>8. /\ WellKept(n, last) /\ id \notin DOMAIN n.forward
      /\ DOMAIN n.backward = DOMAIN d.backward \ {z0}
      /\ \A z \in DOMAIN d.backward \ {z0} : n.ext[z] = d.ext[z]
  BY <1>3, <1>6, <1>7, RmByIdKept
<1>9. \A z \in DOMAIN d.backward : z \in Nat /\ z <= mSessionIdCounter
  BY <1>4 DEF WellKept
<1>10. s = 0 \/ s \notin DOMAIN n.backward
  BY <1>1, <1>4, <1>8, <1>9
<1>11. mSessionBiDict' = Set(n, id, s, e)
  BY <1>1, <1>2, <1>3
<1>12. /\ WellKept(Set(n, id, s, e), last)
       /\ DOMAIN Set(n, id, s, e).backward = DOMAIN n.backward \cup {s}
       /\ Set(n, id, s, e).ext[s] = e
       /\ \A z \in DOMAIN n.backward \ {s} : Set(n, id, s, e).ext[z] = n.ext[z]
  BY <1>4, <1>8, <1>10, SetKept
<1> QED
  BY <1>1, <1>8, <1>11, <1>12

Switches == (Found.mode = "fix") # (calling.mode = "fix")
StoredAs(s, mode) ==
  [tracking |-> IF mode = "fix" THEN s ELSE 0, batching |-> IF mode = "fix" THEN 0 ELSE s, mode |-> mode]

LEMMA StoredIs ==
  ASSUME NEW s \in Nat, NEW mode \in SessionMode
  PROVE  StoredAs(s, mode) \in Stored /\ SessionOf(StoredAs(s, mode)) = s /\ StoredAs(s, mode).mode = mode
BY DEF StoredAs, Stored, SessionOf

LEMMA UpdateStays ==
  ASSUME ClientInv, LocAPIUpdateSessionOptions, UNCHANGED use, ~Switches
  PROVE  ClientInv'
<1>1. PICK s, B : s = SessionOf(Found) /\ B = Serving(Found)
  OBVIOUS
<1>2. PICK r, e : r = Request("update", s) /\ e = StoredAs(s, calling.mode)
  OBVIOUS
<1>3. /\ Read("update") /\ mail' = Posted(mail, B, Call("update", s, r))
      /\ mRequestQueues' = Push(mRequestQueues, "session", r) /\ Counted({})
      /\ mSessionBiDict' = Set(RmById(Touch(mSessionBiDict, calling.id), calling.id), calling.id, s, e)
  BY <1>1, <1>2 DEF LocAPIUpdateSessionOptions, Switches, StoredAs
<1>4. ReadIs("update")
  BY <1>3, ReadDoes
<1>5. s \in Nat /\ s <= mSessionIdCounter /\ B \in SUBSET loaded /\ mSessionIdCounter \in Nat
  BY <1>1, FoundNumber, ServingIs DEF ClientInv, ClientTypeOK
<1>6. mSessionIdCounter' = mSessionIdCounter
  BY <1>3, <1>5 DEF Counted
<1>7. e \in Stored /\ SessionOf(e) = s /\ e.mode = calling.mode
  BY <1>2, <1>4, <1>5, StoredIs DEF ReadIs
<1>8. /\ WellKept(mSessionBiDict', mSessionIdCounter)
      /\ DOMAIN mSessionBiDict'.backward =
           (DOMAIN mSessionBiDict.backward \ {SessionOf(Found)}) \cup {s}
      /\ mSessionBiDict'.ext[s] = e
      /\ \A z \in DOMAIN mSessionBiDict.backward \ {s, SessionOf(Found)} :
           mSessionBiDict'.ext[z] = mSessionBiDict.ext[z]
  BY <1>1, <1>3, <1>4, <1>5, <1>7, Replaced DEF ReadIs
<1>9. s = 0 \/ (s \in DOMAIN mSessionBiDict.backward /\ Found = mSessionBiDict.ext[s])
  BY <1>1, FoundNumber
<1>10. ASSUME NEW z \in DOMAIN mSessionBiDict.backward \ {0}, mSessionBiDict'.ext[z].mode # "fix"
       PROVE  mSessionBiDict.ext[z].mode # "fix"
  <2>1. CASE z = s
    BY <1>7, <1>8, <1>9, <1>10, <2>1 DEF Switches
  <2>2. CASE z # s
    BY <1>1, <1>8, <1>10, <2>2
  <2> QED
    BY <2>1, <2>2
<1>11. SameKept
  BY <1>1, <1>8, <1>9, <1>10 DEF SameKept
<1> QED
  BY <1>2, <1>3, <1>4, <1>5, <1>6, <1>11, ReadPosts

LEMMA UpdateSwitches ==
  ASSUME ClientInv, LocAPIUpdateSessionOptions, UNCHANGED use, Switches
  PROVE  ClientInv'
<1> DEFINE d == mSessionBiDict
<1>1. PICK A, z0 : A = Serving(Found) /\ z0 = SessionOf(Found)
  OBVIOUS
<1>2. PICK B, mode : B = (IF calling.mode = "fix" THEN TrackingInterface(FALSE) ELSE Batcher) /\ mode = calling.mode
  OBVIOUS
<1>3. PICK s, a : s = NewSession(B) /\ a = Call("stop", z0, NoRequest)
  OBVIOUS
<1>4. PICK r, e : r = Request("update", s) /\ e = StoredAs(s, mode)
  OBVIOUS
<1>5. PICK b : b = Call("start", s, r)
  OBVIOUS
<1>6. /\ Read("update") /\ mail' = Posted(Posted(mail, A, a), B, b)
      /\ mRequestQueues' = Push(mRequestQueues, "session", r) /\ Counted(B)
      /\ mSessionBiDict' = Set(RmById(Touch(d, calling.id), calling.id), calling.id, s, e)
  BY <1>1, <1>2, <1>3, <1>4, <1>5 DEF LocAPIUpdateSessionOptions, Switches, StoredAs
<1>7. ReadIs("update")
  BY <1>6, ReadDoes
<1>8. /\ life = "live" /\ calling' = NoCall /\ Batches
      /\ seen' \in History /\ seen'.refused = seen.refused /\ seen'.mixed = seen.mixed
      /\ seen'.joined = seen.joined /\ seen'.forsaken = seen.forsaken /\ seen'.overlapped = seen.overlapped
      /\ UNCHANGED <<available, loaded, callbacks, members, running, life, generation, mTracking, answering,
                     told>>
      /\ calling.id \in Id /\ mode \in SessionMode
  BY <1>2, <1>7 DEF ReadIs
<1>9. /\ generation \in Nat /\ generation > 0 /\ mSessionIdCounter \in Nat \ {0}
      /\ told \in BOOLEAN /\ callbacks \subseteq CallbackKind /\ mTracking \in BOOLEAN
      /\ available \subseteq Interface /\ loaded \subseteq Interface
      /\ mRequestQueues \in [RequestType -> Waiting] /\ QueuesApart /\ TrackingNumbered
      /\ MailTypeOK /\ WellKept(d, mSessionIdCounter) /\ Places /\ BatchHomes
  BY <1>8 DEF ClientInv, ClientTypeOK
<1>10. ~Tracks
  BY <1>8 DEF Tracks, Batches
<1>11. /\ z0 \in Nat /\ z0 <= mSessionIdCounter /\ A \subseteq loaded
       /\ z0 = 0 \/ (z0 \in DOMAIN d.backward \ {0} /\ Found = d.ext[z0])
  BY <1>1, FoundNumber, ServingIs
<1>12. /\ B \subseteq loaded /\ B \subseteq Interface \ {"geofence"} /\ \A i, j \in B : i = j
       /\ mode # "fix" => B \subseteq {"flp"}
  BY <1>2, <1>9 DEF TrackingInterface, Batcher, Interface
<1>13. /\ s \in Nat /\ mSessionIdCounter' \in Nat \ {0} /\ s <= mSessionIdCounter'
       /\ mSessionIdCounter <= mSessionIdCounter' /\ s \in 0 .. mSessionIdCounter'
       /\ B # {} => s >= 2
       /\ s = 0 \/ s > mSessionIdCounter
  <2>1. CASE B = {}
    BY <1>3, <1>6, <1>9, <2>1 DEF NewSession, Counted
  <2>2. CASE B # {}
    BY <1>3, <1>6, <1>9, <2>2 DEF NewSession, Counted
  <2> QED
    BY <2>1, <2>2
<1>14. r \in ClientRequest /\ r.kind = "update" /\ r # NoRequest
  BY <1>4, <1>13 DEF Request, ClientRequest, NoRequest
<1>15. /\ a \in ClientMessage /\ a.op = "stop" /\ a.of = z0 /\ a.gen = generation /\ a.for = NoRequest
       /\ b \in ClientMessage /\ b.op = "start" /\ b.of = s /\ b.gen = generation /\ b.for = r
  <2>1. "stop" \in ClientOps /\ "start" \in ClientOps
    BY DEF ClientOps
  <2>2. b \in ClientMessage /\ b.op = "start" /\ b.of = s /\ b.gen = generation /\ b.for = r
    BY <1>5, <1>9, <1>13, <1>14, <2>1, CallAs
  <2>3. NoRequest \in ClientRequest
    BY NoRequestIs
  <2>4. a \in ClientMessage /\ a.op = "stop" /\ a.of = z0 /\ a.gen = generation /\ a.for = NoRequest
    BY <1>3, <1>9, <1>11, <2>1, <2>3, CallAs
  <2> QED
    BY <2>2, <2>4
<1>16. /\ mRequestQueues' \in [RequestType -> Waiting]
       /\ mRequestQueues'["tracking"] = mRequestQueues["tracking"]
       /\ mRequestQueues'["niresponse"] = mRequestQueues["niresponse"]
       /\ mRequestQueues["session"].pending = << >> => mRequestQueues'["session"].pending = <<r>>
  <2>1. /\ "tracking" \in RequestType /\ "session" \in RequestType /\ "niresponse" \in RequestType
        /\ "session" # "niresponse" /\ "tracking" # "session"
    BY DEF RequestType
  <2> QED
    BY <1>6, <1>9, <1>14, <2>1, PushedIs
<1>17. e \in Stored /\ SessionOf(e) = s /\ e.mode = mode
  BY <1>4, <1>8, <1>13, StoredIs
<1>18. /\ WellKept(mSessionBiDict', mSessionIdCounter')
       /\ DOMAIN mSessionBiDict'.backward = (DOMAIN d.backward \ {z0}) \cup {s}
       /\ mSessionBiDict'.ext[s] = e
       /\ \A z \in DOMAIN d.backward \ {s, z0} : mSessionBiDict'.ext[z] = d.ext[z]
  <2>1. PICK last : last = mSessionIdCounter'
    OBVIOUS
  <2>2. last \in Nat /\ mSessionIdCounter <= last /\ s \in 0 .. last
    BY <1>13, <2>1
  <2>3. /\ WellKept(mSessionBiDict', last)
        /\ DOMAIN mSessionBiDict'.backward = (DOMAIN d.backward \ {SessionOf(Found)}) \cup {s}
        /\ mSessionBiDict'.ext[s] = e
        /\ \A z \in DOMAIN d.backward \ {s, SessionOf(Found)} : mSessionBiDict'.ext[z] = d.ext[z]
    BY <1>6, <1>8, <1>13, <1>17, <2>2, Replaced
  <2> QED
    BY <1>1, <2>1, <2>3
<1>19. \A z \in DOMAIN d.backward : z \in Nat /\ z <= mSessionIdCounter
  BY <1>9 DEF WellKept
<1>20. Grows
  BY <1>8, <1>9, <1>13 DEF Grows
<1>21. Posts(A, a, B, b)
  <2>1. UsedBy(B, b)
    BY <1>8, <1>9, <1>12, <1>13, <1>14, <1>15 DEF UsedBy, InUse
  <2>2. UsedBy(A, a)
    BY <1>8, <1>9, <1>11, <1>13, <1>15, NoRequestIs DEF UsedBy, InUse
  <2>3. b.op = "start" => \A i, j \in B : i = j /\ b.of > mSessionIdCounter
    BY <1>12, <1>13, <1>15
  <2> QED
    BY <1>6, <1>8, <1>15, <2>1, <2>2, <2>3 DEF Posts, adapters
<1>22. JoinsOwed(A, a, B, b)
  BY <1>8, <1>15, JoinsLeft DEF Here
<1>23. SessionsOwed(A, a, B, b)
  <2>1. \A z : Excused(z) => Excused(z)'
    BY <1>8 DEF Excused
  <2>2. ASSUME NEW g, NEW z, StartsIt(b, g, z)
        PROVE  KnownHere(g, z)'
    BY <1>8, <1>15, <1>18, <2>2 DEF StartsIt, KnownHere, Known, Here, HasSession
  <2>3. ASSUME NEW i \in Interface, NEW g, NEW z, KnownHere(g, z), Arrives(i, g, z)
        PROVE  KnownHere(g, z)' \/ EndedBy(i, g, z, A, a, B, b)
    <3>1. UnderWay(i, g, z)
      BY <2>3 DEF Arrives, UnderWay
    <3>2. i \in loaded /\ i # "geofence" /\ z \in 2 .. mSessionIdCounter
      BY <1>9, <3>1, UnderWayAt
    <3>3. CASE z = z0
      <4>1. i \in A
        <5>1. CASE Found.mode = "fix"
          BY <1>1, <3>2, <5>1 DEF Serving, Trackers, Interface
        <5>2. CASE Found.mode # "fix"
          <6>1. Batching(z)
            BY <1>11, <3>2, <3>3, <5>2 DEF Batching
          <6>2. ~NotAt(i, z)
            <7>1. <<g, z>>[2] = z
              OBVIOUS
            <7> QED
              BY <3>1, <7>1 DEF UnderWay, NotAt, StartsIt, Starting
          <6>3. i = "flp"
            BY <1>9, <6>1, <6>2 DEF BatchHomes
          <6> QED
            BY <1>1, <3>2, <5>2, <6>3 DEF Serving, Batcher
        <5> QED
          BY <5>1, <5>2
      <4>2. g = generation
        BY <2>3 DEF KnownHere, Here
      <4> QED
        BY <1>15, <3>3, <4>1, <4>2 DEF EndedBy, EndsSession
    <3>4. CASE z # z0
      BY <1>8, <1>16, <1>18, <2>3, <3>4 DEF KnownHere, Known, Here, HasSession
    <3> QED
      BY <3>3, <3>4
  <2>4. ASSUME NEW g, NEW z, Here(g)', Halted(z)'
        PROVE  /\ Here(g) /\ Halted(z)
               /\ B = {} \/ ~StartsIt(b, g, z)
    <3>1. z = 0 /\ Here(g) /\ Halted(z)
      BY <1>8, <1>9, <1>10, <1>16, <2>4 DEF Here, Halted, QueuesApart, Nothing
    <3> QED
      BY <1>13, <1>15, <3>1 DEF StartsIt
  <2> QED
    BY <1>8, <2>1, <2>2, <2>3, <2>4 DEF SessionsOwed
<1>24. DictionaryOwed(A, a, B, b)
  <2>1. ~SilentStop(b)
    BY <1>15 DEF SilentStop
  <2>2. ASSUME NEW z, Batching(z)'
        PROVE  /\ z \in Nat
               /\ \/ Batching(z) /\ z <= mSessionIdCounter
                  \/ z > mSessionIdCounter /\ (Starting(b, z) => B \subseteq {"flp"})
    <3>1. CASE z = s
      BY <1>12, <1>13, <1>17, <1>18, <2>2, <3>1 DEF Batching
    <3>2. CASE z # s
      BY <1>18, <1>19, <2>2, <3>2 DEF Batching
    <3> QED
      BY <3>1, <3>2
  <2>3. ASSUME NEW z \in Nat, z \in DOMAIN mSessionBiDict'.backward
        PROVE  z = 0 \/ z \in DOMAIN d.backward \/ z > mSessionIdCounter
    BY <1>13, <1>18, <2>3
  <2>4. SilentStop(a) => a.of \notin DOMAIN mSessionBiDict'.backward
    BY <1>9, <1>11, <1>13, <1>15, <1>18 DEF SilentStop
  <2> QED
    BY <1>8, <2>1, <2>2, <2>3, <2>4 DEF DictionaryOwed, HasSession
<1>25. RequestOwed(a, b)
  <2>1. ~Wants(a)
    BY <1>15 DEF Wants
  <2>2. ~seen.overlapped => mRequestQueues["session"].pending = << >>
    BY <1>7, NoOtherWaits
  <2> QED
    BY <1>8, <1>15, <1>16, <2>1, <2>2 DEF RequestOwed, Here
<1>26. QueuesApart' /\ TrackingNumbered'
  BY <1>8, <1>9, <1>13, <1>16 DEF QueuesApart, TrackingNumbered, Tracks, Batches, Waiting, RequestType
<1>27. PostedTypeOK
  BY <1>8, <1>9, <1>13, <1>16 DEF PostedTypeOK
<1>28. PostedWell(A, a, B, b)
  BY <1>8, <1>15, <1>18, <1>20, <1>21, <1>22, <1>23, <1>24, <1>25, <1>26, <1>27 DEF PostedWell
<1> QED
  BY <1>28, PostedInv

-----------------------------------------------------------------------------
(* The invariant holds, and what it says of the property.                  *)
LEMMA StutterInv ==
  ASSUME ClientInv, UNCHANGED vars, UNCHANGED use
  PROVE  ClientInv'
<1>1. UNCHANGED <<available, loaded, callbacks, mail, members, running, mSessionIdCounter, life, generation,
                  mRequestQueues, mTracking, mSessionBiDict, calling, answering, told, seen>>
  BY DEF vars, dispatcher, adapters, object, library
<1>2. /\ answering \in [Interface -> Nat] /\ running \in [Interface -> SUBSET (Nat \X Nat)]
      /\ seen \in History /\ WellKept(mSessionBiDict, mSessionIdCounter)
      /\ calling = NoCall \/ calling \in [op : {"stop", "get", "update"}, id : Id, mode : SessionMode]
  BY DEF ClientInv, ClientTypeOK, AdaptersTypeOK
<1>3. LeftWell
  BY <1>1, <1>2 DEF LeftWell, Still, HasSession
<1> QED
  BY <1>3, LeftInv

LEMMA ClientInvInit ==
  ASSUME HalInit
  PROVE  ClientInv
<1>1. /\ available \in {Interface, {"gnss"}} /\ loaded \in SUBSET {"gnss"} /\ callbacks = {}
      /\ mail = [i \in Interface |-> << >>] /\ members = [i \in Interface |-> << >>]
      /\ running = [i \in Interface |-> {}] /\ mSessionIdCounter = 1
      /\ life = "none" /\ generation = 0 /\ mRequestQueues = EmptyQueues /\ mTracking = FALSE
      /\ mSessionBiDict = EmptyDict /\ calling = NoCall /\ answering = [i \in Interface |-> 0]
      /\ told = FALSE /\ use \in Uses
      /\ seen = [mixed |-> {}, collided |-> FALSE, overlapped |-> FALSE, raced |-> {},
                 refused |-> {}, joined |-> {}, asked |-> {}, forsaken |-> FALSE]
  BY DEF HalInit, Init
<1>2. \A i \in Interface : /\ mail[i] = << >> /\ DOMAIN mail[i] = {}
                           /\ DOMAIN members[i] = {} /\ running[i] = {}
  BY <1>1
<1>3. MailTypeOK
  <2>1. << >> \in Seq(ClientMessage)
    BY EmptySeq
  <2> QED
    BY <1>1, <2>1 DEF MailTypeOK
<1>4. ClientTypeOK
  <2>1. available \subseteq Interface /\ loaded \subseteq Interface
    BY <1>1 DEF Interface
  <2>2. seen \in History
    BY <1>1 DEF History
  <2>3. AdaptersTypeOK
    BY <1>1 DEF AdaptersTypeOK
  <2>4. mRequestQueues \in [RequestType -> Waiting] /\ mTracking \in BOOLEAN /\ told \in BOOLEAN
    BY <1>1, EmptyQueuesAre
  <2>5. answering \in [Interface -> Nat] /\ mSessionIdCounter \in Nat \ {0} /\ generation \in Nat
    BY <1>1
  <2>6. life = "none" /\ calling = NoCall /\ callbacks \subseteq CallbackKind /\ use \in Uses
    BY <1>1
  <2> QED
    BY <1>3, <2>1, <2>2, <2>3, <2>4, <2>5, <2>6 DEF ClientTypeOK
<1>5. UsesApart /\ QueuesApart /\ TrackingNumbered
  BY <1>1, <1>2, EmptyQueuesAre DEF UsesApart, QueuesApart, TrackingNumbered, Nothing, RequestType
<1>6. Places
  BY <1>2 DEF Places, MessagesInUse, RunningInUse, StartsOnce, StartsBeforeRuns, RunsOnce
<1>7. Membership
  BY <1>2 DEF Membership, JoinedKnown, RunnersRegistered, MembersLeave
<1>8. RunsAreKept /\ StartsAreKept /\ StoppedFirst
  BY <1>2 DEF RunsAreKept, StartsAreKept, StoppedFirst, EndsFirst
<1>9. WellKept(mSessionBiDict, mSessionIdCounter)
  BY <1>1, EmptyKept
<1>10. BatchHomes /\ SilentStops /\ RemovedEnd
  BY <1>1, <1>2 DEF BatchHomes, Batching, EmptyDict, SilentStops, RemovedEnd
<1>11. BatchPairs /\ SessionsUnmixed
  BY <1>1 DEF BatchPairs, Here, SessionsUnmixed
<1> QED
  BY <1>4, <1>5, <1>6, <1>7, <1>8, <1>9, <1>10, <1>11 DEF ClientInv

LEMMA HandleInv ==
  ASSUME ClientInv, NEW i \in Interface, Handle(i), UNCHANGED use
  PROVE  ClientInv'
<1>1. CASE HandleAddClient(i)
  BY <1>1, AddTaken, TakenInv
<1>2. CASE HandleRemoveClient(i)
  BY <1>2, RemoveTaken, TakenInv
<1>3. CASE HandleRequestCapabilities(i)
  BY <1>3, CapabilitiesTaken, TakenInv
<1>4. CASE HandleStart(i)
  BY <1>4, StartTaken, TakenInv
<1>5. CASE HandleStop(i)
  BY <1>5, StopTaken, TakenInv
<1>6. CASE HandleOther(i)
  BY <1>6, OtherTaken, TakenInv
<1>7. CASE RemoveSession(i)
  BY <1>7, RemoveSessionInv
<1> QED
  BY <1>1, <1>2, <1>3, <1>4, <1>5, <1>6, <1>7 DEF Handle

LEMMA ClientInvNext ==
  ASSUME ClientInv, [Next]_halVars
  PROVE  ClientInv'
<1>1. LibraryStep /\ UNCHANGED use
  BY StepIs
<1>2. mTracking \in BOOLEAN
  BY DEF ClientInv, ClientTypeOK
<1>3. CASE \E cbs \in SUBSET CallbackKind : SetCallbacks(cbs)
  BY <1>1, <1>3, SetCallbacksInv
<1>4. CASE Destroy
  BY <1>1, <1>4, DestroyInv
<1>5. CASE Tracks /\ \E far \in BOOLEAN : LocAPIStartTracking(far)
  BY <1>1, <1>5, StartTrackingInv
<1>6. CASE Tracks /\ LocAPIStopTracking
  BY <1>1, <1>6, AskInv DEF LocAPIStopTracking
<1>7. CASE Tracks /\ LocAPIUpdateTrackingOptions
  <2>1. PICK tracking : tracking = mTracking
    OBVIOUS
  <2>2. Ask("update", tracking)
    BY <1>7, <2>1 DEF LocAPIUpdateTrackingOptions
  <2> QED
    BY <1>1, <1>2, <1>7, <2>1, <2>2, AskInv
<1>8. CASE Tracks /\ \E id \in NiId : LocAPIGnssNiResponse(id)
  BY <1>1, <1>8, NiResponseInv
<1>9. CASE Batches /\ \E id \in Id, mode \in SessionMode : LocAPIStartSession(id, mode)
  BY <1>1, <1>9, StartSessionInv
<1>10. CASE Batches /\ \E op \in {"stop", "get", "update"}, id \in Id, mode \in SessionMode :
                         LookUp(op, id, mode)
  BY <1>1, <1>10, LookUpInv
<1>11. CASE Resume
  BY <1>1, <1>11, StopSessionInv, GetBatchedInv, UpdateStays, UpdateSwitches DEF Resume
<1>12. CASE \E s \in 2 .. MaxSession : BeforeBatchingStatusCb(s)
  BY <1>1, <1>12, TripOverInv, TripLostInv
<1>13. CASE \E i \in Interface : Handle(i)
  BY <1>1, <1>13, HandleInv
<1>14. CASE UNCHANGED vars
  BY <1>1, <1>14, StutterInv
<1> QED
  BY <1>1, <1>3, <1>4, <1>5, <1>6, <1>7, <1>8, <1>9, <1>10, <1>11, <1>12, <1>13, <1>14 DEF LibraryStep

LEMMA NothingIsLeft ==
  ASSUME ClientInv
  PROVE  NothingIsLeftBehind
<1>1. NothingLeftRunning
  <2> SUFFICES ASSUME NEW i \in Interface, NEW r \in running[i]
               PROVE  \/ life = "live" /\ r[1] = generation /\ Stoppable(r[2])
                      \/ \E k \in DOMAIN mail[i] : EndsSession(mail[i][k], r[1], r[2])
                      \/ r[2] \in seen.refused \/ seen.forsaken \/ seen.overlapped
    BY DEF NothingLeftRunning
  <2>1. running[i] \subseteq Nat \X Nat
    BY DEF ClientInv, ClientTypeOK, AdaptersTypeOK
  <2>2. PICK g, s : g = r[1] /\ s = r[2] /\ r = <<g, s>>
    BY <2>1
  <2>3. KnownHere(g, s) \/ StoppedAfter(i, 0, g, s) \/ Excused(s)
    BY <2>2 DEF ClientInv, RunsAreKept
  <2>4. StoppedAfter(i, 0, g, s) => \E k \in DOMAIN mail[i] : EndsSession(mail[i][k], g, s)
    BY DEF StoppedAfter
  <2>5. Known(s) => Stoppable(s)
    <3>1. CASE mRequestQueues["tracking"].session = s
      BY <3>1 DEF Stoppable
    <3>2. CASE s \in DOMAIN mSessionBiDict.backward
      <4>1. s \in 2 .. mSessionIdCounter /\ mSessionIdCounter \in Nat
        BY <2>2 DEF ClientInv, ClientTypeOK, Places, RunningInUse
      <4>2. s \in DOMAIN mSessionBiDict.backward \ {0} /\ WellKept(mSessionBiDict, mSessionIdCounter)
        BY <3>2, <4>1 DEF ClientInv
      <4> QED
        BY <4>1, <4>2, KnownIsStoppable DEF Stoppable
    <3> QED
      BY <3>1, <3>2 DEF Known, HasSession
  <2> QED
    BY <2>2, <2>3, <2>4, <2>5 DEF KnownHere, Here, Excused
<1>2. GoneClientsForgotten
  BY DEF GoneClientsForgotten, ClientInv, Membership, MembersLeave, Here, LeavesAfter
<1> QED
  BY <1>1, <1>2 DEF NothingIsLeftBehind

(* The invariant holds of every behaviour, whatever the constants.         *)
THEOREM ClientHolds == Spec => []ClientInv
<1>1. HalInit => ClientInv
  BY ClientInvInit
<1>2. ClientInv /\ [Next]_halVars => ClientInv'
  BY ClientInvNext
<1> QED
  BY <1>1, <1>2, PTL DEF Spec

(* Every session that an interface runs is one its client can still stop,  *)
(* or a message that ends it is under way, or it is excused; and an        *)
(* interface keeps only the live client and those it has yet to let go.    *)
THEOREM ClientLeavesNothing == Spec => []NothingIsLeftBehind
<1>1. ClientInv => NothingIsLeftBehind
  BY NothingIsLeft
<1> QED
  BY <1>1, ClientHolds, PTL

-----------------------------------------------------------------------------
(* Tracking: the requests that wait, and the messages to be answered.      *)
(* Where the session that tracks starts or runs, its messages are those of *)
(* the requests that wait, in their order.                                 *)
Mine(b, g, s) ==
  {k \in DOMAIN b : b[k].gen = g /\ b[k].of = s /\ b[k].op \in {"start", "stop", "update", "get"}}
Pairs(f, p, b, g, s) ==
  /\ f \in [1 .. Len(p) -> Mine(b, g, s)]
  /\ \A k \in 1 .. Len(p) : b[f[k]].for = p[k]
  /\ \A j, k \in 1 .. Len(p) : j < k => f[j] < f[k]
  /\ \A x \in Mine(b, g, s) : \E k \in 1 .. Len(p) : f[k] = x
Paired(p, b, g, s) == \E f : Pairs(f, p, b, g, s)

(* A pairing stays one in a queue that only grew by other messages.        *)
LEMMA PairingStays ==
  ASSUME NEW f, NEW p, NEW b, NEW t, NEW g, NEW s, Pairs(f, p, b, g, s),
         Mine(t, g, s) = Mine(b, g, s), \A k \in DOMAIN b : t[k] = b[k]
  PROVE  Paired(p, t, g, s)
<1>1. Mine(b, g, s) \subseteq DOMAIN b
  BY DEF Mine
<1>2. f \in [1 .. Len(p) -> Mine(b, g, s)]
  BY DEF Pairs
<1>3. \A k \in 1 .. Len(p) : t[f[k]] = b[f[k]]
  BY <1>1, <1>2
<1>4. Pairs(f, p, t, g, s)
  BY <1>3 DEF Pairs
<1> QED
  BY <1>4 DEF Paired

(* A request and its message, added last to both, go together.             *)
LEMMA PairingGrows ==
  ASSUME NEW p \in Seq(ClientRequest), NEW b \in Seq(ClientMessage), NEW g, NEW s,
         Paired(p, b, g, s), NEW c \in ClientMessage, NEW r \in ClientRequest,
         c.gen = g, c.of = s, c.op \in {"start", "stop", "update", "get"}, c.for = r
  PROVE  Paired(Append(p, r), Append(b, c), g, s)
<1>1. PICK f : Pairs(f, p, b, g, s)
  BY DEF Paired
<1>2. PICK q, t : q = Append(p, r) /\ t = Append(b, c)
  OBVIOUS
<1>3. PICK n, m : n = Len(p) /\ m = Len(b)
  OBVIOUS
<1>4. /\ n \in Nat /\ m \in Nat /\ DOMAIN b = 1 .. m /\ DOMAIN p = 1 .. n
      /\ Len(q) = n + 1 /\ q[n + 1] = r /\ \A k \in 1 .. n : q[k] = p[k]
      /\ Len(t) = m + 1 /\ t[m + 1] = c /\ \A k \in 1 .. m : t[k] = b[k]
      /\ DOMAIN t = 1 .. m + 1
  <2>1. n \in Nat /\ m \in Nat /\ DOMAIN b = 1 .. m /\ DOMAIN p = 1 .. n
    BY <1>3, LenProperties
  <2>2. /\ Len(q) = n + 1 /\ q[n + 1] = r /\ \A k \in 1 .. n : q[k] = p[k]
    BY <1>2, <1>3, AppendProperties
  <2>3. /\ Len(t) = m + 1 /\ t[m + 1] = c /\ \A k \in 1 .. m : t[k] = b[k] /\ t \in Seq(ClientMessage)
    BY <1>2, <1>3, AppendProperties
  <2>4. DOMAIN t = 1 .. m + 1
    BY <2>3, LenProperties
  <2> QED
    BY <2>1, <2>2, <2>3, <2>4
<1>5. Mine(t, g, s) = Mine(b, g, s) \cup {m + 1}
  <2>1. ASSUME NEW k
        PROVE  k \in Mine(t, g, s) <=> k \in Mine(b, g, s) \cup {m + 1}
    <3>1. k \in 1 .. m + 1 <=> k \in 1 .. m \/ k = m + 1
      BY <1>4
    <3>2. CASE k = m + 1
      BY <1>4, <3>1, <3>2 DEF Mine
    <3>3. CASE k # m + 1
      BY <1>4, <3>1, <3>3 DEF Mine
    <3> QED
      BY <3>2, <3>3
  <2> QED
    BY <2>1
<1>6. /\ f \in [1 .. n -> Mine(b, g, s)]
      /\ \A k \in 1 .. n : b[f[k]].for = p[k]
      /\ \A j, k \in 1 .. n : j < k => f[j] < f[k]
      /\ \A x \in Mine(b, g, s) : \E k \in 1 .. n : f[k] = x
  BY <1>1, <1>3 DEF Pairs
<1>7. Mine(b, g, s) \subseteq 1 .. m
  BY <1>4 DEF Mine
<1> DEFINE h == [k \in 1 .. n + 1 |-> IF k = n + 1 THEN m + 1 ELSE f[k]]
<1>8. \A k \in 1 .. n + 1 : k = n + 1 \/ k \in 1 .. n
  BY <1>4
<1>9. /\ h[n + 1] = m + 1 /\ \A k \in 1 .. n : h[k] = f[k] /\ f[k] \in Mine(b, g, s)
  BY <1>4, <1>6
<1>10. h \in [1 .. n + 1 -> Mine(t, g, s)]
  BY <1>5, <1>8, <1>9
<1> HIDE DEF h
<1>11. \A k \in 1 .. n + 1 : t[h[k]].for = q[k]
  <2> TAKE k \in 1 .. n + 1
  <2>1. CASE k = n + 1
    BY <1>4, <1>9, <2>1
  <2>2. CASE k \in 1 .. n
    BY <1>4, <1>6, <1>7, <1>9, <2>2
  <2> QED
    BY <1>8, <2>1, <2>2
<1>12. \A j, k \in 1 .. n + 1 : j < k => h[j] < h[k]
  <2> SUFFICES ASSUME NEW j \in 1 .. n + 1, NEW k \in 1 .. n + 1, j < k
               PROVE  h[j] < h[k]
    OBVIOUS
  <2>1. j \in 1 .. n
    BY <1>4
  <2>2. h[j] = f[j] /\ f[j] \in 1 .. m
    BY <1>7, <1>9, <2>1
  <2>3. CASE k = n + 1
    BY <1>4, <1>9, <2>2, <2>3
  <2>4. CASE k \in 1 .. n
    BY <1>6, <1>9, <2>1, <2>2, <2>4
  <2> QED
    BY <1>8, <2>3, <2>4
<1>13. \A x \in Mine(t, g, s) : \E k \in 1 .. n + 1 : h[k] = x
  <2> SUFFICES ASSUME NEW x \in Mine(t, g, s)
               PROVE  \E k \in 1 .. n + 1 : h[k] = x
    OBVIOUS
  <2>1. n + 1 \in 1 .. n + 1 /\ \A k \in 1 .. n : k \in 1 .. n + 1
    BY <1>4
  <2> QED
    BY <1>5, <1>6, <1>9, <2>1
<1>14. Pairs(h, q, t, g, s)
  BY <1>4, <1>10, <1>11, <1>12, <1>13 DEF Pairs
<1> QED
  BY <1>2, <1>14 DEF Paired

Shorter(t, b, g, s) ==
  /\ DOMAIN b = 1 .. Len(b) /\ Len(b) \in Nat /\ 1 \in DOMAIN b
  /\ \A k \in Nat : k # 0 => (k \in Mine(t, g, s) <=> k + 1 \in Mine(b, g, s))
  /\ \A k \in Mine(t, g, s) : k \in Nat \ {0} /\ t[k] = b[k + 1]

(* Taking the head of a queue moves the places in it down by one.          *)
LEMMA MineTail ==
  ASSUME NEW b \in Seq(ClientMessage), b # << >>, NEW t, t = Tail(b), NEW g, NEW s
  PROVE  Shorter(t, b, g, s)
<1>1. PICK m : m = Len(b)
  OBVIOUS
<1>2. t \in Seq(ClientMessage) /\ Len(t) = m - 1 /\ \A k \in 1 .. Len(t) : t[k] = b[k + 1]
  BY <1>1, HeadTailProperties
<1>3. m \in Nat /\ DOMAIN b = 1 .. m /\ DOMAIN t = 1 .. m - 1 /\ m # 0
  BY <1>1, <1>2, LenProperties, EmptySeq
<1>4. ASSUME NEW k \in Nat, k # 0
      PROVE  k \in Mine(t, g, s) <=> k + 1 \in Mine(b, g, s)
  <2>1. k \in 1 .. m - 1 <=> k + 1 \in 1 .. m
    BY <1>3, <1>4
  <2>2. k \in 1 .. m - 1 => t[k] = b[k + 1]
    BY <1>2
  <2> QED
    BY <1>3, <2>1, <2>2 DEF Mine
<1>5. ASSUME NEW k \in Mine(t, g, s)
      PROVE  k \in Nat \ {0} /\ t[k] = b[k + 1]
  <2>1. k \in 1 .. m - 1
    BY <1>3, <1>5 DEF Mine
  <2> QED
    BY <1>2, <1>3, <2>1
<1>6. 1 \in DOMAIN b
  BY <1>3
<1> QED
  BY <1>1, <1>3, <1>4, <1>5, <1>6 DEF Shorter

(* The head of the queue is not of the session, or it is the next of it.   *)
LEMMA PairingPassed ==
  ASSUME NEW p \in Seq(ClientRequest), NEW b \in Seq(ClientMessage), b # << >>, NEW g, NEW s,
         Paired(p, b, g, s), 1 \notin Mine(b, g, s)
  PROVE  Paired(p, Tail(b), g, s)
<1>1. PICK f : Pairs(f, p, b, g, s)
  BY DEF Paired
<1>2. PICK n, t : n = Len(p) /\ t = Tail(b)
  OBVIOUS
<1>3. n \in Nat
  BY <1>2, LenProperties
<1>4. /\ f \in [1 .. n -> Mine(b, g, s)]
      /\ \A k \in 1 .. n : b[f[k]].for = p[k]
      /\ \A j, k \in 1 .. n : j < k => f[j] < f[k]
      /\ \A x \in Mine(b, g, s) : \E k \in 1 .. n : f[k] = x
  BY <1>1, <1>2 DEF Pairs
<1>5. /\ DOMAIN b = 1 .. Len(b) /\ Len(b) \in Nat /\ 1 \in DOMAIN b
      /\ \A k \in Nat : k # 0 => (k \in Mine(t, g, s) <=> k + 1 \in Mine(b, g, s))
      /\ \A k \in Mine(t, g, s) : k \in Nat \ {0} /\ t[k] = b[k + 1]
  BY <1>2, MineTail DEF Shorter
<1>6. \A x \in Mine(b, g, s) : x - 1 \in Mine(t, g, s) /\ t[x - 1] = b[x] /\ x \in Nat
  <2> SUFFICES ASSUME NEW x \in Mine(b, g, s)
               PROVE  x - 1 \in Mine(t, g, s) /\ t[x - 1] = b[x] /\ x \in Nat
    OBVIOUS
  <2>1. x \in 1 .. Len(b) /\ x # 1
    BY <1>5 DEF Mine
  <2>2. PICK y : y = x - 1
    OBVIOUS
  <2>3. y \in Nat /\ y # 0 /\ y + 1 = x /\ x \in Nat
    BY <1>5, <2>1, <2>2
  <2>4. y \in Mine(t, g, s)
    BY <1>5, <2>3
  <2>5. t[y] = b[x]
    BY <1>5, <2>3, <2>4
  <2> QED
    BY <2>2, <2>3, <2>4, <2>5
<1> DEFINE h == [k \in 1 .. n |-> f[k] - 1]
<1>7. \A k \in 1 .. n : h[k] = f[k] - 1 /\ f[k] \in Mine(b, g, s) /\ f[k] \in Nat
  BY <1>4, <1>6
<1>8. h \in [1 .. n -> Mine(t, g, s)]
  BY <1>6, <1>7
<1> HIDE DEF h
<1>9. \A k \in 1 .. n : t[h[k]].for = p[k]
  BY <1>4, <1>6, <1>7
<1>10. \A j, k \in 1 .. n : j < k => h[j] < h[k]
  <2> SUFFICES ASSUME NEW j \in 1 .. n, NEW k \in 1 .. n, j < k
               PROVE  h[j] < h[k]
    OBVIOUS
  <2>1. f[j] < f[k] /\ f[j] \in Nat /\ f[k] \in Nat /\ h[j] = f[j] - 1 /\ h[k] = f[k] - 1
    BY <1>4, <1>7
  <2> QED
    BY <2>1
<1>11. \A x \in Mine(t, g, s) : \E k \in 1 .. n : h[k] = x
  <2> SUFFICES ASSUME NEW x \in Mine(t, g, s)
               PROVE  \E k \in 1 .. n : h[k] = x
    OBVIOUS
  <2>1. x \in Nat /\ x # 0 /\ x + 1 \in Mine(b, g, s)
    BY <1>5
  <2>2. PICK k \in 1 .. n : f[k] = x + 1
    BY <1>4, <2>1
  <2>3. h[k] = x
    BY <1>7, <2>1, <2>2
  <2> QED
    BY <2>3
<1>12. Pairs(h, p, t, g, s)
  BY <1>2, <1>8, <1>9, <1>10, <1>11 DEF Pairs
<1> QED
  BY <1>2, <1>12 DEF Paired

(* The first message taken answers the first request that waits.           *)
LEMMA PairingMet ==
  ASSUME NEW p \in Seq(ClientRequest), NEW b \in Seq(ClientMessage), b # << >>, NEW g, NEW s,
         Paired(p, b, g, s), 1 \in Mine(b, g, s)
  PROVE  p # << >> /\ Head(p) = b[1].for /\ Paired(Tail(p), Tail(b), g, s)
<1>1. PICK f : Pairs(f, p, b, g, s)
  BY DEF Paired
<1>2. PICK n, t, q : n = Len(p) /\ t = Tail(b) /\ q = Tail(p)
  OBVIOUS
<1>3. n \in Nat
  BY <1>2, LenProperties
<1>4. /\ f \in [1 .. n -> Mine(b, g, s)]
      /\ \A k \in 1 .. n : b[f[k]].for = p[k]
      /\ \A j, k \in 1 .. n : j < k => f[j] < f[k]
      /\ \A x \in Mine(b, g, s) : \E k \in 1 .. n : f[k] = x
  BY <1>1, <1>2 DEF Pairs
<1>5. /\ DOMAIN b = 1 .. Len(b) /\ Len(b) \in Nat /\ 1 \in DOMAIN b
      /\ \A k \in Nat : k # 0 => (k \in Mine(t, g, s) <=> k + 1 \in Mine(b, g, s))
      /\ \A k \in Mine(t, g, s) : k \in Nat \ {0} /\ t[k] = b[k + 1]
  <2>1. t = Tail(b)
    BY <1>2
  <2>2. Shorter(t, b, g, s)
    BY <2>1, MineTail
  <2> QED
    BY <2>2 DEF Shorter
<1>6. \A x \in Mine(b, g, s) : x \in Nat /\ x >= 1
  BY <1>5 DEF Mine
<1>7. n >= 1 /\ f[1] = 1
  <2>1. PICK k \in 1 .. n : f[k] = 1
    BY <1>4
  <2>2. 1 \in 1 .. n /\ k \in Nat /\ n >= 1
    BY <1>3
  <2>3. f[1] >= 1 /\ f[1] \in Nat
    BY <1>4, <1>6, <2>2
  <2>4. k = 1
    BY <1>4, <2>1, <2>2, <2>3
  <2> QED
    BY <2>1, <2>2, <2>4
<1>8. /\ p # << >> /\ Head(p) = p[1] /\ Len(q) = n - 1 /\ \A k \in 1 .. n - 1 : q[k] = p[k + 1]
  <2>1. p # << >>
    BY <1>2, <1>7, EmptySeq
  <2> QED
    BY <1>2, <2>1, HeadTailProperties
<1>9. Head(p) = b[1].for
  <2>1. 1 \in 1 .. n
    BY <1>3, <1>7
  <2> QED
    BY <1>4, <1>7, <1>8, <2>1
<1>10. \A x \in Mine(b, g, s) \ {1} : x - 1 \in Mine(t, g, s) /\ t[x - 1] = b[x]
  <2> SUFFICES ASSUME NEW x \in Mine(b, g, s) \ {1}
               PROVE  x - 1 \in Mine(t, g, s) /\ t[x - 1] = b[x]
    OBVIOUS
  <2>1. x \in Nat /\ x >= 1 /\ x # 1
    BY <1>6
  <2>2. PICK y : y = x - 1
    OBVIOUS
  <2>3. y \in Nat /\ y # 0 /\ y + 1 = x
    BY <2>1, <2>2
  <2>4. y \in Mine(t, g, s)
    BY <1>5, <2>3
  <2>5. t[y] = b[x]
    BY <1>5, <2>3, <2>4
  <2> QED
    BY <2>2, <2>4, <2>5
<1> DEFINE h == [k \in 1 .. n - 1 |-> f[k + 1] - 1]
<1>11. \A k \in 1 .. n - 1 : k + 1 \in 1 .. n /\ k \in 1 .. n /\ k \in Nat
  BY <1>3
<1>12. \A k \in 1 .. n - 1 : h[k] = f[k + 1] - 1 /\ f[k + 1] \in Mine(b, g, s) \ {1} /\ f[k + 1] \in Nat
  <2> SUFFICES ASSUME NEW k \in 1 .. n - 1
               PROVE  h[k] = f[k + 1] - 1 /\ f[k + 1] \in Mine(b, g, s) \ {1} /\ f[k + 1] \in Nat
    OBVIOUS
  <2>1. k + 1 \in 1 .. n /\ 1 \in 1 .. n /\ 1 < k + 1
    BY <1>3, <1>7, <1>11
  <2>2. f[1] < f[k + 1] /\ f[k + 1] \in Mine(b, g, s)
    BY <1>4, <2>1
  <2>3. f[k + 1] \in Nat /\ f[k + 1] # 1
    BY <1>6, <1>7, <2>2
  <2> QED
    BY <2>2, <2>3
<1>13. h \in [1 .. n - 1 -> Mine(t, g, s)]
  BY <1>10, <1>12
<1> HIDE DEF h
<1>14. \A k \in 1 .. n - 1 : t[h[k]].for = q[k]
  <2> SUFFICES ASSUME NEW k \in 1 .. n - 1
               PROVE  t[h[k]].for = q[k]
    OBVIOUS
  <2>1. PICK x : x = f[k + 1]
    OBVIOUS
  <2>2. x \in Mine(b, g, s) \ {1} /\ h[k] = x - 1
    BY <1>12, <2>1
  <2>3. t[h[k]] = b[x]
    BY <1>10, <2>2
  <2>4. b[x].for = p[k + 1] /\ q[k] = p[k + 1]
    BY <1>4, <1>8, <1>11, <2>1
  <2> QED
    BY <2>3, <2>4
<1>15. \A j, k \in 1 .. n - 1 : j < k => h[j] < h[k]
  <2> SUFFICES ASSUME NEW j \in 1 .. n - 1, NEW k \in 1 .. n - 1, j < k
               PROVE  h[j] < h[k]
    OBVIOUS
  <2>1. j + 1 \in 1 .. n /\ k + 1 \in 1 .. n /\ j + 1 < k + 1
    BY <1>11
  <2>2. f[j + 1] < f[k + 1] /\ f[j + 1] \in Nat /\ f[k + 1] \in Nat
        /\ h[j] = f[j + 1] - 1 /\ h[k] = f[k + 1] - 1
    BY <1>4, <1>12, <2>1
  <2> QED
    BY <2>2
<1>16. \A x \in Mine(t, g, s) : \E k \in 1 .. n - 1 : h[k] = x
  <2> SUFFICES ASSUME NEW x \in Mine(t, g, s)
               PROVE  \E k \in 1 .. n - 1 : h[k] = x
    OBVIOUS
  <2>1. x \in Nat /\ x # 0 /\ x + 1 \in Mine(b, g, s)
    BY <1>5
  <2>2. PICK k \in 1 .. n : f[k] = x + 1
    BY <1>4, <2>1
  <2>3. k # 1 /\ k \in Nat
    BY <1>3, <1>7, <2>1, <2>2
  <2>4. k - 1 \in 1 .. n - 1 /\ (k - 1) + 1 = k
    BY <1>3, <2>3
  <2>5. h[k - 1] = x
    BY <1>12, <2>1, <2>2, <2>4
  <2> QED
    BY <2>4, <2>5
<1>17. Pairs(h, q, t, g, s)
  BY <1>8, <1>13, <1>14, <1>15, <1>16 DEF Pairs
<1> QED
  BY <1>2, <1>8, <1>9, <1>17 DEF Paired

(* The start of the session is the first message about it.                 *)
TrackPairs ==
  \A g, s : Here(g) /\ mRequestQueues["tracking"].session = s /\ ~seen.collided =>
    \A i \in Interface :
      UnderWay(i, g, s) => Paired(mRequestQueues["tracking"].pending, mail[i], g, s)
StartIsFirst ==
  \A g, s : Here(g) /\ mRequestQueues["tracking"].session = s =>
    \A i \in Interface : \A k \in DOMAIN mail[i] :
      StartsIt(mail[i][k], g, s) => \A l \in Mine(mail[i], g, s) : k <= l

(* One network initiated request at most waits, and its number is not that *)
(* of a session.                                                           *)
OneAsked ==
  LET q == mRequestQueues["niresponse"] IN q.pending = << >> \/ q.pending = <<Request("ni", q.session)>>
NiWaits ==
  \A g : Here(g) /\ ~seen.collided /\ mRequestQueues["niresponse"].pending # << >> =>
    mRequestQueues["niresponse"].session \notin 2 .. mSessionIdCounter
NiApart ==
  \A g : Here(g) /\ ~seen.collided => \A k \in DOMAIN mail["gnss"] :
    LET m == mail["gnss"][k]
    IN m.op = "ni" /\ m.gen = g =>
         m.of \notin 2 .. mSessionIdCounter /\ m.of # mRequestQueues["tracking"].session
TrackingUnmixed == seen.mixed \cap {"tracking", "niresponse"} # {} => seen.collided
TrackInv == TrackPairs /\ StartIsFirst /\ OneAsked /\ NiWaits /\ NiApart /\ TrackingUnmixed

(* An interface that takes a message answers it, or it is not about a      *)
(* session that it will go on to run.                                      *)
Quiet(i) ==
  /\ mRequestQueues' = mRequestQueues /\ seen'.mixed = seen.mixed
  /\ \A g, s : Here(g) /\ 1 \in Mine(mail[i], g, s) => <<g, s>> \notin running'[i]
AnswersOwn(i) ==
  LET m == mail[i][1]
  IN /\ m.op \in {"start", "stop", "update", "get", "ni"}
     /\ m.op # "ni" => UnderWay(i, m.gen, m.of)
     /\ \E ok \in BOOLEAN : Answer(i, m, ok)

(* What taking it does to the requests that wait.                          *)
Pops(q) ==
  /\ mRequestQueues[q].pending # << >>
  /\ mRequestQueues'[q].pending = Tail(mRequestQueues[q].pending)
PopsRight(i) ==
  /\ \A q \in {"tracking", "niresponse"} :
       mRequestQueues'[q].pending = mRequestQueues[q].pending \/ Pops(q)
  /\ ~seen.collided /\ mRequestQueues'["tracking"].pending # mRequestQueues["tracking"].pending =>
       /\ Here(mail[i][1].gen) /\ mail[i][1].of = mRequestQueues["tracking"].session
       /\ mail[i][1].op \in {"start", "stop", "update", "get"}
       /\ UnderWay(i, mail[i][1].gen, mail[i][1].of)
  /\ \A g, s : /\ ~seen.collided /\ Here(g) /\ mRequestQueues["tracking"].session = s
               /\ 1 \in Mine(mail[i], g, s) /\ UnderWay(i, g, s)'
               => Pops("tracking")
  /\ TrackingUnmixed'

(* A message without an answer pops nothing.                               *)
LEMMA QuietRight ==
  ASSUME ClientInv, TrackInv, NEW i \in Interface, Handled(i), Quiet(i)
  PROVE  PopsRight(i)
<1>1. Took(i) /\ MailTypeOK /\ HistoryMoves
  BY DEF Handled, ClientInv, ClientTypeOK
<1>2. \A k \in DOMAIN mail'[i] : k \in Nat \ {0} /\ k + 1 \in DOMAIN mail[i] /\ mail'[i][k] = mail[i][k + 1]
  BY <1>1, TookCame
<1>3. ASSUME NEW g, NEW s, Here(g), mRequestQueues["tracking"].session = s,
             1 \in Mine(mail[i], g, s)
      PROVE  ~UnderWay(i, g, s)'
  <2>1. <<g, s>> \notin running'[i]
    BY <1>3 DEF Quiet
  <2>2. ASSUME NEW k \in DOMAIN mail'[i], StartsIt(mail'[i][k], g, s)
        PROVE  FALSE
    <3>1. k \in Nat \ {0} /\ k + 1 \in DOMAIN mail[i] /\ StartsIt(mail[i][k + 1], g, s)
      BY <1>2, <2>2
    <3>2. k + 1 <= 1
      BY <1>3, <3>1 DEF TrackInv, StartIsFirst
    <3> QED
      BY <3>1, <3>2
  <2> QED
    BY <2>1, <2>2 DEF UnderWay
<1>4. TrackingUnmixed'
  BY <1>1 DEF Quiet, TrackInv, TrackingUnmixed, HistoryMoves
<1> QED
  BY <1>3, <1>4 DEF Quiet, PopsRight

(* An answer pops the request it is for.                                   *)
LEMMA AnswersRight ==
  ASSUME ClientInv, TrackInv, NEW i \in Interface, Handled(i), AnswersOwn(i)
  PROVE  PopsRight(i)
<1> DEFINE m == mail[i][1]
           Claims == IF Here(m.gen) THEN Claimed(m.of) ELSE {}
           sessional == {"start", "stop", "update", "get"}
<1>1. /\ Took(i) /\ MailTypeOK /\ HistoryMoves /\ Places /\ mRequestQueues \in [RequestType -> Waiting]
      /\ answering \in [Interface -> Nat] /\ seen \in History /\ mail[i] # << >> /\ seen'.collided = seen.collided
      /\ mSessionIdCounter \in Nat
  BY DEF Handled, ClientInv, ClientTypeOK, Took, HistoryMoves
<1>2. 1 \in DOMAIN mail[i] /\ m \in ClientMessage /\ mail[i] \in Seq(ClientMessage)
  <2>1. 1 \in DOMAIN mail[i]
    BY <1>1, TookCame
  <2> QED
    BY <1>1, <2>1, MessageAt DEF MailTypeOK
<1>3. PICK ok \in BOOLEAN : Answer(i, m, ok)
  BY DEF AnswersOwn
<1>4. "tracking" \in RequestType /\ "niresponse" \in RequestType /\ "session" \in RequestType
  BY DEF RequestType
<1>5. PICK p : p = mRequestQueues["tracking"].pending
  OBVIOUS
<1>6. p \in Seq(ClientRequest)
  BY <1>1, <1>4, <1>5 DEF Waiting
(* The head of the queue of a session that tracks is the next one awaited. *)
<1>7. ASSUME NEW g, NEW s, ~seen.collided, Here(g), mRequestQueues["tracking"].session = s,
             1 \in Mine(mail[i], g, s), UnderWay(i, g, s)
      PROVE  p # << >> /\ Head(p) = m.for
  <2>1. Paired(p, mail[i], g, s)
    BY <1>5, <1>7 DEF TrackInv, TrackPairs
  <2> QED
    BY <1>1, <1>2, <1>6, <1>7, <2>1, PairingMet
<1>8. ASSUME NEW g, NEW s, ~seen.collided, Here(g), mRequestQueues["tracking"].session = s,
             1 \in Mine(mail[i], g, s), UnderWay(i, g, s)'
      PROVE  Claims = {"tracking"}
  <2>1. m.gen = g /\ m.of = s /\ m.op \in sessional
    BY <1>8 DEF Mine
  <2>2. UnderWay(i, g, s)
    BY <2>1 DEF AnswersOwn
  <2>3. p # << >>
    BY <1>7, <1>8, <2>2
  <2>4. Owner(s) = "tracking"
    BY <1>8 DEF Owner
  <2> QED
    BY <1>5, <1>8, <2>1, <2>3, <2>4 DEF Claimed
<1>9. CASE Claims = {} /\ mRequestQueues' = mRequestQueues
            /\ seen' = [seen EXCEPT !.refused = IF m.op = "stop" /\ ~ok THEN @ \cup {m.of} ELSE @]
  <2>1. seen'.mixed = seen.mixed
    BY <1>1, <1>9 DEF History
  <2>2. TrackingUnmixed'
    BY <1>1, <2>1 DEF TrackInv, TrackingUnmixed
  <2> QED
    BY <1>8, <1>9, <2>2 DEF PopsRight
<1>10. ASSUME NEW q, Claims = {q}, Answers(i, q),
              mRequestQueues' = [mRequestQueues EXCEPT ![q].pending = Tail(@)],
              seen' = [seen EXCEPT
                !.mixed = IF Head(mRequestQueues[q].pending) # m.for THEN @ \cup {q} ELSE @,
                !.refused = IF m.op = "stop" /\ ~ok THEN @ \cup {m.of} ELSE @]
       PROVE  PopsRight(i)
  <2>1. /\ q \in RequestType /\ Here(m.gen) /\ mRequestQueues[q].pending # << >>
        /\ q # "session" => mRequestQueues[q].session = m.of
    BY <1>10 DEF Answers
  <2>2. /\ mRequestQueues'[q].pending = Tail(mRequestQueues[q].pending)
        /\ \A t \in RequestType : t # q => mRequestQueues'[t] = mRequestQueues[t]
    BY <1>1, <1>10, <2>1, PoppedQueue
  <2>3. seen'.mixed = IF Head(mRequestQueues[q].pending) # m.for THEN seen.mixed \cup {q} ELSE seen.mixed
    BY <1>1, <1>10 DEF History
  <2>4. m.op \in sessional => UnderWay(i, m.gen, m.of) /\ 1 \in Mine(mail[i], m.gen, m.of)
    BY <1>2 DEF AnswersOwn, Mine
  <2>5. m.op \notin sessional => m.op = "ni" /\ i = "gnss" /\ m.for = Request("ni", m.of)
    BY <1>1, <1>2 DEF AnswersOwn, Places, MessagesInUse, InUse
  <2>6. m.op \in sessional => m.of \in 2 .. mSessionIdCounter
    <3> SUFFICES ASSUME UnderWay(i, m.gen, m.of)
                 PROVE  m.of \in 2 .. mSessionIdCounter
      BY <2>4
    <3>1. PICK g, s : g = m.gen /\ s = m.of
      OBVIOUS
    <3>2. CASE <<g, s>> \in running[i]
      <4>1. <<g, s>>[2] \in 2 .. mSessionIdCounter
        BY <1>1, <3>2 DEF Places, RunningInUse
      <4> QED
        BY <3>1, <4>1
    <3>3. ASSUME NEW k \in DOMAIN mail[i], StartsIt(mail[i][k], g, s)
          PROVE  s \in 2 .. mSessionIdCounter
      <4>1. mail[i][k].of >= 2 /\ mail[i][k].of <= mSessionIdCounter /\ mail[i][k] \in ClientMessage
        BY <1>1, <3>3, MessageAt DEF Places, MessagesInUse, InUse, StartsIt
      <4>2. mail[i][k].of \in Nat
        BY <4>1 DEF ClientMessage
      <4> QED
        BY <1>1, <3>3, <4>1, <4>2 DEF StartsIt
    <3> QED
      BY <3>1, <3>2, <3>3 DEF UnderWay
  <2>7. ~seen.collided /\ q = "tracking" => m.op \in sessional
    BY <1>2, <2>1, <2>5 DEF TrackInv, NiApart
  <2>8. ~seen.collided /\ q = "tracking" => Head(mRequestQueues[q].pending) = m.for
    BY <1>5, <1>7, <2>1, <2>4, <2>7
  <2>9. ~seen.collided /\ q = "niresponse" => m.op \notin sessional
    BY <2>1, <2>6 DEF TrackInv, NiWaits
  <2>10. q = "niresponse" => Head(mRequestQueues[q].pending) = Request("ni", m.of)
    BY <2>1 DEF TrackInv, OneAsked
  <2>11. ~seen.collided /\ q \in {"tracking", "niresponse"} => seen'.mixed = seen.mixed
    BY <2>3, <2>5, <2>8, <2>9, <2>10
  <2>12. TrackingUnmixed'
    <3>1. q \in {"tracking", "niresponse"} => (seen'.mixed \cap {"tracking", "niresponse"} # {} => seen.collided)
      BY <2>11 DEF TrackInv, TrackingUnmixed
    <3>2. q = "session" => (seen'.mixed \cap {"tracking", "niresponse"} # {} => seen.collided)
      BY <2>3 DEF TrackInv, TrackingUnmixed
    <3> QED
      BY <1>1, <2>1, <3>1, <3>2 DEF TrackingUnmixed, RequestType
  <2>13. \A t \in {"tracking", "niresponse"} :
           mRequestQueues'[t].pending = mRequestQueues[t].pending \/ Pops(t)
    BY <1>4, <2>1, <2>2 DEF Pops
  <2>14. q # "tracking" => mRequestQueues'["tracking"].pending = mRequestQueues["tracking"].pending
    BY <1>4, <2>2
  <2>15. q = "tracking" => Pops("tracking")
    BY <2>1, <2>2 DEF Pops
  <2>16. \A g, s : /\ ~seen.collided /\ Here(g) /\ mRequestQueues["tracking"].session = s
                   /\ 1 \in Mine(mail[i], g, s) /\ UnderWay(i, g, s)'
                   => Pops("tracking")
    <3> SUFFICES ASSUME NEW g, NEW s, ~seen.collided, Here(g), mRequestQueues["tracking"].session = s,
                        1 \in Mine(mail[i], g, s), UnderWay(i, g, s)'
                 PROVE  Pops("tracking")
      OBVIOUS
    <3>1. Claims = {"tracking"}
      BY <1>8
    <3> HIDE DEF Claims
    <3> QED
      BY <1>10, <2>15, <3>1
  <2>17. ~seen.collided /\ mRequestQueues'["tracking"].pending # mRequestQueues["tracking"].pending =>
           /\ Here(m.gen) /\ m.of = mRequestQueues["tracking"].session
           /\ m.op \in sessional /\ UnderWay(i, m.gen, m.of)
    BY <2>1, <2>4, <2>7, <2>14
  <2> QED
    BY <2>12, <2>13, <2>16, <2>17 DEF PopsRight
<1>11. \/ Claims = {} /\ mRequestQueues' = mRequestQueues
          /\ seen' = [seen EXCEPT !.refused = IF m.op = "stop" /\ ~ok THEN @ \cup {m.of} ELSE @]
       \/ \E q : /\ Claims = {q} /\ Answers(i, q)
                 /\ mRequestQueues' = [mRequestQueues EXCEPT ![q].pending = Tail(@)]
                 /\ seen' = [seen EXCEPT
                      !.mixed = IF Head(mRequestQueues[q].pending) # m.for THEN @ \cup {q} ELSE @,
                      !.refused = IF m.op = "stop" /\ ~ok THEN @ \cup {m.of} ELSE @]
  BY <1>1, <1>2, <1>3, PoppedIs
<1> QED
  BY <1>9, <1>10, <1>11

(* A session is under way at one interface only.                           *)
LEMMA OneSite ==
  ASSUME Places, NEW i \in Interface, NEW j \in Interface, NEW g, NEW s,
         UnderWay(i, g, s), UnderWay(j, g, s)
  PROVE  i = j
<1>1. <<g, s>>[2] = s
  OBVIOUS
<1>2. CASE <<g, s>> \in running[i] /\ <<g, s>> \in running[j]
  BY <1>2 DEF Places, RunsOnce
<1>3. ASSUME NEW h \in Interface, NEW k \in DOMAIN mail[h], StartsIt(mail[h][k], g, s),
             NEW n \in Interface, <<g, s>> \in running[n]
      PROVE  FALSE
  BY <1>1, <1>3 DEF Places, StartsBeforeRuns, StartsIt
<1>4. ASSUME NEW k \in DOMAIN mail[i], NEW l \in DOMAIN mail[j],
             StartsIt(mail[i][k], g, s), StartsIt(mail[j][l], g, s)
      PROVE  i = j
  BY <1>4 DEF Places, StartsOnce, StartsIt
<1> QED
  BY <1>2, <1>3, <1>4 DEF UnderWay

(* An interface that takes a message keeps the requests that wait in step  *)
(* with the messages that are left.                                        *)
LEMMA TrackTaken ==
  ASSUME ClientInv, ClientInv', TrackInv, NEW i \in Interface, Handled(i), PopsRight(i)
  PROVE  TrackInv'
<1>1. /\ Took(i) /\ Still /\ RunningMoves(i) /\ HistoryMoves /\ MailTypeOK /\ Places
      /\ mRequestQueues \in [RequestType -> Waiting]
      /\ \A t \in RequestType : mRequestQueues'[t].session = mRequestQueues[t].session
      /\ mail[i] # << >> /\ mail' = [mail EXCEPT ![i] = Tail(@)]
  BY DEF Handled, ClientInv, ClientTypeOK, Took
<1>2. 1 \in DOMAIN mail[i] /\ \A j \in Interface : mail[j] \in Seq(ClientMessage)
  BY <1>1, TookCame DEF MailTypeOK
<1>3. \A j \in Interface : \A k \in DOMAIN mail'[j] :
        /\ k \in Nat \ {0}
        /\ j # i => k \in DOMAIN mail[j] /\ mail'[j][k] = mail[j][k]
        /\ j = i => k + 1 \in DOMAIN mail[i] /\ mail'[i][k] = mail[i][k + 1]
  BY <1>1, TookCame
<1>4. mail'[i] = Tail(mail[i]) /\ \A j \in Interface : j # i => mail'[j] = mail[j]
  BY <1>1 DEF MailTypeOK
<1>5. /\ \A g : Here(g)' <=> Here(g)
      /\ seen'.collided = seen.collided /\ mSessionIdCounter' = mSessionIdCounter
  BY <1>1 DEF Here, Still, HistoryMoves
<1>6. "tracking" \in RequestType /\ "niresponse" \in RequestType
  BY DEF RequestType
<1>7. PICK p, q : p = mRequestQueues["tracking"].pending /\ q = mRequestQueues'["tracking"].pending
  OBVIOUS
<1>8. p \in Seq(ClientRequest)
  BY <1>1, <1>6, <1>7 DEF Waiting
<1>9. q = p \/ (p # << >> /\ q = Tail(p))
  BY <1>7 DEF PopsRight, Pops
<1>10. ASSUME NEW j \in Interface, NEW g, NEW s, UnderWay(j, g, s)'
       PROVE  UnderWay(j, g, s)
  <2>1. CASE <<g, s>> \in running'[j]
    <3>1. \/ <<g, s>> \in running[j]
          \/ j = i /\ mail[i][1].op = "start" /\ <<g, s>> = <<mail[i][1].gen, mail[i][1].of>>
      BY <1>1, <2>1 DEF RunningMoves
    <3> QED
      BY <1>2, <3>1 DEF UnderWay, StartsIt
  <2>2. ASSUME NEW k \in DOMAIN mail'[j], StartsIt(mail'[j][k], g, s)
        PROVE  UnderWay(j, g, s)
    BY <1>3, <2>2 DEF UnderWay
  <2> QED
    BY <1>10, <2>1, <2>2 DEF UnderWay
<1>11. TrackPairs'
  <2> SUFFICES ASSUME NEW g, NEW s, Here(g)', mRequestQueues'["tracking"].session = s, ~seen'.collided,
                      NEW j \in Interface, UnderWay(j, g, s)'
               PROVE  Paired(q, mail'[j], g, s)
    BY <1>7 DEF TrackPairs
  <2>1. Here(g) /\ mRequestQueues["tracking"].session = s /\ ~seen.collided /\ UnderWay(j, g, s)
    BY <1>1, <1>5, <1>6, <1>10
  <2>2. Paired(p, mail[j], g, s)
    BY <1>7, <2>1 DEF TrackInv, TrackPairs
  <2>3. q # p => /\ mail[i][1].gen = g /\ mail[i][1].of = s
                 /\ mail[i][1].op \in {"start", "stop", "update", "get"} /\ UnderWay(i, g, s)
    BY <1>7, <2>1 DEF PopsRight, Here
  <2>4. CASE j # i
    BY <1>1, <1>4, <2>1, <2>2, <2>3, <2>4, OneSite
  <2>5. CASE j = i /\ 1 \notin Mine(mail[i], g, s)
    <3>1. q = p
      BY <1>2, <2>3, <2>5 DEF Mine
    <3>2. Paired(p, Tail(mail[i]), g, s)
      BY <1>1, <1>2, <1>8, <2>2, <2>5, PairingPassed
    <3> QED
      BY <1>4, <2>5, <3>1, <3>2
  <2>6. CASE j = i /\ 1 \in Mine(mail[i], g, s)
    <3>1. Pops("tracking")
      BY <2>1, <2>6 DEF PopsRight
    <3>2. Paired(Tail(p), Tail(mail[i]), g, s)
      BY <1>1, <1>2, <1>8, <2>2, <2>6, PairingMet
    <3> QED
      BY <1>4, <1>7, <2>6, <3>1, <3>2 DEF Pops
  <2> QED
    BY <2>4, <2>5, <2>6
<1>12. StartIsFirst'
  <2> SUFFICES ASSUME NEW g, NEW s, Here(g)', mRequestQueues'["tracking"].session = s,
                      NEW j \in Interface, NEW k \in DOMAIN mail'[j], StartsIt(mail'[j][k], g, s),
                      NEW l \in Mine(mail'[j], g, s)
               PROVE  k <= l
    BY DEF StartIsFirst
  <2>1. Here(g) /\ mRequestQueues["tracking"].session = s
    BY <1>1, <1>5, <1>6
  <2>2. CASE j # i
    BY <1>4, <2>1, <2>2 DEF TrackInv, StartIsFirst
  <2>3. CASE j = i
    <3>1. Shorter(mail'[i], mail[i], g, s)
      BY <1>1, <1>2, <1>4, MineTail
    <3>2. l \in Nat /\ l + 1 \in Mine(mail[i], g, s)
      BY <2>3, <3>1 DEF Shorter
    <3>3. k \in Nat /\ k + 1 \in DOMAIN mail[i] /\ StartsIt(mail[i][k + 1], g, s)
      BY <1>3, <2>3
    <3>4. k + 1 <= l + 1
      BY <2>1, <3>2, <3>3 DEF TrackInv, StartIsFirst
    <3> QED
      BY <3>2, <3>3, <3>4
  <2> QED
    BY <2>2, <2>3
<1>13. PICK w, v : w = mRequestQueues["niresponse"] /\ v = mRequestQueues'["niresponse"]
  OBVIOUS
<1>14. v.session = w.session /\ (v.pending = w.pending \/ (w.pending # << >> /\ v.pending = Tail(w.pending)))
  BY <1>1, <1>6, <1>13 DEF PopsRight, Pops
<1>15. w.pending = << >> \/ w.pending = <<Request("ni", w.session)>>
  BY <1>13 DEF TrackInv, OneAsked
<1>16. OneAsked'
  <2>1. v.pending = w.pending \/ v.pending = << >>
    <3>1. PICK r : r = Request("ni", w.session)
      OBVIOUS
    <3>2. Tail(<<r>>) = << >>
      OBVIOUS
    <3> QED
      BY <1>14, <1>15, <3>1, <3>2
  <2> QED
    BY <1>13, <1>14, <1>15, <2>1 DEF OneAsked
<1>17. NiWaits'
  BY <1>5, <1>13, <1>14 DEF NiWaits, TrackInv
<1>18. NiApart'
  <2> SUFFICES ASSUME NEW g, Here(g)', ~seen'.collided, NEW k \in DOMAIN mail'["gnss"],
                      mail'["gnss"][k].op = "ni", mail'["gnss"][k].gen = g
               PROVE  /\ mail'["gnss"][k].of \notin 2 .. mSessionIdCounter
                      /\ mail'["gnss"][k].of # mRequestQueues["tracking"].session
    BY <1>1, <1>5, <1>6 DEF NiApart
  <2>1. PICK l \in DOMAIN mail["gnss"] : mail'["gnss"][k] = mail["gnss"][l]
    BY <1>3 DEF Interface
  <2> QED
    BY <1>5, <2>1 DEF TrackInv, NiApart
<1>19. TrackingUnmixed'
  BY DEF PopsRight
<1> QED
  BY <1>11, <1>12, <1>16, <1>17, <1>18, <1>19 DEF TrackInv

(* Each message is one of the two kinds.                                   *)
LEMMA HandledKinds ==
  ASSUME ClientInv, NEW i \in Interface,
         \/ HandleAddClient(i) \/ HandleRemoveClient(i) \/ HandleRequestCapabilities(i)
         \/ HandleStart(i) \/ HandleStop(i) \/ HandleOther(i)
  PROVE  Quiet(i) \/ AnswersOwn(i)
<1> DEFINE m == mail[i][1]
<1>1. ClientTypeOK /\ Membership /\ seen \in History
  BY DEF ClientInv, ClientTypeOK
<1>2. ASSUME NEW ops, Takes(i, ops)
      PROVE  m.op \in ops /\ Message(i) = m /\ 1 \in DOMAIN mail[i] /\ Session(i) = <<m.gen, m.of>>
  BY <1>1, <1>2, TakesIs DEF Session
<1>3. ASSUME NEW g, NEW s, 1 \in Mine(mail[i], g, s)
      PROVE  m.gen = g /\ m.of = s /\ m.op \in {"start", "stop", "update", "get"}
  BY <1>3 DEF Mine
<1>4. ASSUME NEW g, NEW s, Here(g), <<g, s>> \in running[i]
      PROVE  g \in DOMAIN members[i]
  <2>1. <<g, s>>[1] = g
    OBVIOUS
  <2> QED
    BY <1>1, <1>4, <2>1 DEF Membership, RunnersRegistered, Here
<1>5. CASE HandleAddClient(i)
  BY <1>2, <1>3, <1>5 DEF HandleAddClient, Silent, Quiet
<1>6. CASE HandleRemoveClient(i)
  <2>1. PICK kept : seen' = [seen EXCEPT !.refused = @ \cup {r[2] : r \in kept}]
    BY <1>6 DEF HandleRemoveClient
  <2>2. seen'.mixed = seen.mixed
    BY <1>1, <2>1 DEF History
  <2>3. m.op = "remove" /\ UNCHANGED mRequestQueues
    BY <1>2, <1>6 DEF HandleRemoveClient
  <2> QED
    BY <1>3, <2>2, <2>3 DEF Quiet
<1>7. CASE HandleRequestCapabilities(i)
  BY <1>2, <1>3, <1>7 DEF HandleRequestCapabilities, Quiet
<1>8. CASE HandleStart(i)
  <2>1. m.op = "start" /\ Message(i) = m /\ 1 \in DOMAIN mail[i]
    BY <1>2, <1>8 DEF HandleStart
  <2>2. CASE ~Registered(i)
    <3>1. Silent /\ UNCHANGED running /\ m.gen \notin DOMAIN members[i]
      BY <1>8, <2>1, <2>2 DEF HandleStart, Registered
    <3> QED
      BY <1>3, <1>4, <3>1 DEF Silent, Quiet
  <2>3. CASE Registered(i)
    <3>1. \E ok \in BOOLEAN : Answer(i, m, ok)
      BY <1>8, <2>1, <2>3 DEF HandleStart
    <3>2. UnderWay(i, m.gen, m.of)
      BY <2>1 DEF UnderWay, StartsIt
    <3> QED
      BY <2>1, <3>1, <3>2 DEF AnswersOwn
  <2> QED
    BY <2>2, <2>3
<1>9. CASE HandleStop(i)
  <2>1. m.op = "stop" /\ Message(i) = m /\ Session(i) = <<m.gen, m.of>>
    BY <1>2, <1>9 DEF HandleStop
  <2>2. CASE Session(i) \notin running[i]
    <3>1. Silent /\ UNCHANGED running
      BY <1>9, <2>2 DEF HandleStop
    <3> QED
      BY <1>3, <2>1, <2>2, <3>1 DEF Silent, Quiet
  <2>3. CASE Session(i) \in running[i]
    <3>1. \E ok \in BOOLEAN : Answer(i, m, ok)
      BY <1>9, <2>1, <2>3 DEF HandleStop
    <3> QED
      BY <2>1, <2>3, <3>1 DEF AnswersOwn, UnderWay
  <2> QED
    BY <2>2, <2>3
<1>10. CASE HandleOther(i)
  <2>1. /\ m.op \in {"update", "get", "ni"} /\ Message(i) = m /\ Session(i) = <<m.gen, m.of>>
        /\ UNCHANGED running
    BY <1>2, <1>10 DEF HandleOther, adapters
  <2>2. CASE Registered(i) /\ (m.op = "ni" \/ Session(i) \in running[i])
    <3>1. \E ok \in BOOLEAN : Answer(i, m, ok)
      BY <1>10, <2>1, <2>2 DEF HandleOther
    <3> QED
      BY <2>1, <2>2, <3>1 DEF AnswersOwn, UnderWay
  <2>3. CASE ~(Registered(i) /\ (m.op = "ni" \/ Session(i) \in running[i]))
    <3>1. Silent
      BY <1>10, <2>1, <2>3 DEF HandleOther
    <3>2. ASSUME NEW g, NEW s, Here(g), 1 \in Mine(mail[i], g, s), <<g, s>> \in running[i]
          PROVE  FALSE
      BY <1>3, <1>4, <2>1, <2>3, <3>2 DEF Registered
    <3> QED
      BY <2>1, <3>1, <3>2 DEF Silent, Quiet
  <2> QED
    BY <2>2, <2>3
<1> QED
  BY <1>5, <1>6, <1>7, <1>8, <1>9, <1>10

(* A step that leaves the messages and the requests as they were.          *)
LEMMA TrackStays ==
  ASSUME ClientInv, TrackInv, Still, UNCHANGED <<mail, mRequestQueues>>,
         seen'.mixed = seen.mixed, seen.collided => seen'.collided,
         \A j \in Interface : running'[j] \subseteq running[j]
  PROVE  TrackInv'
<1>1. /\ \A g : Here(g)' <=> Here(g)
      /\ mail' = mail /\ mRequestQueues' = mRequestQueues /\ mSessionIdCounter' = mSessionIdCounter
  BY DEF Here, Still
<1>2. \A j \in Interface : \A g, s : UnderWay(j, g, s)' => UnderWay(j, g, s)
  BY DEF UnderWay
<1>3. TrackPairs'
  BY <1>1, <1>2 DEF TrackInv, TrackPairs
<1>4. StartIsFirst' /\ OneAsked' /\ NiWaits' /\ NiApart'
  BY <1>1 DEF TrackInv, StartIsFirst, OneAsked, NiWaits, NiApart
<1>5. TrackingUnmixed'
  BY DEF TrackInv, TrackingUnmixed
<1> QED
  BY <1>3, <1>4, <1>5 DEF TrackInv

(* Every message an interface takes keeps the pairing.                     *)
LEMMA HandleTracks ==
  ASSUME ClientInv, TrackInv, NEW i \in Interface, Handle(i), UNCHANGED use
  PROVE  TrackInv'
<1>1. ClientInv'
  BY HandleInv
<1>2. CASE RemoveSession(i)
  <2>1. Still /\ UNCHANGED <<mail, mRequestQueues, running, seen>>
    BY <1>2 DEF RemoveSession, Still, dispatcher, adapters, object
  <2> QED
    BY <2>1, TrackStays
<1>3. CASE \/ HandleAddClient(i) \/ HandleRemoveClient(i) \/ HandleRequestCapabilities(i)
           \/ HandleStart(i) \/ HandleStop(i) \/ HandleOther(i)
  <2>1. TakenWell(i)
    BY <1>3, AddTaken, RemoveTaken, CapabilitiesTaken, StartTaken, StopTaken, OtherTaken
  <2>2. Handled(i)
    BY <2>1 DEF TakenWell
  <2>3. Quiet(i) \/ AnswersOwn(i)
    BY <1>3, HandledKinds
  <2>4. PopsRight(i)
    BY <2>2, <2>3, QuietRight, AnswersRight
  <2> QED
    BY <1>1, <2>2, <2>4, TrackTaken
<1> QED
  BY <1>2, <1>3 DEF Handle

-----------------------------------------------------------------------------
(* What the owner's calls add to the messages about a session.             *)
About(m, g, s) == m.gen = g /\ m.of = s /\ m.op \in {"start", "stop", "update", "get"}

(* Messages about something else leave the session's where they are.       *)
LEMMA MinePosted ==
  ASSUME MailTypeOK, NEW A, NEW B, NEW a \in ClientMessage, NEW b \in ClientMessage,
         mail' = Posted(Posted(mail, A, a), B, b),
         NEW i \in Interface, NEW g, NEW s, ~About(a, g, s), i \in B => ~About(b, g, s)
  PROVE  /\ Mine(mail'[i], g, s) = Mine(mail[i], g, s)
         /\ \A k \in DOMAIN mail[i] : mail'[i][k] = mail[i][k]
<1>1. Longer(i, A, a, B, b)
  BY PostedIs
<1>2. \A k \in DOMAIN mail'[i] : k \in Nat /\ Came(i, k, A, a, B, b)
  BY PostedFrom
<1>3. \A k \in DOMAIN mail[i] : k \in DOMAIN mail'[i] /\ mail'[i][k] = mail[i][k]
  <2> DEFINE n == Len(mail[i])
             m == Len(mail'[i])
  <2>1. /\ n \in Nat /\ DOMAIN mail[i] = 1 .. n /\ DOMAIN mail'[i] = 1 .. m
        /\ m = n + (IF i \in A THEN 1 ELSE 0) + (IF i \in B THEN 1 ELSE 0)
        /\ \A k \in DOMAIN mail[i] : mail'[i][k] = mail[i][k]
    BY <1>1 DEF Longer
  <2> HIDE DEF n, m
  <2>2. m \in Nat /\ n <= m
    BY <2>1
  <2> QED
    BY <2>1, <2>2
<1>4. \A k \in DOMAIN mail'[i] : About(mail'[i][k], g, s) => k \in DOMAIN mail[i]
  BY <1>2 DEF Came
<1>5. \A k : k \in Mine(mail'[i], g, s) <=> k \in Mine(mail[i], g, s)
  BY <1>3, <1>4 DEF Mine, About
<1> QED
  BY <1>3, <1>5

(* ... and so its pairing,                                                 *)
LEMMA PairingPosted ==
  ASSUME MailTypeOK, NEW A, NEW B, NEW a \in ClientMessage, NEW b \in ClientMessage,
         mail' = Posted(Posted(mail, A, a), B, b),
         NEW i \in Interface, NEW g, NEW s, ~About(a, g, s), i \in B => ~About(b, g, s),
         NEW p, Paired(p, mail[i], g, s)
  PROVE  Paired(p, mail'[i], g, s)
<1>1. PICK f : Pairs(f, p, mail[i], g, s)
  BY DEF Paired
<1>2. /\ Mine(mail'[i], g, s) = Mine(mail[i], g, s)
      /\ \A k \in DOMAIN mail[i] : mail'[i][k] = mail[i][k]
  BY MinePosted
<1>3. PICK x, y : x = mail[i] /\ y = mail'[i]
  OBVIOUS
<1>4. Pairs(f, p, x, g, s) /\ Mine(y, g, s) = Mine(x, g, s) /\ \A k \in DOMAIN x : y[k] = x[k]
  BY <1>1, <1>2, <1>3
<1>5. Paired(p, y, g, s)
  BY <1>4, PairingStays
<1> QED
  BY <1>3, <1>5

LEMMA PairingNone ==
  ASSUME NEW b, NEW g, NEW s, Mine(b, g, s) = {}
  PROVE  Paired(<< >>, b, g, s)
<1>1. PICK p : p = << >>
  OBVIOUS
<1>2. Len(p) = 0 /\ \A k : k \notin 1 .. Len(p)
  BY <1>1
<1>3. PICK f : f = [k \in 1 .. Len(p) |-> 0]
  OBVIOUS
<1>4. f \in [1 .. Len(p) -> Mine(b, g, s)]
  BY <1>2, <1>3
<1>5. Pairs(f, p, b, g, s)
  BY <1>2, <1>4 DEF Pairs
<1> QED
  BY <1>1, <1>5 DEF Paired

(* ... and a session comes under way only where its start is posted.       *)
LEMMA UnderWayPosted ==
  ASSUME MailTypeOK, NEW A, NEW B, NEW a \in ClientMessage, NEW b \in ClientMessage,
         mail' = Posted(Posted(mail, A, a), B, b), UNCHANGED running, a.op # "start",
         NEW i \in Interface, NEW g, NEW s, UnderWay(i, g, s)'
  PROVE  UnderWay(i, g, s) \/ (i \in B /\ StartsIt(b, g, s))
<1>1. \A k \in DOMAIN mail'[i] : Came(i, k, A, a, B, b)
  BY PostedFrom
<1>2. CASE <<g, s>> \in running[i]
  BY <1>2 DEF UnderWay
<1>3. ASSUME NEW k \in DOMAIN mail'[i], StartsIt(mail'[i][k], g, s)
      PROVE  UnderWay(i, g, s) \/ (i \in B /\ StartsIt(b, g, s))
  BY <1>1, <1>3 DEF Came, UnderWay, StartsIt
<1> QED
  BY <1>2, <1>3 DEF UnderWay

(* Nothing about a session with the number 0 is under way.                 *)
LEMMA NoneAtZero ==
  ASSUME Places', MailTypeOK', NEW i \in Interface, NEW g
  PROVE  /\ ~UnderWay(i, g, 0)'
         /\ \A k \in DOMAIN mail'[i] : ~StartsIt(mail'[i][k], g, 0)
<1>1. \A k \in DOMAIN mail'[i] : ~StartsIt(mail'[i][k], g, 0)
  BY DEF Places, MessagesInUse, InUse, StartsIt
<1>2. <<g, 0>> \notin running'[i]
  <2>1. <<g, 0>>[2] = 0
    OBVIOUS
  <2> QED
    BY <2>1 DEF Places, RunningInUse
<1> QED
  BY <1>1, <1>2 DEF UnderWay

(* No request that waits, and no message about one.                        *)
LEMMA TrackIdle ==
  ASSUME ClientInv', mRequestQueues'["tracking"] = Nothing, mRequestQueues'["niresponse"] = Nothing,
         TrackInv, seen'.mixed = seen.mixed, seen.collided => seen'.collided,
         \A g : Here(g)' => \A k \in DOMAIN mail'["gnss"] :
           ~(mail'["gnss"][k].op = "ni" /\ mail'["gnss"][k].gen = g)
  PROVE  TrackInv'
<1>1. Places' /\ MailTypeOK'
  BY DEF ClientInv, ClientTypeOK
<1>2. \A i \in Interface : \A g : ~UnderWay(i, g, 0)' /\ \A k \in DOMAIN mail'[i] : ~StartsIt(mail'[i][k], g, 0)
  BY <1>1, NoneAtZero
<1>3. TrackPairs' /\ StartIsFirst'
  <2>1. mRequestQueues'["tracking"].session = 0
    BY DEF Nothing
  <2>2. TrackPairs'
    BY <1>2, <2>1 DEF TrackPairs
  <2>3. StartIsFirst'
    BY <1>2, <2>1 DEF StartIsFirst
  <2> QED
    BY <2>2, <2>3
<1>4. OneAsked' /\ NiWaits' /\ NiApart'
  BY DEF OneAsked, NiWaits, NiApart, Nothing
<1>5. TrackingUnmixed'
  BY DEF TrackInv, TrackingUnmixed
<1> QED
  BY <1>3, <1>4, <1>5 DEF TrackInv

(* Messages about a client only.                                           *)
LEMMA TrackPosted ==
  ASSUME ClientInv, TrackInv, NEW A, NEW B, NEW a \in ClientMessage, NEW b \in ClientMessage,
         mail' = Posted(Posted(mail, A, a), B, b),
         a.op \in {"add", "capabilities"}, b.op \in {"add", "capabilities"},
         UNCHANGED <<life, generation, mSessionIdCounter, running, mRequestQueues>>,
         seen'.mixed = seen.mixed, seen'.collided = seen.collided
  PROVE  TrackInv'
<1>1. MailTypeOK
  BY DEF ClientInv, ClientTypeOK
<1>2. \A g, s : ~About(a, g, s) /\ ~About(b, g, s) /\ ~StartsIt(b, g, s)
  BY DEF About, StartsIt
<1>3. \A g : Here(g)' <=> Here(g)
  BY DEF Here
<1>4. TrackPairs'
  <2> SUFFICES ASSUME NEW g, NEW s, Here(g), mRequestQueues["tracking"].session = s, ~seen.collided,
                      NEW i \in Interface, UnderWay(i, g, s)'
               PROVE  Paired(mRequestQueues["tracking"].pending, mail'[i], g, s)
    BY <1>3 DEF TrackPairs
  <2>1. UnderWay(i, g, s)
    BY <1>1, <1>2, UnderWayPosted
  <2>2. PICK p : p = mRequestQueues["tracking"].pending
    OBVIOUS
  <2>3. Paired(p, mail[i], g, s)
    BY <2>1, <2>2 DEF TrackInv, TrackPairs
  <2>4. Paired(p, mail'[i], g, s)
    BY <1>1, <1>2, <2>3, PairingPosted
  <2> QED
    BY <2>2, <2>4
<1>5. StartIsFirst'
  <2> SUFFICES ASSUME NEW g, NEW s, Here(g), mRequestQueues["tracking"].session = s,
                      NEW i \in Interface, NEW k \in DOMAIN mail'[i], StartsIt(mail'[i][k], g, s),
                      NEW l \in Mine(mail'[i], g, s)
               PROVE  k <= l
    BY <1>3 DEF StartIsFirst
  <2>1. /\ Mine(mail'[i], g, s) = Mine(mail[i], g, s)
        /\ \A n \in DOMAIN mail[i] : mail'[i][n] = mail[i][n]
    BY <1>1, <1>2, MinePosted
  <2>2. k \in Mine(mail'[i], g, s)
    BY DEF Mine, StartsIt
  <2>3. k \in DOMAIN mail[i] /\ StartsIt(mail[i][k], g, s)
    BY <2>1, <2>2 DEF Mine
  <2> QED
    BY <2>1, <2>3 DEF TrackInv, StartIsFirst
<1>6. OneAsked' /\ NiWaits'
  BY <1>3 DEF TrackInv, OneAsked, NiWaits
<1>7. NiApart'
  <2>1. \A k \in DOMAIN mail'["gnss"] : Came("gnss", k, A, a, B, b)
    BY <1>1, PostedFrom DEF Interface
  <2>2. \A k \in DOMAIN mail'["gnss"] : mail'["gnss"][k].op = "ni" =>
          k \in DOMAIN mail["gnss"] /\ mail'["gnss"][k] = mail["gnss"][k]
    BY <2>1 DEF Came
  <2> QED
    BY <1>3, <2>2 DEF TrackInv, NiApart
<1>8. TrackingUnmixed'
  BY DEF TrackInv, TrackingUnmixed
<1> QED
  BY <1>4, <1>5, <1>6, <1>7, <1>8 DEF TrackInv

(* One lemma for each call of the owner.                                   *)
LEMMA SetCallbacksTracks ==
  ASSUME ClientInv, ClientInv', TrackInv, NEW cbs \in SUBSET CallbackKind, SetCallbacks(cbs)
  PROVE  TrackInv'
<1>1. PICK a, b, A, B, joined, ask, gen :
        /\ a = [Call("add", 0, NoRequest) EXCEPT !.cbs = cbs, !.gen = gen]
        /\ b = [Call("capabilities", 0, NoRequest) EXCEPT !.gen = gen]
        /\ gen = IF life # "live" THEN generation + 1 ELSE generation
        /\ mail' = Posted(Posted(mail, A, a), B, b)
        /\ life' = "live" /\ generation' = gen
        /\ life # "live" => mRequestQueues' = EmptyQueues
        /\ life = "live" => mRequestQueues' = mRequestQueues
        /\ seen' = [seen EXCEPT !.joined = joined, !.asked = ask]
        /\ UNCHANGED <<running, mSessionIdCounter>>
  BY DEF SetCallbacks, adapters, library
<1>2. generation \in Nat /\ seen \in History /\ Places /\ MailTypeOK
  BY DEF ClientInv, ClientTypeOK
<1>3. seen'.mixed = seen.mixed /\ seen'.collided = seen.collided
  BY <1>1, <1>2 DEF History
<1>4. gen \in Nat /\ (life # "live" => gen > generation)
  BY <1>1, <1>2
<1>5. /\ a \in ClientMessage /\ a.op = "add"
      /\ b \in ClientMessage /\ b.op = "capabilities"
  BY <1>1, <1>4, NoRequestIs DEF Call, ClientMessage, ClientOps
<1>6. CASE life = "live"
  BY <1>1, <1>2, <1>3, <1>5, <1>6, TrackPosted
<1>7. CASE life # "live"
  <2>1. mRequestQueues'["tracking"] = Nothing /\ mRequestQueues'["niresponse"] = Nothing
    BY <1>1, <1>7, EmptyQueuesAre DEF RequestType
  <2>2. ASSUME NEW g, Here(g)', NEW k \in DOMAIN mail'["gnss"],
               mail'["gnss"][k].op = "ni", mail'["gnss"][k].gen = g
        PROVE  FALSE
    <3>1. g = gen
      BY <1>1, <2>2 DEF Here
    <3>2. Came("gnss", k, A, a, B, b)
      BY <1>1, <1>2, <1>5, PostedFrom DEF Interface
    <3>3. k \in DOMAIN mail["gnss"] /\ mail'["gnss"][k] = mail["gnss"][k]
      BY <1>5, <2>2, <3>2 DEF Came
    <3>4. mail["gnss"][k].gen \in 1 .. generation
      BY <1>2, <3>3 DEF Places, MessagesInUse, InUse, Interface
    <3> QED
      BY <1>2, <1>4, <1>7, <2>2, <3>1, <3>3, <3>4
  <2> QED
    BY <1>3, <2>1, <2>2, TrackIdle
<1> QED
  BY <1>6, <1>7

LEMMA DestroyTracks ==
  ASSUME ClientInv, ClientInv', TrackInv, Destroy
  PROVE  TrackInv'
<1>1. PICK gone : seen' = [seen EXCEPT !.forsaken = gone]
  BY DEF Destroy
<1>2. seen'.mixed = seen.mixed /\ seen'.collided = seen.collided
  BY <1>1 DEF ClientInv, ClientTypeOK, History
<1>3. mRequestQueues'["tracking"] = Nothing /\ mRequestQueues'["niresponse"] = Nothing
  BY EmptyQueuesAre DEF Destroy, RequestType
<1>4. \A g : ~Here(g)'
  BY DEF Destroy, Here
<1> QED
  BY <1>2, <1>3, <1>4, TrackIdle

LEMMA StartTracks ==
  ASSUME ClientInv, ClientInv', TrackInv, NEW far \in BOOLEAN, LocAPIStartTracking(far)
  PROVE  TrackInv'
<1>1. PICK B, s, r, hit : /\ B = TrackingInterface(far) /\ s = NewSession(B) /\ r = Request("start", s)
                          /\ hit = (seen.collided \/ Collides(s))
  OBVIOUS
<1>2. PICK a, b : a = Call("capabilities", 0, NoRequest) /\ b = Call("start", s, r)
  OBVIOUS
<1>3. /\ life = "live" /\ mail' = Posted(mail, B, b) /\ Counted(B)
      /\ mRequestQueues' = Push(Reset(mRequestQueues, "tracking", s), "tracking", r)
      /\ seen' = [seen EXCEPT !.collided = hit]
      /\ UNCHANGED <<running, life, generation>>
  BY <1>1, <1>2 DEF LocAPIStartTracking, CanStart, CanCall, adapters, object, StartedQueue
<1>4. /\ generation \in Nat /\ seen \in History /\ mSessionIdCounter \in Nat \ {0}
      /\ mRequestQueues \in [RequestType -> Waiting] /\ MailTypeOK /\ Places
      /\ MailTypeOK' /\ Places'
  BY DEF ClientInv, ClientTypeOK
<1>5. /\ seen'.mixed = seen.mixed /\ seen'.collided = hit
  BY <1>3, <1>4 DEF History
<1>6. /\ s \in Nat
      /\ B = {} => s = 0 /\ mSessionIdCounter' = mSessionIdCounter
      /\ B # {} => s = mSessionIdCounter + 1 /\ mSessionIdCounter' = mSessionIdCounter + 1
  BY <1>1, <1>3, <1>4 DEF NewSession, Counted
<1>7. r \in ClientRequest
  BY <1>1, <1>6 DEF Request, ClientRequest
<1>8. /\ a \in ClientMessage /\ a.op = "capabilities"
      /\ b \in ClientMessage /\ b.op = "start" /\ b.of = s /\ b.gen = generation /\ b.for = r
  <2>1. "capabilities" \in ClientOps /\ "start" \in ClientOps /\ 0 \in Nat
    BY DEF ClientOps
  <2>2. a \in ClientMessage /\ a.op = "capabilities"
    BY <1>2, <1>4, <2>1, CallAs, NoRequestIs
  <2> QED
    BY <1>2, <1>4, <1>6, <1>7, <2>1, <2>2, CallAs
<1>9. mail' = Posted(Posted(mail, {}, a), B, b)
  BY <1>3, <1>4, PostedNone
<1>10. /\ mRequestQueues'["tracking"].session = s /\ mRequestQueues'["tracking"].pending = <<r>>
       /\ mRequestQueues'["niresponse"] = mRequestQueues["niresponse"]
  <2>1. PICK q : q = Reset(mRequestQueues, "tracking", s)
    OBVIOUS
  <2>2. "tracking" \in RequestType /\ "niresponse" \in RequestType
    BY DEF RequestType
  <2>3. /\ q \in [RequestType -> Waiting] /\ q["tracking"].session = s /\ q["tracking"].pending = << >>
        /\ q["niresponse"] = mRequestQueues["niresponse"]
    BY <1>4, <1>6, <2>1, <2>2, ResetIs
  <2>4. mRequestQueues' = Push(q, "tracking", r)
    BY <1>3, <2>1
  <2> QED
    BY <1>7, <2>2, <2>3, <2>4, PushedIs
<1>11. \A g : Here(g)' => Here(g) /\ g = generation
  BY <1>3 DEF Here
(* Nothing is about the new session yet.                                   *)
<1>12. ASSUME NEW i \in Interface, NEW g, B # {}
       PROVE  ~UnderWay(i, g, s) /\ Mine(mail[i], g, s) = {}
  <2>1. ~UnderWay(i, g, s)
    BY <1>4, <1>6, <1>12, UnderWayAt
  <2>2. \A k \in DOMAIN mail[i] : mail[i][k].op # "ni" => mail[i][k].of <= mSessionIdCounter
    BY <1>4 DEF Places, MessagesInUse, InUse
  <2>3. \A k \in DOMAIN mail[i] : mail[i][k].of = s => mail[i][k].op = "ni"
    BY <1>4, <1>6, <1>12, <2>2
  <2> QED
    BY <2>1, <2>3 DEF Mine
<1>13. TrackPairs'
  <2> SUFFICES ASSUME NEW g, Here(g)', NEW i \in Interface, UnderWay(i, g, s)'
               PROVE  Paired(<<r>>, mail'[i], g, s)
    BY <1>10 DEF TrackPairs
  <2>1. B # {}
    BY <1>4, <1>6, NoneAtZero
  <2>2. i \in B
    BY <1>4, <1>3, <1>8, <1>9, <1>12, <2>1, UnderWayPosted
  <2>3. mail'[i] = Append(mail[i], b) /\ mail[i] \in Seq(ClientMessage)
    BY <1>3, <1>4, <2>2 DEF Posted, MailTypeOK
  <2>4. PICK p : p = << >>
    OBVIOUS
  <2>5. Paired(p, mail[i], g, s)
    BY <1>12, <2>1, <2>4, PairingNone
  <2>6. p \in Seq(ClientRequest) /\ Append(p, r) = <<r>>
    BY <2>4, EmptySeq
  <2>7. b.gen = g
    BY <1>8, <1>11
  <2>8. PICK x : x = mail[i]
    OBVIOUS
  <2>9. Paired(Append(p, r), Append(x, b), g, s)
    BY <1>7, <1>8, <2>3, <2>5, <2>6, <2>7, <2>8, PairingGrows
  <2> QED
    BY <2>3, <2>6, <2>8, <2>9
<1>14. StartIsFirst'
  <2> SUFFICES ASSUME NEW g, Here(g)', NEW i \in Interface, NEW k \in DOMAIN mail'[i],
                      StartsIt(mail'[i][k], g, s), NEW l \in Mine(mail'[i], g, s)
               PROVE  k <= l
    BY <1>10 DEF StartIsFirst
  <2>1. B # {}
    BY <1>4, <1>6, NoneAtZero
  <2>2. \A n \in DOMAIN mail'[i] : n \in Nat /\ Came(i, n, {}, a, B, b)
    BY <1>4, <1>8, <1>9, PostedFrom
  <2>3. ASSUME NEW n \in Mine(mail'[i], g, s)
        PROVE  n = Len(mail'[i]) /\ n \in Nat
    <3>1. n \in DOMAIN mail'[i] /\ n \in Nat /\ Came(i, n, {}, a, B, b)
      BY <2>2 DEF Mine
    <3>2. ~(n \in DOMAIN mail[i] /\ mail'[i][n] = mail[i][n])
      BY <1>12, <2>1, <2>3 DEF Mine
    <3> QED
      BY <3>1, <3>2 DEF Came
  <2>4. k \in Mine(mail'[i], g, s)
    BY DEF Mine, StartsIt
  <2> QED
    BY <2>3, <2>4
<1>15. OneAsked'
  BY <1>10 DEF TrackInv, OneAsked
<1>16. ~seen'.collided => ~seen.collided /\ ~Collides(s)
  BY <1>1, <1>5
<1>17. \A x : x \notin 2 .. mSessionIdCounter /\ x # s => x \notin 2 .. mSessionIdCounter'
  BY <1>4, <1>6
<1>18. NiWaits'
  BY <1>10, <1>11, <1>16, <1>17 DEF TrackInv, NiWaits, Collides
<1>19. NiApart'
  <2>1. ASSUME NEW k \in DOMAIN mail'["gnss"], mail'["gnss"][k].op = "ni"
        PROVE  k \in DOMAIN mail["gnss"] /\ mail'["gnss"][k] = mail["gnss"][k]
    <3>1. Came("gnss", k, {}, a, B, b)
      BY <1>4, <1>8, <1>9, PostedFrom DEF Interface
    <3> QED
      BY <1>8, <2>1, <3>1 DEF Came
  <2>2. ASSUME NEW g, Here(g)', ~seen'.collided, NEW k \in DOMAIN mail["gnss"],
               mail["gnss"][k].op = "ni", mail["gnss"][k].gen = g
        PROVE  mail["gnss"][k].of \notin 2 .. mSessionIdCounter /\ mail["gnss"][k].of # s
    BY <1>11, <1>16, <2>2 DEF TrackInv, NiApart, Collides
  <2> QED
    BY <1>10, <1>17, <2>1, <2>2 DEF NiApart
<1>20. TrackingUnmixed'
  BY <1>5, <1>16 DEF TrackInv, TrackingUnmixed
<1> QED
  BY <1>13, <1>14, <1>15, <1>18, <1>19, <1>20 DEF TrackInv

LEMMA AskTracks ==
  ASSUME ClientInv, ClientInv', TrackInv, NEW op \in {"stop", "update"}, NEW tracking, Ask(op, tracking)
  PROVE  TrackInv'
<1>1. PICK B, s, r : B = Trackers /\ s = mRequestQueues["tracking"].session /\ r = Request(op, s)
  OBVIOUS
<1>2. PICK a, b : a = Call("capabilities", 0, NoRequest) /\ b = Call(op, s, r)
  OBVIOUS
<1>3. /\ mail' = Posted(mail, B, b) /\ mRequestQueues' = Push(mRequestQueues, "tracking", r)
      /\ UNCHANGED <<running, life, generation, mSessionIdCounter, seen>>
  BY <1>1, <1>2 DEF Ask, adapters, object
<1>4. /\ generation \in Nat /\ mSessionIdCounter \in Nat
      /\ mRequestQueues \in [RequestType -> Waiting] /\ MailTypeOK /\ Places /\ loaded \subseteq Interface
  BY DEF ClientInv, ClientTypeOK
<1>5. "tracking" \in RequestType /\ "niresponse" \in RequestType
  BY DEF RequestType
<1>6. PICK p : p = mRequestQueues["tracking"].pending
  OBVIOUS
<1>7. s \in Nat /\ p \in Seq(ClientRequest)
  BY <1>1, <1>4, <1>5, <1>6 DEF Waiting
<1>8. r \in ClientRequest
  BY <1>1, <1>7 DEF Request, ClientRequest
<1>9. /\ a \in ClientMessage /\ a.op = "capabilities"
      /\ b \in ClientMessage /\ b.op = op /\ b.of = s /\ b.gen = generation /\ b.for = r
  <2>1. "capabilities" \in ClientOps /\ op \in ClientOps /\ 0 \in Nat
    BY DEF ClientOps
  <2>2. a \in ClientMessage /\ a.op = "capabilities"
    BY <1>2, <1>4, <2>1, CallAs, NoRequestIs
  <2> QED
    BY <1>2, <1>4, <1>7, <1>8, <2>1, <2>2, CallAs
<1>10. mail' = Posted(Posted(mail, {}, a), B, b)
  BY <1>3, <1>4, PostedNone
<1>11. /\ mRequestQueues'["tracking"].session = s /\ mRequestQueues'["tracking"].pending = Append(p, r)
       /\ mRequestQueues'["niresponse"] = mRequestQueues["niresponse"]
  BY <1>1, <1>3, <1>4, <1>5, <1>6, <1>8, PushedIs
<1>12. \A g : Here(g)' => Here(g) /\ g = generation
  BY <1>3 DEF Here
<1>13. TrackPairs'
  <2> SUFFICES ASSUME NEW g, Here(g)', ~seen.collided, NEW i \in Interface, UnderWay(i, g, s)'
               PROVE  Paired(Append(p, r), mail'[i], g, s)
    BY <1>3, <1>11 DEF TrackPairs
  <2>1. ~StartsIt(b, g, s)
    BY <1>9 DEF StartsIt
  <2>2. UnderWay(i, g, s)
    BY <1>3, <1>4, <1>9, <1>10, <2>1, UnderWayPosted
  <2>3. i \in B
    <3>1. i \in loaded /\ i # "geofence"
      BY <1>4, <2>2, UnderWayAt
    <3> QED
      BY <1>1, <3>1 DEF Trackers, Interface
  <2>4. mail'[i] = Append(mail[i], b) /\ mail[i] \in Seq(ClientMessage)
    BY <1>3, <1>4, <2>3 DEF Posted, MailTypeOK
  <2>5. Paired(p, mail[i], g, s)
    BY <1>1, <1>6, <1>12, <2>2 DEF TrackInv, TrackPairs
  <2>6. Paired(Append(p, r), Append(mail[i], b), g, s)
    BY <1>7, <1>8, <1>9, <1>12, <2>4, <2>5, PairingGrows
  <2> QED
    BY <2>4, <2>6
<1>14. StartIsFirst'
  <2> SUFFICES ASSUME NEW g, Here(g)', NEW i \in Interface, NEW k \in DOMAIN mail'[i],
                      StartsIt(mail'[i][k], g, s), NEW l \in Mine(mail'[i], g, s)
               PROVE  k <= l
    BY <1>11 DEF StartIsFirst
  <2>1. \A n \in DOMAIN mail'[i] : n \in Nat /\ Came(i, n, {}, a, B, b)
    BY <1>4, <1>9, <1>10, PostedFrom
  <2>2. k \in DOMAIN mail[i] /\ mail'[i][k] = mail[i][k]
    BY <1>9, <2>1 DEF Came, StartsIt
  <2>3. l \in DOMAIN mail'[i] /\ l \in Nat /\ Came(i, l, {}, a, B, b)
    BY <2>1 DEF Mine
  <2>4. CASE l \in DOMAIN mail[i] /\ mail'[i][l] = mail[i][l]
    <3>1. l \in Mine(mail[i], g, s)
      BY <2>4 DEF Mine
    <3> QED
      BY <1>1, <1>12, <2>2, <3>1 DEF TrackInv, StartIsFirst
  <2>5. CASE \A n \in DOMAIN mail[i] : n < l
    <3>1. k \in Nat /\ k < l
      BY <2>1, <2>2, <2>5
    <3> QED
      BY <2>3, <3>1
  <2> QED
    BY <2>3, <2>4, <2>5 DEF Came
<1>15. OneAsked' /\ NiWaits'
  BY <1>3, <1>11, <1>12 DEF TrackInv, OneAsked, NiWaits
<1>16. NiApart'
  <2>1. ASSUME NEW k \in DOMAIN mail'["gnss"], mail'["gnss"][k].op = "ni"
        PROVE  k \in DOMAIN mail["gnss"] /\ mail'["gnss"][k] = mail["gnss"][k]
    <3>1. Came("gnss", k, {}, a, B, b)
      BY <1>4, <1>9, <1>10, PostedFrom DEF Interface
    <3> QED
      BY <1>9, <2>1, <3>1 DEF Came
  <2> QED
    BY <1>1, <1>3, <1>11, <1>12, <2>1 DEF TrackInv, NiApart
<1>17. TrackingUnmixed'
  BY <1>3 DEF TrackInv, TrackingUnmixed
<1> QED
  BY <1>13, <1>14, <1>15, <1>16, <1>17 DEF TrackInv

LEMMA NiResponseTracks ==
  ASSUME ClientInv, ClientInv', TrackInv, NEW id \in NiId, LocAPIGnssNiResponse(id)
  PROVE  TrackInv'
<1>1. PICK B, r, hit : /\ B = loaded \cap {"gnss"} /\ r = Request("ni", id)
                       /\ hit = (seen.collided \/
                                 id \in {mRequestQueues["tracking"].session} \cup 2..mSessionIdCounter)
  OBVIOUS
<1>2. PICK a, b : a = Call("capabilities", 0, NoRequest) /\ b = Call("ni", id, r)
  OBVIOUS
<1>3. /\ mail' = Posted(mail, B, b)
      /\ mRequestQueues' = Push(Reset(mRequestQueues, "niresponse", id), "niresponse", r)
      /\ seen' = [seen EXCEPT !.collided = hit]
      /\ UNCHANGED <<running, life, generation, mSessionIdCounter>>
  BY <1>1, <1>2 DEF LocAPIGnssNiResponse, adapters, object
<1>4. /\ generation \in Nat /\ seen \in History /\ id \in Nat
      /\ mRequestQueues \in [RequestType -> Waiting] /\ MailTypeOK
  BY NiAssumption DEF ClientInv, ClientTypeOK
<1>5. seen'.mixed = seen.mixed /\ seen'.collided = hit
  BY <1>3, <1>4 DEF History
<1>6. r \in ClientRequest
  BY <1>1, <1>4 DEF Request, ClientRequest
<1>7. /\ a \in ClientMessage /\ a.op = "capabilities"
      /\ b \in ClientMessage /\ b.op = "ni" /\ b.of = id
  <2>1. "capabilities" \in ClientOps /\ "ni" \in ClientOps /\ 0 \in Nat
    BY DEF ClientOps
  <2>2. a \in ClientMessage /\ a.op = "capabilities"
    BY <1>2, <1>4, <2>1, CallAs, NoRequestIs
  <2> QED
    BY <1>2, <1>4, <1>6, <2>1, <2>2, CallAs
<1>8. mail' = Posted(Posted(mail, {}, a), B, b)
  BY <1>3, <1>4, PostedNone
<1>9. /\ mRequestQueues'["tracking"] = mRequestQueues["tracking"]
      /\ mRequestQueues'["niresponse"].session = id /\ mRequestQueues'["niresponse"].pending = <<r>>
  <2>1. PICK q : q = Reset(mRequestQueues, "niresponse", id)
    OBVIOUS
  <2>2. "tracking" \in RequestType /\ "niresponse" \in RequestType
    BY DEF RequestType
  <2>3. /\ q \in [RequestType -> Waiting] /\ q["niresponse"].session = id /\ q["niresponse"].pending = << >>
        /\ q["tracking"] = mRequestQueues["tracking"]
    BY <1>4, <2>1, <2>2, ResetIs
  <2>4. mRequestQueues' = Push(q, "niresponse", r)
    BY <1>3, <2>1
  <2> QED
    BY <1>6, <2>2, <2>3, <2>4, PushedIs
<1>10. \A g : Here(g)' <=> Here(g)
  BY <1>3 DEF Here
<1>11. \A g, s : ~About(a, g, s) /\ ~About(b, g, s) /\ ~StartsIt(b, g, s)
  BY <1>7 DEF About, StartsIt
<1>12. ~seen'.collided => ~seen.collided /\ id # mRequestQueues["tracking"].session
                          /\ id \notin 2 .. mSessionIdCounter
  BY <1>1, <1>5
<1>13. TrackPairs'
  <2> SUFFICES ASSUME NEW g, NEW s, Here(g), mRequestQueues["tracking"].session = s, ~seen.collided,
                      NEW i \in Interface, UnderWay(i, g, s)'
               PROVE  Paired(mRequestQueues["tracking"].pending, mail'[i], g, s)
    BY <1>9, <1>10, <1>12 DEF TrackPairs
  <2>1. UnderWay(i, g, s)
    BY <1>3, <1>4, <1>7, <1>8, <1>11, UnderWayPosted
  <2>2. PICK p : p = mRequestQueues["tracking"].pending
    OBVIOUS
  <2>3. Paired(p, mail[i], g, s)
    BY <2>1, <2>2 DEF TrackInv, TrackPairs
  <2>4. Paired(p, mail'[i], g, s)
    BY <1>4, <1>7, <1>8, <1>11, <2>3, PairingPosted
  <2> QED
    BY <2>2, <2>4
<1>14. StartIsFirst'
  <2> SUFFICES ASSUME NEW g, NEW s, Here(g), mRequestQueues["tracking"].session = s,
                      NEW i \in Interface, NEW k \in DOMAIN mail'[i], StartsIt(mail'[i][k], g, s),
                      NEW l \in Mine(mail'[i], g, s)
               PROVE  k <= l
    BY <1>9, <1>10 DEF StartIsFirst
  <2>0. MailTypeOK /\ ~About(a, g, s) /\ ~About(b, g, s)
    BY <1>4, <1>11
  <2>1. /\ Mine(mail'[i], g, s) = Mine(mail[i], g, s)
        /\ \A n \in DOMAIN mail[i] : mail'[i][n] = mail[i][n]
    BY <1>7, <1>8, <2>0, MinePosted
  <2>2. k \in Mine(mail'[i], g, s)
    BY DEF Mine, StartsIt
  <2>3. k \in DOMAIN mail[i] /\ StartsIt(mail[i][k], g, s)
    BY <2>1, <2>2 DEF Mine
  <2> QED
    BY <2>1, <2>3 DEF TrackInv, StartIsFirst
<1>15. OneAsked' /\ NiWaits'
  BY <1>1, <1>3, <1>9, <1>12 DEF OneAsked, NiWaits
<1>16. NiApart'
  <2>1. \A k \in DOMAIN mail'["gnss"] :
          \/ k \in DOMAIN mail["gnss"] /\ mail'["gnss"][k] = mail["gnss"][k]
          \/ mail'["gnss"][k].op = "capabilities" \/ mail'["gnss"][k].of = id
    <3>1. \A k \in DOMAIN mail'["gnss"] : Came("gnss", k, {}, a, B, b)
      BY <1>4, <1>7, <1>8, PostedFrom DEF Interface
    <3> QED
      BY <1>7, <3>1 DEF Came
  <2> QED
    BY <1>3, <1>9, <1>10, <1>12, <2>1 DEF TrackInv, NiApart
<1>17. TrackingUnmixed'
  BY <1>5, <1>12 DEF TrackInv, TrackingUnmixed
<1> QED
  BY <1>13, <1>14, <1>15, <1>16, <1>17 DEF TrackInv

(* A client that does not track leaves the queues for it empty.            *)
LEMMA NotTracking ==
  ASSUME ClientInv', TrackInv, ~Tracks, UNCHANGED use,
         seen'.mixed = seen.mixed, seen.collided => seen'.collided
  PROVE  TrackInv'
<1>1. ~Tracks'
  BY DEF Tracks
<1>2. mRequestQueues'["tracking"] = Nothing /\ mRequestQueues'["niresponse"] = Nothing
  BY <1>1 DEF ClientInv, QueuesApart
<1>3. \A k \in DOMAIN mail'["gnss"] : mail'["gnss"][k].op # "ni"
  BY <1>1 DEF ClientInv, UsesApart, Interface
<1> QED
  BY <1>2, <1>3, TrackIdle

(* The calls of batching clients mix up none of these answers.             *)
LEMMA MixedStays ==
  ASSUME ClientInv,
         \/ \E id \in Id, mode \in SessionMode : LocAPIStartSession(id, mode)
         \/ \E op \in {"stop", "get", "update"}, id \in Id, mode \in SessionMode : LookUp(op, id, mode)
         \/ Resume
         \/ \E s \in 2 .. MaxSession : BeforeBatchingStatusCb(s)
  PROVE  seen'.mixed = seen.mixed /\ (seen.collided => seen'.collided)
<1>1. seen \in History
  BY DEF ClientInv, ClientTypeOK
<1>2. CASE \E over : seen' = [seen EXCEPT !.overlapped = over]
  BY <1>1, <1>2 DEF History
<1>3. CASE \E races : seen' = [seen EXCEPT !.raced = races]
  BY <1>1, <1>3 DEF History
<1>4. CASE \E id \in Id, mode \in SessionMode : LocAPIStartSession(id, mode)
  BY <1>2, <1>4 DEF LocAPIStartSession
<1>5. CASE \E op \in {"stop", "get", "update"}, id \in Id, mode \in SessionMode : LookUp(op, id, mode)
  BY <1>2, <1>5 DEF LookUp
<1>6. CASE Resume
  BY <1>3, <1>6 DEF Resume, LocAPIStopSession, LocAPIGetBatchedLocations, LocAPIUpdateSessionOptions, Read
<1>7. CASE \E s \in 2 .. MaxSession : BeforeBatchingStatusCb(s)
  BY <1>7 DEF BeforeBatchingStatusCb
<1> QED
  BY <1>4, <1>5, <1>6, <1>7

(* Every step keeps the pairing.                                           *)
LEMMA TrackInvNext ==
  ASSUME ClientInv, TrackInv, [Next]_halVars
  PROVE  TrackInv'
<1>1. LibraryStep /\ UNCHANGED use
  BY StepIs
<1>2. ClientInv'
  BY ClientInvNext
<1>3. CASE \E cbs \in SUBSET CallbackKind : SetCallbacks(cbs)
  BY <1>2, <1>3, SetCallbacksTracks
<1>4. CASE Destroy
  BY <1>2, <1>4, DestroyTracks
<1>5. CASE Tracks /\ \E far \in BOOLEAN : LocAPIStartTracking(far)
  BY <1>2, <1>5, StartTracks
<1>6. CASE Tracks /\ (LocAPIStopTracking \/ LocAPIUpdateTrackingOptions)
  <2>1. PICK tracking : tracking = mTracking
    OBVIOUS
  <2>2. Ask("stop", FALSE) \/ Ask("update", tracking)
    BY <1>6, <2>1 DEF LocAPIStopTracking, LocAPIUpdateTrackingOptions
  <2> QED
    BY <1>2, <2>2, AskTracks
<1>7. CASE Tracks /\ \E id \in NiId : LocAPIGnssNiResponse(id)
  BY <1>2, <1>7, NiResponseTracks
<1>8. CASE \E i \in Interface : Handle(i)
  BY <1>1, <1>8, HandleTracks
<1>9. CASE UNCHANGED vars
  <2>1. UNCHANGED <<mail, running, mRequestQueues, seen, mSessionIdCounter, generation, loaded, life>>
    BY <1>9 DEF vars, dispatcher, adapters, object, library
  <2> QED
    BY <2>1, TrackStays DEF Still
<1>10. CASE \/ Batches /\ \E id \in Id, mode \in SessionMode : LocAPIStartSession(id, mode)
            \/ Batches /\ \E op \in {"stop", "get", "update"}, id \in Id, mode \in SessionMode :
                            LookUp(op, id, mode)
            \/ Resume
            \/ \E s \in 2 .. MaxSession : BeforeBatchingStatusCb(s)
  <2>1. seen'.mixed = seen.mixed /\ (seen.collided => seen'.collided)
    BY <1>10, MixedStays
  <2>2. CASE ~Tracks
    BY <1>1, <1>2, <2>1, <2>2, NotTracking
  <2>3. CASE Tracks /\ Batches
    BY <2>3 DEF Tracks, Batches
  <2>4. CASE ~Batches
    <3>1. mSessionBiDict = EmptyDict /\ calling = NoCall
      BY <2>4 DEF ClientInv, UsesApart
    <3>2. ~Resume
      BY <3>1 DEF Resume, LocAPIStopSession, LocAPIGetBatchedLocations, LocAPIUpdateSessionOptions, Read,
                  NoCall
    <3>3. ~\E s \in 2 .. MaxSession : BeforeBatchingStatusCb(s)
      <4>1. \A s : ~HasSession(mSessionBiDict, s)
        BY <3>1 DEF HasSession, EmptyDict
      <4> QED
        BY <4>1 DEF BeforeBatchingStatusCb
    <3> QED
      BY <1>10, <2>4, <3>2, <3>3
  <2> QED
    BY <2>2, <2>3, <2>4
<1> QED
  BY <1>1, <1>3, <1>4, <1>5, <1>6, <1>7, <1>8, <1>9, <1>10 DEF LibraryStep

LEMMA TrackInvInit ==
  ASSUME HalInit
  PROVE  TrackInv
<1>1. /\ mail = [i \in Interface |-> << >>] /\ life = "none" /\ mRequestQueues = EmptyQueues
      /\ seen.mixed = {}
  BY DEF HalInit, Init
<1>2. \A g : ~Here(g)
  BY <1>1 DEF Here
<1>3. mRequestQueues["niresponse"] = Nothing
  BY <1>1, EmptyQueuesAre DEF RequestType
<1> QED
  BY <1>1, <1>2, <1>3
     DEF TrackInv, TrackPairs, StartIsFirst, OneAsked, NiWaits, NiApart, TrackingUnmixed, Nothing

(* The requests of the session that tracks and the messages that answer    *)
(* them stay in step, whatever the constants.                              *)
THEOREM TrackingHolds == Spec => []TrackInv
<1>1. HalInit => TrackInv
  BY TrackInvInit
<1>2. ClientInv /\ TrackInv /\ [Next]_halVars => TrackInv'
  BY TrackInvNext
<1> QED
  BY <1>1, <1>2, ClientHolds, PTL DEF Spec

(* An answer is taken for the request it answers, except for a network     *)
(* initiated request numbered as a session, and session requests made      *)
(* while another one waits.                                                *)
THEOREM AnswersMatch == Spec => []AnswersReachTheirRequests
<1>1. ClientInv /\ TrackInv => AnswersReachTheirRequests
  BY DEF ClientInv, SessionsUnmixed, TrackInv, TrackingUnmixed, AnswersReachTheirRequests
<1> QED
  BY <1>1, ClientHolds, TrackingHolds, PTL
=============================================================================
