---------------------------- MODULE StatusProofs ----------------------------
(***************************************************************************)
(* Theorems about the observer of the system's status and its XTRA client, *)
(* for every set of other observers and of the items they ask for, every   *)
(* bound on the queue and every domain of values; about the reports that   *)
(* the status keeps; and about the local socket over which the daemon is   *)
(* spoken to.                                                              *)
(***************************************************************************)
EXTENDS StatusObserver, StatusReports, LocIpc, SequenceTheorems, FiniteSetTheorems, TLAPS

-----------------------------------------------------------------------------
(* What the state is made of.                                              *)

XtraHears == XtraItems \cup {"tac"}
XtraKeeps == XtraHears \cup {"lock", "throttle"}

(* Values by item.                                                         *)
Value == SUBSET (NetworkTypes \cup Cells \cup Locks \cup BOOLEAN)
Views(items) == UNION {[known -> Value] : known \in SUBSET items}

(* Only the observer itself speaks for Xtra.                               *)
XtraMessage == {Subscribing(XtraItems, Xtra, FALSE), Subscribing({"tac"}, Xtra, TRUE)}

ClientMessage ==
  [op : {"subscribe"}, items : SUBSET Items, client : Others, request : BOOLEAN]
    \cup [op : {"update", "unsubscribe"}, items : SUBSET Items, client : Others]
    \cup [op : {"unsubscribeAll"}, client : Others]

NotifyMessage == [op : {"notify"}, list : NewsLists]

OtherMessage ==
  [op : {"news"}, values : Views(XtraHears)]
    \cup [op : {"lock"}, values : Views({"lock", "throttle"})]
    \cup [op : {"attach", "turnOn", "turnOff"}]
    \cup [op : {"status"}, updated : BOOLEAN]

Message == XtraMessage \cup ClientMessage \cup NotifyMessage \cup OtherMessage

History ==
  [told : [Others -> Views(Items)], live : SUBSET NetworkTypes, misread : SUBSET NetworkTypes,
   updated : SUBSET Others, onlyRequested : SUBSET Items, wish : [Others -> SUBSET Items]]

StatusTypeOK ==
  /\ clientToItems \in [Observers -> SUBSET Items]
  /\ clientToItems[Xtra] \subseteq XtraHears
  /\ itemToClients \in [Items -> SUBSET Observers]
  /\ cache \in Views(Items)
  /\ attached \in BOOLEAN
  /\ mail \in Seq(Message)
  /\ xtra \in [listening : BOOLEAN, asked : BOOLEAN, lock : {{}}, known : Views(XtraKeeps)]
  /\ daemon \in [up : BOOLEAN, waiting : BOOLEAN, view : Views(XtraKeeps \cup {"known"})]
  /\ history \in History

(* The two maps are each other's inverse, but for the clients that have    *)
(* updated their subscription.                                             *)
MapsAgree ==
  \A c \in Observers \ history.updated, i \in Items :
    c \in itemToClients[i] <=> i \in clientToItems[c]

(* Every item with an entry is subscribed at the framework, unless it was  *)
(* only asked for.                                                         *)
EntriesAreFed ==
  attached => Entries(itemToClients) \ history.onlyRequested \subseteq framework

(* Xtra is subscribed, or its subscription is still in the queue.          *)
InMail(m) == \E k \in DOMAIN mail : mail[k] = m
XtraSubscribes ==
  /\ XtraItems \subseteq clientToItems[Xtra] \/ InMail(Subscribing(XtraItems, Xtra, FALSE))
  /\ "tac" \in clientToItems[Xtra] \/ InMail(Subscribing({"tac"}, Xtra, TRUE))

(* The recorded networks are those connected, and those a first report     *)
(* left recorded.                                                          *)
NetworksAreRecorded ==
  IF "network" \in DOMAIN cache THEN cache["network"] = history.live \cup history.misread
                                ELSE history.live = {} /\ history.misread = {}

(* What Xtra will know of an item when the queue is empty: the last news   *)
(* in it, else what it knows already.                                      *)
Brings(m, i) == m.op = "news" /\ i \in DOMAIN m.values
LastNews(k, i) == Brings(mail[k], i) /\ \A j \in DOMAIN mail : Brings(mail[j], i) => j <= k
WillKnow(i, value) ==
  \/ \E k \in DOMAIN mail : LastNews(k, i) /\ mail[k].values[i] = value
  \/ /\ \A k \in DOMAIN mail : ~Brings(mail[k], i)
     /\ i \in DOMAIN xtra.known /\ xtra.known[i] = value

XtraWillKnow == \A i \in clientToItems[Xtra] \cap DOMAIN cache : WillKnow(i, cache[i])

(* A daemon that has been answered has been told all that Xtra knows.      *)
DaemonKnows ==
  daemon.up /\ "known" \in DOMAIN daemon.view =>
    /\ xtra.asked
    /\ \A i \in DOMAIN xtra.known \ {"throttle"} :
         i \in DOMAIN daemon.view /\ daemon.view[i] = xtra.known[i]

-----------------------------------------------------------------------------
(* Values by item.                                                         *)

LEMMA ViewShape ==
  ASSUME NEW D, NEW f
  PROVE  f \in Views(D) <=> f \in [DOMAIN f -> Value] /\ DOMAIN f \subseteq D
BY DEF Views

LEMMA OverShape ==
  ASSUME NEW f, NEW g
  PROVE  /\ DOMAIN Over(f, g) = DOMAIN f \cup DOMAIN g
         /\ \A i \in DOMAIN f : Over(f, g)[i] = f[i]
         /\ \A i \in DOMAIN g \ DOMAIN f : Over(f, g)[i] = g[i]
BY DEF Over

LEMMA MergeViews ==
  ASSUME NEW D, NEW f \in Views(D), NEW g \in Views(D)
  PROVE  Over(f, g) \in Views(D)
<1>1. f \in [DOMAIN f -> Value] /\ g \in [DOMAIN g -> Value] /\ DOMAIN f \cup DOMAIN g \subseteq D
  BY ViewShape
<1>2. Over(f, g) \in [DOMAIN f \cup DOMAIN g -> Value]
  BY <1>1 DEF Over
<1> QED
  BY <1>1, <1>2 DEF Views

LEMMA RestrictViews ==
  ASSUME NEW D, NEW f \in Views(D), NEW S, S \subseteq DOMAIN f
  PROVE  /\ Restrict(f, S) \in Views(D)
         /\ Restrict(f, S) \in Views(S)
         /\ DOMAIN Restrict(f, S) = S
         /\ \A i \in S : Restrict(f, S)[i] = f[i]
<1>1. Restrict(f, S) = [i \in S |-> f[i]]
  BY DEF Restrict
<1>2. f \in [DOMAIN f -> Value] /\ DOMAIN f \subseteq D
  BY ViewShape
<1>3. Restrict(f, S) \in [S -> Value]
  BY <1>1, <1>2
<1> QED
  BY <1>1, <1>2, <1>3 DEF Views

LEMMA WiderViews ==
  ASSUME NEW D, NEW E, D \subseteq E
  PROVE  Views(D) \subseteq Views(E)
BY DEF Views

-----------------------------------------------------------------------------
(* The queue.                                                              *)

LEMMA HeadType ==
  ASSUME mail \in Seq(Message), mail # <<>>
  PROVE  Head(mail) \in Message /\ Tail(mail) \in Seq(Message) /\ 1 \in DOMAIN mail
         /\ mail[1] = Head(mail)
OBVIOUS

(* Every message but the first stays, one place nearer.                    *)
LEMMA PopKeeps ==
  ASSUME NEW S, NEW q \in Seq(S), NEW rest \in Seq(S), q # <<>>
  PROVE  /\ Tail(q) \o rest \in Seq(S)
         /\ \A k \in DOMAIN q \ {1} : k - 1 \in DOMAIN (Tail(q) \o rest)
                                      /\ (Tail(q) \o rest)[k - 1] = q[k]
         /\ \A k \in DOMAIN (Tail(q) \o rest) :
              \/ k + 1 \in DOMAIN q /\ (Tail(q) \o rest)[k] = q[k + 1]
              \/ /\ k + 1 - Len(q) \in DOMAIN rest
                 /\ (Tail(q) \o rest)[k] = rest[k + 1 - Len(q)]
         /\ \A j \in DOMAIN rest : Len(q) - 1 + j \in DOMAIN (Tail(q) \o rest)
                                   /\ (Tail(q) \o rest)[Len(q) - 1 + j] = rest[j]
<1> DEFINE new == Tail(q) \o rest
<1>1. /\ Tail(q) \in Seq(S) /\ Len(Tail(q)) = Len(q) - 1 /\ Len(q) \in Nat \ {0}
      /\ \A k \in 1..Len(q) - 1 : Tail(q)[k] = q[k + 1]
  OBVIOUS
<1>2. /\ new \in Seq(S) /\ Len(new) = Len(q) - 1 + Len(rest) /\ Len(rest) \in Nat
      /\ \A k \in 1..Len(new) : new[k] = IF k <= Len(q) - 1 THEN Tail(q)[k]
                                         ELSE rest[k - (Len(q) - 1)]
  BY <1>1
<1>3. DOMAIN q = 1..Len(q) /\ DOMAIN rest = 1..Len(rest) /\ DOMAIN new = 1..Len(new)
  BY <1>2
<1> HIDE DEF new
<1>4. \A k \in DOMAIN q \ {1} : k - 1 \in DOMAIN new /\ new[k - 1] = q[k]
  BY <1>1, <1>2, <1>3
<1>5. \A k \in DOMAIN new : \/ k + 1 \in DOMAIN q /\ new[k] = q[k + 1]
                            \/ k + 1 - Len(q) \in DOMAIN rest /\ new[k] = rest[k + 1 - Len(q)]
  BY <1>1, <1>2, <1>3
<1>6. \A j \in DOMAIN rest : Len(q) - 1 + j \in DOMAIN new /\ new[Len(q) - 1 + j] = rest[j]
  BY <1>1, <1>2, <1>3
<1> QED
  BY <1>2, <1>4, <1>5, <1>6 DEF new

LEMMA MailPop ==
  ASSUME mail \in Seq(Message), mail # <<>>, NEW rest \in Seq(Message),
         mail' = Tail(mail) \o rest
  PROVE  /\ \A k \in DOMAIN mail \ {1} : k - 1 \in DOMAIN mail' /\ mail'[k - 1] = mail[k]
         /\ \A k \in DOMAIN mail' : \/ k + 1 \in DOMAIN mail /\ mail'[k] = mail[k + 1]
                                    \/ \E j \in DOMAIN rest : mail'[k] = rest[j]
         /\ DOMAIN mail \subseteq Nat \ {0} /\ DOMAIN mail' \subseteq Nat \ {0}
         /\ 1 \in DOMAIN mail /\ mail[1] = Head(mail)
<1>1. \A k \in DOMAIN mail \ {1} : k - 1 \in DOMAIN mail' /\ mail'[k - 1] = mail[k]
  BY PopKeeps
<1>2. \A k \in DOMAIN mail' : \/ k + 1 \in DOMAIN mail /\ mail'[k] = mail[k + 1]
                             \/ \E j \in DOMAIN rest : mail'[k] = rest[j]
  BY PopKeeps
<1>3. mail' \in Seq(Message)
  BY PopKeeps
<1> QED
  BY <1>1, <1>2, <1>3

LEMMA PopKnows ==
  ASSUME mail \in Seq(Message), mail # <<>>, NEW rest \in Seq(Message),
         mail' = Tail(mail) \o rest, NEW i, NEW v, WillKnow(i, v),
         \A k \in DOMAIN rest : ~Brings(rest[k], i),
         IF Brings(Head(mail), i)
         THEN i \in DOMAIN xtra'.known /\ xtra'.known[i] = Head(mail).values[i]
         ELSE i \in DOMAIN xtra.known =>
                i \in DOMAIN xtra'.known /\ xtra'.known[i] = xtra.known[i]
  PROVE  WillKnow(i, v)'
<1>1. /\ \A k \in DOMAIN mail \ {1} : k - 1 \in DOMAIN mail' /\ mail'[k - 1] = mail[k]
      /\ \A k \in DOMAIN mail' : \/ k + 1 \in DOMAIN mail /\ mail'[k] = mail[k + 1]
                                 \/ ~Brings(mail'[k], i)
  BY MailPop
<1>2. /\ DOMAIN mail \subseteq Nat \ {0} /\ DOMAIN mail' \subseteq Nat \ {0}
      /\ 1 \in DOMAIN mail /\ mail[1] = Head(mail)
  BY MailPop
<1>3. ASSUME NEW k \in DOMAIN mail, LastNews(k, i), mail[k].values[i] = v, k # 1
      PROVE  WillKnow(i, v)'
  <2>1. k - 1 \in DOMAIN mail' /\ mail'[k - 1] = mail[k] /\ Brings(mail[k], i)
    BY <1>1, <1>3 DEF LastNews
  <2>2. ASSUME NEW j \in DOMAIN mail', Brings(mail'[j], i)
        PROVE  j <= k - 1
    <3>1. j + 1 <= k
      BY <1>1, <1>3, <2>2 DEF LastNews
    <3> QED
      BY <1>2, <3>1
  <2> QED
    BY <1>3, <2>1, <2>2 DEF WillKnow, LastNews
<1>4. ASSUME LastNews(1, i), mail[1].values[i] = v
      PROVE  WillKnow(i, v)'
  <2>1. Brings(Head(mail), i) /\ \A j \in DOMAIN mail : Brings(mail[j], i) => j <= 1
    BY <1>2, <1>4 DEF LastNews
  <2>2. \A j \in DOMAIN mail' : ~Brings(mail'[j], i)
    <3> SUFFICES ASSUME NEW j \in DOMAIN mail', Brings(mail'[j], i) PROVE FALSE
      OBVIOUS
    <3>1. j + 1 <= 1
      BY <1>1, <2>1
    <3> QED
      BY <1>2, <3>1
  <2> QED
    BY <1>2, <1>4, <2>1, <2>2 DEF WillKnow
<1>5. ASSUME \A k \in DOMAIN mail : ~Brings(mail[k], i), i \in DOMAIN xtra.known,
             xtra.known[i] = v
      PROVE  WillKnow(i, v)'
  <2>1. \A j \in DOMAIN mail' : ~Brings(mail'[j], i)
    BY <1>1, <1>5
  <2> QED
    BY <1>2, <1>5, <2>1 DEF WillKnow
<1> QED
  BY <1>3, <1>4, <1>5 DEF WillKnow

LEMMA NewsKnows ==
  ASSUME mail \in Seq(Message), mail # <<>>, NEW m \in Message,
         mail' = Tail(mail) \o <<m>>, NEW i, Brings(m, i)
  PROVE  WillKnow(i, m.values[i])'
<1> DEFINE rest == <<m>>
<1>1. rest \in Seq(Message) /\ DOMAIN rest = {1} /\ rest[1] = m /\ mail' = Tail(mail) \o rest
  OBVIOUS
<1> HIDE DEF rest
<1>2. /\ Len(mail) \in DOMAIN mail' /\ mail'[Len(mail)] = m
      /\ \A k \in DOMAIN mail' : k \in Nat /\ (k + 1 \in DOMAIN mail \/ k + 1 - Len(mail) = 1)
  BY <1>1, PopKeeps
<1>3. \A k \in DOMAIN mail' : k <= Len(mail)
  BY <1>2
<1> QED
  BY <1>2, <1>3 DEF WillKnow, LastNews

LEMMA PushKnows ==
  ASSUME mail \in Seq(Message), NEW m \in Message, mail' = Append(mail, m),
         NEW i, NEW v, WillKnow(i, v), ~Brings(m, i), xtra'.known = xtra.known
  PROVE  WillKnow(i, v)'
<1>1. /\ DOMAIN mail' = DOMAIN mail \cup {Len(mail) + 1}
      /\ \A k \in DOMAIN mail : mail'[k] = mail[k]
      /\ mail'[Len(mail) + 1] = m
  OBVIOUS
<1> QED
  BY <1>1 DEF WillKnow, LastNews

(* A message stays in the queue until it is handled.                       *)
LEMMA PopInMail ==
  ASSUME mail \in Seq(Message), mail # <<>>, NEW rest \in Seq(Message),
         mail' = Tail(mail) \o rest, NEW m, InMail(m)
  PROVE  Head(mail) = m \/ InMail(m)'
<1>1. /\ \A k \in DOMAIN mail \ {1} : k - 1 \in DOMAIN mail' /\ mail'[k - 1] = mail[k]
      /\ mail[1] = Head(mail)
  BY PopKeeps
<1> QED
  BY <1>1 DEF InMail

LEMMA PushInMail ==
  ASSUME mail \in Seq(Message), NEW n \in Message, mail' = Append(mail, n),
         NEW m, InMail(m)
  PROVE  InMail(m)'
<1>1. \A k \in DOMAIN mail : k \in DOMAIN mail' /\ mail'[k] = mail[k]
  OBVIOUS
<1> QED
  BY <1>1 DEF InMail

-----------------------------------------------------------------------------
(* The invariant, and the calls: they post a message and change nothing    *)
(* that is recorded.                                                       *)

StatusInv ==
  /\ MapsAgree
  /\ EntriesAreFed
  /\ SubscribersHear
  /\ XtraSubscribes
  /\ NetworksAreRecorded
  /\ XtraWillKnow
  /\ DaemonKnows

SameHistory ==
  /\ history' \in History
  /\ history'.told = history.told
  /\ history'.live = history.live
  /\ history'.misread = history.misread
  /\ history'.updated = history.updated
  /\ history'.onlyRequested = history.onlyRequested

Posted == mail' = mail \/ \E m \in Message : mail' = Append(mail, m) /\ m.op # "news"

XtraType == [listening : BOOLEAN, asked : BOOLEAN, lock : {{}}, known : Views(XtraKeeps)]
DaemonType == [up : BOOLEAN, waiting : BOOLEAN, view : Views(XtraKeeps \cup {"known"})]

(* The daemon is as before, or has just started or died.                   *)
SameDaemon ==
  /\ daemon' \in DaemonType
  /\ \/ daemon'.view = daemon.view /\ daemon'.up = daemon.up
     \/ DOMAIN daemon'.view = {}

CallStep ==
  /\ UNCHANGED <<observerVars, cache, attached, framework>>
  /\ SameHistory
  /\ Posted
  /\ xtra' \in XtraType /\ xtra'.known = xtra.known /\ xtra'.asked = xtra.asked
  /\ SameDaemon

LEMMA CallKeeps ==
  ASSUME StatusTypeOK, StatusInv, CallStep
  PROVE  StatusTypeOK' /\ StatusInv'
<1>1. UNCHANGED <<clientToItems, itemToClients, cache, attached, framework>>
  BY DEF CallStep, observerVars
<1>2. mail' = mail \/ \E m \in Message : mail' = Append(mail, m) /\ m.op # "news"
  BY DEF CallStep, Posted
<1>3. mail \in Seq(Message) /\ mail' \in Seq(Message)
  BY <1>2 DEF StatusTypeOK
<1>4. StatusTypeOK'
  BY <1>1, <1>3 DEF StatusTypeOK, CallStep, SameHistory, XtraType, DaemonType, SameDaemon
<1>5. MapsAgree' /\ EntriesAreFed' /\ SubscribersHear' /\ NetworksAreRecorded'
  BY <1>1 DEF StatusInv, MapsAgree, EntriesAreFed, Entries, SubscribersHear, NetworksAreRecorded,
              CallStep, SameHistory
<1>6. XtraSubscribes'
  <2>1. ASSUME NEW m, InMail(m)
        PROVE  InMail(m)'
    BY <1>2, <1>3, <2>1, PushInMail DEF InMail
  <2> QED
    BY <1>1, <2>1 DEF StatusInv, XtraSubscribes
<1>7. XtraWillKnow'
  <2>1. ASSUME NEW i, NEW v, WillKnow(i, v)
        PROVE  WillKnow(i, v)'
    <3>1. CASE mail' = mail
      BY <2>1, <3>1 DEF WillKnow, LastNews, CallStep
    <3>2. CASE mail' # mail
      <4>1. PICK m \in Message : mail' = Append(mail, m) /\ m.op # "news"
        BY <1>2, <3>2
      <4> QED
        BY <1>3, <2>1, <4>1, PushKnows DEF Brings, CallStep
    <3> QED
      BY <3>1, <3>2
  <2>2. ASSUME NEW i \in clientToItems[Xtra] \cap DOMAIN cache, NEW v, v = cache[i]
        PROVE  WillKnow(i, v)'
    BY <2>1, <2>2 DEF StatusInv, XtraWillKnow
  <2> QED
    BY <1>1, <2>2 DEF XtraWillKnow, WillKnow, LastNews
<1>8. DaemonKnows'
  BY DEF StatusInv, DaemonKnows, CallStep, SameDaemon
<1> QED
  BY <1>4, <1>5, <1>6, <1>7, <1>8 DEF StatusInv

LEMMA CallMessages ==
  /\ \A c \in Others, items \in SUBSET Items, r \in BOOLEAN : Subscribing(items, c, r) \in Message
  /\ \A c \in Others, items \in SUBSET Items :
       /\ [op |-> "update", items |-> items, client |-> c] \in Message
       /\ [op |-> "unsubscribe", items |-> items, client |-> c] \in Message
       /\ [op |-> "unsubscribeAll", client |-> c] \in Message
  /\ \A list \in NewsLists : [op |-> "notify", list |-> list] \in Message
  /\ \A op \in {"attach", "turnOn", "turnOff"} : [op |-> op] \in Message
  /\ \A u \in BOOLEAN : [op |-> "status", updated |-> u] \in Message
  /\ \A v \in Views({"lock", "throttle"}) : [op |-> "lock", values |-> v] \in Message
<1>1. ClientMessage \cup NotifyMessage \cup OtherMessage \subseteq Message
  BY DEF Message
<1>2. /\ \A c \in Others, items \in SUBSET Items, r \in BOOLEAN :
           Subscribing(items, c, r) \in ClientMessage
      /\ \A c \in Others, items \in SUBSET Items :
           /\ [op |-> "update", items |-> items, client |-> c] \in ClientMessage
           /\ [op |-> "unsubscribe", items |-> items, client |-> c] \in ClientMessage
           /\ [op |-> "unsubscribeAll", client |-> c] \in ClientMessage
  BY DEF ClientMessage, Subscribing
<1>3. \A list \in NewsLists : [op |-> "notify", list |-> list] \in NotifyMessage
  BY DEF NotifyMessage
<1>4. /\ \A op \in {"attach", "turnOn", "turnOff"} : [op |-> op] \in OtherMessage
      /\ \A u \in BOOLEAN : [op |-> "status", updated |-> u] \in OtherMessage
      /\ \A v \in Views({"lock", "throttle"}) : [op |-> "lock", values |-> v] \in OtherMessage
  BY DEF OtherMessage
<1> QED
  BY <1>1, <1>2, <1>3, <1>4

LEMMA SameHistoryAsBefore ==
  ASSUME StatusTypeOK
  PROVE  /\ history' = history => SameHistory
         /\ xtra' = xtra => xtra' \in XtraType /\ xtra'.known = xtra.known /\ xtra'.asked = xtra.asked
         /\ daemon' = daemon => SameDaemon
BY DEF StatusTypeOK, SameHistory, XtraType, SameDaemon, DaemonType

LEMMA ClientCalls ==
  ASSUME StatusTypeOK, ObserverCall
  PROVE  CallStep
<1>1. PICK c \in Others, items \in SUBSET OtherItems :
        \/ \E request \in BOOLEAN : Subscribe(c, items, request)
        \/ UpdateSubscription(c, items)
        \/ Unsubscribe(c, items)
        \/ UnsubscribeAll(c)
  BY DEF ObserverCall
<1>2. items \in SUBSET Items
  BY DEF Items
<1>3. UNCHANGED <<observerVars, cache, attached, framework, xtra, daemon>>
  BY <1>1 DEF Subscribe, UpdateSubscription, Unsubscribe, UnsubscribeAll, xtraVars
<1>4. \E w \in SUBSET Items : Wishes(c, w)
  <2>1. history.wish[c] \in SUBSET Items
    BY DEF StatusTypeOK, History
  <2> QED
    BY <1>1, <1>2, <2>1 DEF Subscribe, UpdateSubscription, Unsubscribe, UnsubscribeAll
<1>5. SameHistory
  BY <1>4 DEF Wishes, SameHistory, StatusTypeOK, History
<1>6. Posted
  <2>1. \E m \in Message : Send(m) /\ m.op # "news"
    <3>1. CASE \E request \in BOOLEAN : Subscribe(c, items, request)
      BY <1>2, <3>1, CallMessages DEF Subscribe, Subscribing
    <3>2. CASE UpdateSubscription(c, items)
      BY <1>2, <3>2, CallMessages DEF UpdateSubscription
    <3>3. CASE Unsubscribe(c, items)
      BY <1>2, <3>3, CallMessages DEF Unsubscribe
    <3>4. CASE UnsubscribeAll(c)
      BY <1>2, <3>4, CallMessages DEF UnsubscribeAll
    <3> QED
      BY <1>1, <3>1, <3>2, <3>3, <3>4
  <2> QED
    BY <2>1 DEF Send, Posted
<1> QED
  BY <1>3, <1>5, <1>6, SameHistoryAsBefore DEF CallStep

LEMMA SystemCalls ==
  ASSUME StatusTypeOK, SystemCall
  PROVE  CallStep
<1>1. UNCHANGED <<observerVars, cache, attached, framework, xtra, daemon, history>>
  BY DEF SystemCall, SetSubscriptionObj, NotifyAny, Notify, ModuleCall, SetFrameworkActionReqObj,
         TurnOn, TurnOff, TellLockAny, TellLock, xtraVars
<1>2. Posted
  <2>1. CASE SetSubscriptionObj
    BY <2>1, CallMessages DEF SetSubscriptionObj, Send, Posted
  <2>2. CASE NotifyAny
    <3>1. PICK list \in NewsLists : Notify(list)
      BY <2>2 DEF NotifyAny
    <3>2. [op |-> "notify", list |-> list] \in Message
      BY CallMessages
    <3> QED
      BY <3>1, <3>2 DEF Notify, Send, Posted
  <2>3. CASE ModuleCall
    BY <2>3, CallMessages DEF ModuleCall, SetFrameworkActionReqObj, TurnOn, TurnOff, CountUse, Posted
  <2>4. CASE TellLockAny
    <3>1. PICK i \in {"lock", "throttle"}, v \in Locks : TellLock(i, v)
      BY <2>4 DEF TellLockAny
    <3>2. [j \in {i} |-> {v}] \in Views({"lock", "throttle"})
      <4>1. [j \in {i} |-> {v}] \in [{i} -> Value]
        BY DEF Value
      <4>2. {i} \in SUBSET {"lock", "throttle"}
        OBVIOUS
      <4> QED
        BY <4>1, <4>2 DEF Views
    <3> QED
      BY <3>1, <3>2, CallMessages DEF TellLock, Send, Posted
  <2> QED
    BY <2>1, <2>2, <2>3, <2>4 DEF SystemCall
<1> QED
  BY <1>1, <1>2, SameHistoryAsBefore DEF CallStep

LEMMA EmptyView ==
  ASSUME NEW D
  PROVE  <<>> \in Views(D) /\ DOMAIN <<>> = {}
<1>1. <<>> \in [{} -> Value]
  OBVIOUS
<1> QED
  BY <1>1 DEF Views

LEMMA DaemonSteps ==
  ASSUME StatusTypeOK, DaemonStep
  PROVE  CallStep
<1>1. UNCHANGED <<observerVars, cache, attached, framework, history>>
  BY DEF DaemonStep, StartListening, HalInit, DaemonStarts, DaemonAsksAgain, DaemonDies, xtraVars
<1>2. xtra' \in XtraType /\ xtra'.known = xtra.known /\ xtra'.asked = xtra.asked
  BY DEF DaemonStep, StartListening, HalInit, DaemonStarts, DaemonAsksAgain, DaemonDies, xtraVars,
         StatusTypeOK, XtraType
<1>3. Posted
  <2>1. mail' = mail \/ \E u \in BOOLEAN : mail' = Append(mail, [op |-> "status", updated |-> u])
    BY DEF DaemonStep, StartListening, HalInit, DaemonStarts, DaemonAsksAgain, DaemonDies,
           Requested, Send
  <2> QED
    BY <2>1, CallMessages DEF Posted
<1>4. SameDaemon
  <2>1. CASE DaemonStarts \/ DaemonDies
    <3>1. PICK b \in BOOLEAN : daemon' = [up |-> b, waiting |-> b, view |-> <<>>]
      BY <2>1 DEF DaemonStarts, DaemonDies
    <3> QED
      BY <3>1, EmptyView DEF SameDaemon, DaemonType
  <2>2. CASE StartListening \/ HalInit \/ DaemonAsksAgain
    BY <2>2 DEF StartListening, HalInit, DaemonAsksAgain, xtraVars, StatusTypeOK, SameDaemon,
                DaemonType
  <2> QED
    BY <2>1, <2>2 DEF DaemonStep
<1> QED
  BY <1>1, <1>2, <1>3, <1>4, SameHistoryAsBefore DEF CallStep

-----------------------------------------------------------------------------
(* The handlers.                                                           *)

LEMMA XtraShape ==
  ASSUME NEW m \in XtraMessage
  PROVE  /\ m.op = "subscribe" /\ m.client = Xtra /\ m.request \in BOOLEAN
         /\ m.items \in {XtraItems, {"tac"}}
<1>1. CASE m = Subscribing(XtraItems, Xtra, FALSE)
  BY <1>1 DEF Subscribing
<1>2. CASE m = Subscribing({"tac"}, Xtra, TRUE)
  BY <1>2 DEF Subscribing
<1> QED
  BY <1>1, <1>2 DEF XtraMessage

LEMMA HeadKinds ==
  ASSUME StatusTypeOK, mail # <<>>
  PROVE  LET m == Head(mail) IN
         /\ m \in Message /\ m.op \in {"subscribe", "update", "unsubscribe", "unsubscribeAll",
                "notify", "news", "lock", "attach", "turnOn", "turnOff", "status"}
         /\ m.op = "subscribe" =>
              /\ m.items \in SUBSET Items /\ m.client \in Observers /\ m.request \in BOOLEAN
              /\ m \in XtraMessage \/ m.client \in Others
         /\ m.op \in {"update", "unsubscribe"} => m.items \in SUBSET Items /\ m.client \in Others
         /\ m.op = "unsubscribeAll" => m.client \in Others
         /\ m.op = "notify" => m.list \in NewsLists
         /\ m.op = "news" => m.values \in Views(XtraHears)
         /\ m.op = "lock" => m.values \in Views({"lock", "throttle"})
         /\ m.op = "status" => m.updated \in BOOLEAN
<1> DEFINE m == Head(mail)
<1>1. m \in Message
  BY HeadType DEF StatusTypeOK
<1>2. CASE m \in XtraMessage
  <2>1. m.op = "subscribe" /\ m.client = Xtra /\ m.items \in {XtraItems, {"tac"}}
        /\ m.request \in BOOLEAN
    BY <1>2, XtraShape
  <2>2. m.items \in SUBSET Items
    BY <2>1 DEF Items
  <2> QED
    BY <1>1, <1>2, <2>1, <2>2 DEF Observers
<1>3. CASE m \in ClientMessage
  BY <1>1, <1>3 DEF ClientMessage, Observers
<1>4. CASE m \in NotifyMessage
  <2>1. m.op = "notify" /\ m.list \in NewsLists
    BY <1>4 DEF NotifyMessage
  <2> QED
    BY <1>1, <2>1
<1>5. CASE m \in OtherMessage
  BY <1>1, <1>5 DEF OtherMessage
<1> QED
  BY <1>1, <1>2, <1>3, <1>4, <1>5 DEF Message

(* Messages that have nothing to do with what Xtra hears.                  *)
QuietPop ==
  /\ mail # <<>>
  /\ Head(mail).op \notin {"subscribe", "news"}
  /\ \/ mail' = Tail(mail)
     \/ \E op \in {"attach", "turnOn", "turnOff"} : mail' = Append(Tail(mail), [op |-> op])

LEMMA QuietShape ==
  ASSUME StatusTypeOK, QuietPop
  PROVE  \E rest \in Seq(Message) : /\ mail' = Tail(mail) \o rest
                                    /\ \A k \in DOMAIN rest : rest[k].op # "news"
<1>1. mail \in Seq(Message) /\ Tail(mail) \in Seq(Message)
  BY DEF StatusTypeOK, QuietPop
<1>2. CASE mail' = Tail(mail)
  <2>1. <<>> \in Seq(Message) /\ Tail(mail) = Tail(mail) \o <<>> /\ DOMAIN <<>> = {}
    BY <1>1
  <2> QED
    BY <1>2, <2>1
<1>3. CASE mail' # Tail(mail)
  <2>1. PICK op \in {"attach", "turnOn", "turnOff"} : mail' = Append(Tail(mail), [op |-> op])
    BY <1>3 DEF QuietPop
  <2>2. [op |-> op] \in Message
    BY CallMessages
  <2> DEFINE m == [op |-> op]
  <2>3. m \in Message /\ m.op # "news" /\ mail' = Append(Tail(mail), m)
    BY <2>1, <2>2
  <2> HIDE DEF m
  <2>4. /\ mail' = Tail(mail) \o <<m>> /\ <<m>> \in Seq(Message)
        /\ DOMAIN <<m>> = {1} /\ <<m>>[1] = m
    BY <1>1, <2>3
  <2> QED
    BY <2>3, <2>4
<1> QED
  BY <1>2, <1>3

LEMMA QuietKeeps ==
  ASSUME StatusTypeOK, StatusInv, QuietPop,
         cache' = cache, clientToItems'[Xtra] = clientToItems[Xtra],
         \A i \in XtraHears \cap DOMAIN xtra.known :
           i \in DOMAIN xtra'.known /\ xtra'.known[i] = xtra.known[i]
  PROVE  /\ mail' \in Seq(Message)
         /\ XtraSubscribes'
         /\ XtraWillKnow'
<1>1. PICK rest \in Seq(Message) : /\ mail' = Tail(mail) \o rest
                                   /\ \A k \in DOMAIN rest : rest[k].op # "news"
  BY QuietShape
<1>2. mail \in Seq(Message) /\ mail # <<>>
  BY DEF StatusTypeOK, QuietPop
<1>3. mail' \in Seq(Message)
  BY <1>1, <1>2, PopKeeps
<1>4. XtraSubscribes'
  <2>1. ASSUME NEW m \in XtraMessage, InMail(m)
        PROVE  InMail(m)'
    <3>1. Head(mail) # m
      BY DEF QuietPop, XtraMessage, Subscribing
    <3> QED
      BY <1>1, <1>2, <2>1, <3>1, PopInMail
  <2> QED
    BY <2>1 DEF StatusInv, XtraSubscribes, XtraMessage
<1>5. ASSUME NEW i \in clientToItems[Xtra] \cap DOMAIN cache, NEW v, v = cache[i]
      PROVE  WillKnow(i, v)'
  <2>1. WillKnow(i, v) /\ i \in XtraHears
    BY <1>5 DEF StatusInv, XtraWillKnow, StatusTypeOK
  <2>2. ~Brings(Head(mail), i) /\ \A k \in DOMAIN rest : ~Brings(rest[k], i)
    BY <1>1 DEF QuietPop, Brings
  <2> QED
    BY <1>1, <1>2, <2>1, <2>2, PopKnows
<1>6. XtraWillKnow'
  BY <1>5 DEF XtraWillKnow, WillKnow, LastNews
<1> QED
  BY <1>3, <1>4, <1>6

LEMMA TypeParts ==
  StatusTypeOK => /\ xtra \in XtraType /\ daemon \in DaemonType /\ history \in History
                  /\ mail \in Seq(Message) /\ cache \in Views(Items) /\ attached \in BOOLEAN
BY DEF StatusTypeOK, XtraType, DaemonType

LEMMA AttachKeeps ==
  ASSUME StatusTypeOK, StatusInv, Attach \/ HandleTurnOn \/ HandleTurnOff
  PROVE  StatusTypeOK' /\ StatusInv'
<1>1. UNCHANGED <<clientToItems, itemToClients, cache, xtra, daemon, history>>
  BY DEF Attach, HandleTurnOn, HandleTurnOff, observerVars, xtraVars
<1>2. QuietPop
  BY DEF Attach, HandleTurnOn, HandleTurnOff, CountUse, Handles, QuietPop
<1>3. mail' \in Seq(Message) /\ XtraSubscribes' /\ XtraWillKnow'
  BY <1>1, <1>2, QuietKeeps
<1>4. attached' \in BOOLEAN /\ EntriesAreFed'
  <2>1. CASE Attach
    BY <2>1 DEF Attach, observerVars, EntriesAreFed, Entries
  <2>2. CASE HandleTurnOn \/ HandleTurnOff
    BY <1>1, <2>2 DEF HandleTurnOn, HandleTurnOff, StatusTypeOK, StatusInv, EntriesAreFed, Entries
  <2> QED
    BY <2>1, <2>2
<1>5. StatusTypeOK'
  BY <1>1, <1>3, <1>4 DEF StatusTypeOK
<1> QED
  BY <1>1, <1>3, <1>4, <1>5 DEF StatusInv, MapsAgree, SubscribersHear, NetworksAreRecorded,
                                DaemonKnows

LEMMA UnsubscribeKeeps ==
  ASSUME StatusTypeOK, StatusInv, NEW c \in Others, NEW items \in SUBSET Items,
         mail # <<>>, Head(mail).op \in {"unsubscribe", "unsubscribeAll"},
         clientToItems' = TrimOrRemove(clientToItems, {c}, items),
         NEW left, left = clientToItems[c] \cap items,
         Leave(c, left),
         mail' = Tail(mail), UNCHANGED <<cache, attached, xtra, daemon>>
  PROVE  StatusTypeOK' /\ StatusInv'
<1>1. c # Xtra /\ c \in Observers /\ Xtra \in Observers
  BY OthersAssumption DEF Observers
<1>2. /\ clientToItems' = [k \in Observers |-> IF k = c THEN clientToItems[k] \ items
                                               ELSE clientToItems[k]]
      /\ itemToClients' = [i \in Items |-> IF i \in left THEN itemToClients[i] \ {c}
                                           ELSE itemToClients[i]]
  BY DEF TrimOrRemove, Leave, StatusTypeOK
<1>3. /\ clientToItems' \in [Observers -> SUBSET Items]
      /\ itemToClients' \in [Items -> SUBSET Observers]
      /\ clientToItems'[Xtra] = clientToItems[Xtra]
  BY <1>1, <1>2 DEF StatusTypeOK
<1>4. QuietPop
  BY DEF QuietPop
<1>5. mail' \in Seq(Message) /\ XtraSubscribes' /\ XtraWillKnow'
  BY <1>3, <1>4, QuietKeeps
<1>6. /\ history.told[c] \in Views(Items) /\ history.told \in [Others -> Views(Items)]
      /\ history \in History
  BY DEF StatusTypeOK, History
<1> DEFINE told == Restrict(history.told[c], DOMAIN history.told[c] \ left)
<1>7. /\ told \in Views(Items)
      /\ DOMAIN told = DOMAIN history.told[c] \ left
      /\ \A i \in DOMAIN told : told[i] = history.told[c][i]
  BY <1>6, RestrictViews
<1>8. history' = [history EXCEPT !.told[c] = told]
  BY DEF Leave
<1> HIDE DEF told
<1>9. /\ history' \in History
      /\ history'.live = history.live /\ history'.misread = history.misread
      /\ history'.updated = history.updated /\ history'.onlyRequested = history.onlyRequested
      /\ \A d \in Others : history'.told[d] = IF d = c THEN told ELSE history.told[d]
  BY <1>6, <1>7, <1>8 DEF History
<1>10. StatusTypeOK'
  BY <1>3, <1>5, <1>9 DEF StatusTypeOK
<1>11. MapsAgree'
  BY <1>2, <1>9 DEF StatusInv, MapsAgree
<1>12. EntriesAreFed'
  <2>1. PICK gone \in Reported(GoneKeys(itemToClients, left, {c})) :
          framework' = IF attached THEN framework \ gone ELSE framework
    BY DEF Leave
  <2>2. \A i \in gone : i \notin Entries(itemToClients')
    BY <1>2, <2>1 DEF Reported, GoneKeys, Entries, StatusTypeOK
  <2>3. Entries(itemToClients') \subseteq Entries(itemToClients)
    BY <1>2 DEF Entries, StatusTypeOK
  <2> QED
    BY <1>9, <2>1, <2>2, <2>3 DEF StatusInv, EntriesAreFed
<1>13. SubscribersHear'
  <2> SUFFICES ASSUME NEW d \in Others \ history.updated,
                      NEW i \in clientToItems'[d] \cap DOMAIN cache
               PROVE  i \in DOMAIN history'.told[d] /\ history'.told[d][i] = cache[i]
    BY <1>9 DEF SubscribersHear
  <2>1. i \in clientToItems[d] /\ (d = c => i \notin left)
    BY <1>2 DEF Observers
  <2>2. i \in DOMAIN history.told[d] /\ history.told[d][i] = cache[i]
    BY <2>1 DEF StatusInv, SubscribersHear
  <2> QED
    BY <1>7, <1>9, <2>1, <2>2
<1> QED
  BY <1>5, <1>9, <1>10, <1>11, <1>12, <1>13 DEF StatusInv, NetworksAreRecorded, DaemonKnows

LEMMA UnsubscribesKeep ==
  ASSUME StatusTypeOK, StatusInv, HandleUnsubscribe \/ HandleUnsubscribeAll
  PROVE  StatusTypeOK' /\ StatusInv'
<1> DEFINE m == Head(mail)
           c == m.client
<1>1. UNCHANGED <<cache, attached, xtra, daemon>> /\ mail' = Tail(mail) /\ mail # <<>>
  BY DEF HandleUnsubscribe, HandleUnsubscribeAll, Handles, xtraVars
<1>2. CASE HandleUnsubscribe
  <2>1. m.op = "unsubscribe" /\ m.items \in SUBSET Items /\ c \in Others
    BY <1>1, <1>2, HeadKinds DEF HandleUnsubscribe, Handles
  <2>2. /\ clientToItems' = TrimOrRemove(clientToItems, {c}, m.items)
        /\ Leave(c, GoneVals(clientToItems, {c}, m.items))
    BY <1>2 DEF HandleUnsubscribe
  <2>3. GoneVals(clientToItems, {c}, m.items) = clientToItems[c] \cap m.items
    BY DEF GoneVals
  <2> QED
    BY <1>1, <2>1, <2>2, <2>3, UnsubscribeKeeps
<1>3. CASE HandleUnsubscribeAll
  <2>1. m.op = "unsubscribeAll" /\ c \in Others
    BY <1>1, <1>3, HeadKinds DEF HandleUnsubscribeAll, Handles
  <2>2. /\ clientToItems' = TrimOrRemove(clientToItems, {c}, Items)
        /\ Leave(c, clientToItems[c])
    BY <1>3 DEF HandleUnsubscribeAll
  <2>3. clientToItems[c] = clientToItems[c] \cap Items
    BY <2>1 DEF StatusTypeOK, Observers
  <2> QED
    BY <1>1, <2>1, <2>2, <2>3, UnsubscribeKeeps
<1> QED
  BY <1>2, <1>3

-----------------------------------------------------------------------------
(* What Xtra keeps and the daemon is told.                                 *)

LEMMA SendType ==
  ASSUME StatusTypeOK, NEW view \in Views(XtraKeeps \cup {"known"})
  PROVE  /\ SendXtra(view) \in DaemonType
         /\ SendXtra(view).up = daemon.up
         /\ ~daemon.up => SendXtra(view) = daemon
         /\ daemon.up =>
              /\ DOMAIN SendXtra(view).view = DOMAIN view \cup DOMAIN daemon.view
              /\ \A i \in DOMAIN view : SendXtra(view).view[i] = view[i]
              /\ \A i \in DOMAIN daemon.view \ DOMAIN view : SendXtra(view).view[i] = daemon.view[i]
<1>1. daemon \in DaemonType /\ daemon.view \in Views(XtraKeeps \cup {"known"})
  BY DEF StatusTypeOK, DaemonType
<1>2. CASE daemon.up
  <2> DEFINE new == Over(view, daemon.view)
  <2>1. /\ new \in Views(XtraKeeps \cup {"known"})
        /\ DOMAIN new = DOMAIN view \cup DOMAIN daemon.view
        /\ \A i \in DOMAIN view : new[i] = view[i]
        /\ \A i \in DOMAIN daemon.view \ DOMAIN view : new[i] = daemon.view[i]
    BY <1>1, MergeViews, OverShape
  <2>2. SendXtra(view) = [daemon EXCEPT !.view = new]
    BY <1>2 DEF SendXtra
  <2> HIDE DEF new
  <2> QED
    BY <1>1, <1>2, <2>1, <2>2 DEF DaemonType
<1>3. CASE ~daemon.up
  BY <1>1, <1>3 DEF SendXtra
<1> QED
  BY <1>2, <1>3

LEMMA KeepKeeps ==
  ASSUME StatusTypeOK, DaemonKnows, NEW values \in Views(XtraKeeps), Keep(values)
  PROVE  /\ xtra' \in XtraType /\ daemon' \in DaemonType
         /\ DaemonKnows'
         /\ \A i \in DOMAIN values : i \in DOMAIN xtra'.known /\ xtra'.known[i] = values[i]
         /\ \A i \in DOMAIN xtra.known \ DOMAIN values :
              i \in DOMAIN xtra'.known /\ xtra'.known[i] = xtra.known[i]
<1>1. xtra \in XtraType /\ xtra.known \in Views(XtraKeeps)
  BY DEF StatusTypeOK, XtraType
<1> DEFINE new == Over(values, xtra.known)
<1>2. /\ new \in Views(XtraKeeps)
      /\ DOMAIN new = DOMAIN values \cup DOMAIN xtra.known
      /\ \A i \in DOMAIN values : new[i] = values[i]
      /\ \A i \in DOMAIN xtra.known \ DOMAIN values : new[i] = xtra.known[i]
  BY <1>1, MergeViews, OverShape
<1>3. xtra' = [xtra EXCEPT !.known = new]
  BY DEF Keep
<1> HIDE DEF new
<1>4. xtra' \in XtraType /\ xtra'.known = new /\ xtra'.asked = xtra.asked
  BY <1>1, <1>2, <1>3 DEF XtraType
<1>5. values \in Views(XtraKeeps \cup {"known"}) /\ DOMAIN values \subseteq XtraKeeps
  BY WiderViews, ViewShape
<1>6. daemon' = IF xtra.asked THEN SendXtra(values) ELSE daemon
  BY DEF Keep
<1>7. daemon' \in DaemonType
  BY <1>5, <1>6, SendType, TypeParts
<1>8. DaemonKnows'
  <2> SUFFICES ASSUME daemon'.up, "known" \in DOMAIN daemon'.view
               PROVE  /\ xtra'.asked
                      /\ \A i \in DOMAIN xtra'.known \ {"throttle"} :
                           i \in DOMAIN daemon'.view /\ daemon'.view[i] = xtra'.known[i]
    BY DEF DaemonKnows
  <2>1. daemon.up /\ (xtra.asked => daemon' = SendXtra(values))
    BY <1>5, <1>6, SendType
  <2>2. "known" \notin DOMAIN values
    BY <1>5 DEF XtraKeeps, XtraHears, XtraItems
  <2>3. "known" \in DOMAIN daemon.view
    BY <1>5, <1>6, <2>1, <2>2, SendType
  <2>4. xtra.asked /\ \A i \in DOMAIN xtra.known \ {"throttle"} :
           i \in DOMAIN daemon.view /\ daemon.view[i] = xtra.known[i]
    BY <2>1, <2>3 DEF DaemonKnows
  <2>5. /\ daemon' = SendXtra(values)
        /\ DOMAIN daemon'.view = DOMAIN values \cup DOMAIN daemon.view
        /\ \A i \in DOMAIN values : daemon'.view[i] = values[i]
        /\ \A i \in DOMAIN daemon.view \ DOMAIN values : daemon'.view[i] = daemon.view[i]
    BY <1>5, <2>1, <2>4, SendType
  <2> QED
    BY <1>2, <1>4, <2>4, <2>5
<1> QED
  BY <1>2, <1>4, <1>7, <1>8

LEMMA HandleNewsKeeps ==
  ASSUME StatusTypeOK, StatusInv, HandleNews
  PROVE  StatusTypeOK' /\ StatusInv'
<1> DEFINE values == Head(mail).values
<1>1. /\ UNCHANGED <<clientToItems, itemToClients, cache, attached, framework, history>>
      /\ mail # <<>> /\ Head(mail).op = "news" /\ mail' = Tail(mail) /\ Keep(values)
  BY DEF HandleNews, Handles, observerVars
<1>2. values \in Views(XtraHears) /\ values \in Views(XtraKeeps)
  <2>1. values \in Views(XtraHears)
    BY <1>1, HeadKinds
  <2> QED
    BY <2>1, WiderViews DEF XtraKeeps
<1>3. /\ xtra' \in XtraType /\ daemon' \in DaemonType /\ DaemonKnows'
      /\ \A i \in DOMAIN values : i \in DOMAIN xtra'.known /\ xtra'.known[i] = values[i]
      /\ \A i \in DOMAIN xtra.known \ DOMAIN values :
           i \in DOMAIN xtra'.known /\ xtra'.known[i] = xtra.known[i]
  BY <1>1, <1>2, KeepKeeps DEF StatusInv
<1> DEFINE rest == <<>>
<1>4. rest \in Seq(Message) /\ DOMAIN rest = {} /\ mail' = Tail(mail) \o rest /\ mail' \in Seq(Message)
      /\ mail \in Seq(Message)
  BY <1>1 DEF StatusTypeOK
<1> HIDE DEF rest
<1>5. StatusTypeOK'
  BY <1>1, <1>3, <1>4 DEF StatusTypeOK, XtraType, DaemonType
<1>6. XtraSubscribes'
  <2>1. ASSUME NEW m \in XtraMessage, InMail(m)
        PROVE  InMail(m)'
    <3>1. Head(mail) # m
      BY <1>1, XtraShape
    <3> QED
      BY <1>1, <1>4, <2>1, <3>1, PopInMail
  <2> QED
    BY <1>1, <2>1 DEF StatusInv, XtraSubscribes, XtraMessage
<1>7. ASSUME NEW i \in clientToItems[Xtra] \cap DOMAIN cache, NEW v, v = cache[i]
      PROVE  WillKnow(i, v)'
  <2>1. WillKnow(i, v)
    BY <1>7 DEF StatusInv, XtraWillKnow
  <2>2. IF Brings(Head(mail), i)
        THEN i \in DOMAIN xtra'.known /\ xtra'.known[i] = Head(mail).values[i]
        ELSE i \in DOMAIN xtra.known =>
               i \in DOMAIN xtra'.known /\ xtra'.known[i] = xtra.known[i]
    BY <1>1, <1>3 DEF Brings
  <2> QED
    BY <1>1, <1>4, <2>1, <2>2, PopKnows
<1>8. XtraWillKnow'
  BY <1>1, <1>7 DEF XtraWillKnow, WillKnow, LastNews
<1> QED
  BY <1>1, <1>3, <1>5, <1>6, <1>8
     DEF StatusInv, MapsAgree, EntriesAreFed, Entries, SubscribersHear, NetworksAreRecorded

LEMMA HandleLockKeeps ==
  ASSUME StatusTypeOK, StatusInv, HandleLock
  PROVE  StatusTypeOK' /\ StatusInv'
<1> DEFINE values == Head(mail).values
<1>1. /\ UNCHANGED <<clientToItems, itemToClients, cache, attached, framework, history>>
      /\ mail # <<>> /\ Head(mail).op = "lock" /\ mail' = Tail(mail) /\ Keep(values)
  BY DEF HandleLock, Handles, observerVars
<1>2. values \in Views({"lock", "throttle"}) /\ values \in Views(XtraKeeps)
  <2>1. values \in Views({"lock", "throttle"})
    BY <1>1, HeadKinds
  <2> QED
    BY <2>1, WiderViews DEF XtraKeeps
<1>3. /\ xtra' \in XtraType /\ daemon' \in DaemonType /\ DaemonKnows'
      /\ \A i \in DOMAIN xtra.known \ DOMAIN values :
           i \in DOMAIN xtra'.known /\ xtra'.known[i] = xtra.known[i]
  BY <1>1, <1>2, KeepKeeps DEF StatusInv
<1>4. DOMAIN values \cap XtraHears = {}
  BY <1>2, ViewShape DEF XtraHears, XtraItems
<1>5. mail' \in Seq(Message) /\ XtraSubscribes' /\ XtraWillKnow'
  BY <1>1, <1>3, <1>4, QuietKeeps DEF QuietPop
<1>6. StatusTypeOK'
  BY <1>1, <1>3, <1>5 DEF StatusTypeOK, XtraType, DaemonType
<1> QED
  BY <1>1, <1>3, <1>5, <1>6
     DEF StatusInv, MapsAgree, EntriesAreFed, Entries, SubscribersHear, NetworksAreRecorded

LEMMA StatusShape ==
  ASSUME StatusTypeOK
  PROVE  /\ Status \in Views(XtraKeeps \cup {"known"})
         /\ \A i \in DOMAIN xtra.known \ {"throttle"} :
              i \in DOMAIN Status /\ Status[i] = xtra.known[i]
<1> DEFINE D == {"lock", "network", "tac", "mccmnc", "known"}
<1>1. xtra.known \in [DOMAIN xtra.known -> Value] /\ DOMAIN xtra.known \subseteq XtraKeeps
  BY ViewShape DEF StatusTypeOK
<1>2. Status = [i \in D |-> IF i = "known" THEN {"network" \in DOMAIN xtra.known}
                            ELSE IF i \in DOMAIN xtra.known THEN xtra.known[i] ELSE {}]
  BY DEF Status
<1>3. \A b \in BOOLEAN : {b} \in Value
  BY DEF Value
<1>4. {} \in Value
  BY DEF Value
<1>5. {"network" \in DOMAIN xtra.known} \in Value
  <2>1. ("network" \in DOMAIN xtra.known) \in BOOLEAN
    OBVIOUS
  <2> QED
    BY <1>3, <2>1, Zenon
<1>6. Status \in [D -> Value]
  BY <1>1, <1>2, <1>4, <1>5
<1>7. D \subseteq XtraKeeps \cup {"known"}
  BY DEF XtraKeeps, XtraHears, XtraItems
<1>8. Status \in Views(XtraKeeps \cup {"known"})
  BY <1>6, <1>7 DEF Views
<1>9. \A i \in DOMAIN xtra.known \ {"throttle"} : i \in D /\ i # "known"
  BY <1>1 DEF XtraKeeps, XtraHears, XtraItems
<1> QED
  BY <1>2, <1>8, <1>9

LEMMA StatusRequestedKeeps ==
  ASSUME StatusTypeOK, StatusInv, OnStatusRequested
  PROVE  StatusTypeOK' /\ StatusInv'
<1>1. /\ UNCHANGED <<clientToItems, itemToClients, cache, attached, framework, history>>
      /\ mail # <<>> /\ Head(mail).op = "status" /\ mail' = Tail(mail)
      /\ xtra' = [xtra EXCEPT !.asked = TRUE]
      /\ daemon' = IF Head(mail).updated THEN daemon ELSE SendXtra(Status)
  BY DEF OnStatusRequested, Handles, observerVars
<1>2. xtra' \in XtraType /\ xtra'.known = xtra.known /\ xtra'.asked
  BY <1>1, TypeParts DEF XtraType
<1>3. daemon' \in DaemonType
  BY <1>1, SendType, StatusShape, TypeParts
<1>4. mail' \in Seq(Message) /\ XtraSubscribes' /\ XtraWillKnow'
  BY <1>1, <1>2, QuietKeeps DEF QuietPop
<1>5. StatusTypeOK'
  BY <1>1, <1>2, <1>3, <1>4 DEF StatusTypeOK, XtraType, DaemonType
<1>6. DaemonKnows'
  <2>1. CASE Head(mail).updated
    BY <1>1, <1>2, <2>1 DEF StatusInv, DaemonKnows
  <2>2. CASE ~Head(mail).updated
    <3>1. daemon' = SendXtra(Status)
      BY <1>1, <2>2
    <3>2. daemon'.up => daemon.up /\ \A i \in DOMAIN Status : /\ i \in DOMAIN daemon'.view
                                                           /\ daemon'.view[i] = Status[i]
      BY <3>1, SendType, StatusShape
    <3> QED
      BY <1>2, <3>2, StatusShape DEF DaemonKnows
  <2> QED
    BY <2>1, <2>2
<1> QED
  BY <1>1, <1>4, <1>5, <1>6
     DEF StatusInv, MapsAgree, EntriesAreFed, Entries, SubscribersHear, NetworksAreRecorded

-----------------------------------------------------------------------------
(* Telling the clients.                                                    *)

LEMMA CachedShape ==
  ASSUME cache' \in Views(Items), NEW items
  PROVE  /\ Cached(items) \in Views(Items)
         /\ Cached(items) \in Views(items \cap DOMAIN cache')
         /\ DOMAIN Cached(items) = items \cap DOMAIN cache'
         /\ \A i \in items \cap DOMAIN cache' : Cached(items)[i] = cache'[i]
<1> DEFINE S == items \cap DOMAIN cache'
<1>1. S \subseteq DOMAIN cache' /\ Cached(items) = Restrict(cache', S)
  BY DEF Cached
<1> QED
  BY <1>1, RestrictViews

LEMMA HeardShape ==
  ASSUME cache' \in Views(Items), history \in History, NEW notices
  PROVE  /\ HeardBy(notices) \in [Others -> Views(Items)]
         /\ \A c \in Others \ DOMAIN notices : HeardBy(notices)[c] = history.told[c]
         /\ \A c \in Others \cap DOMAIN notices :
              /\ DOMAIN HeardBy(notices)[c]
                   = (notices[c] \cap DOMAIN cache') \cup DOMAIN history.told[c]
              /\ \A i \in notices[c] \cap DOMAIN cache' : HeardBy(notices)[c][i] = cache'[i]
              /\ \A i \in DOMAIN history.told[c] \ notices[c] :
                   HeardBy(notices)[c][i] = history.told[c][i]
<1>1. \A c \in Others : history.told[c] \in Views(Items)
  BY DEF History
<1>2. \A c \in Others : Over(Cached(notices[c]), history.told[c]) \in Views(Items)
  BY <1>1, CachedShape, MergeViews
<1>3. HeardBy(notices) \in [Others -> Views(Items)]
  BY <1>1, <1>2 DEF HeardBy
<1>4. \A c \in Others \ DOMAIN notices : HeardBy(notices)[c] = history.told[c]
  BY DEF HeardBy
<1>5. ASSUME NEW c \in Others \cap DOMAIN notices
      PROVE  /\ DOMAIN HeardBy(notices)[c]
                  = (notices[c] \cap DOMAIN cache') \cup DOMAIN history.told[c]
             /\ \A i \in notices[c] \cap DOMAIN cache' : HeardBy(notices)[c][i] = cache'[i]
             /\ \A i \in DOMAIN history.told[c] \ notices[c] :
                  HeardBy(notices)[c][i] = history.told[c][i]
  <2>1. HeardBy(notices)[c] = Over(Cached(notices[c]), history.told[c])
    BY DEF HeardBy
  <2>2. /\ DOMAIN Cached(notices[c]) = notices[c] \cap DOMAIN cache'
        /\ \A i \in notices[c] \cap DOMAIN cache' : Cached(notices[c])[i] = cache'[i]
    BY CachedShape
  <2> DEFINE f == Cached(notices[c])
             g == history.told[c]
  <2>3. /\ DOMAIN Over(f, g) = DOMAIN f \cup DOMAIN g
        /\ \A i \in DOMAIN f : Over(f, g)[i] = f[i]
        /\ \A i \in DOMAIN g \ DOMAIN f : Over(f, g)[i] = g[i]
    BY OverShape
  <2> QED
    BY <2>1, <2>2, <2>3
<1> QED
  BY <1>3, <1>4, <1>5

LEMMA TellShape ==
  ASSUME mail \in Seq(Message), mail # <<>>, cache' \in Views(Items), NEW notices,
         Tell(notices), Xtra \in DOMAIN notices => notices[Xtra] \subseteq XtraHears
  PROVE  \/ /\ mail' = Tail(mail) \o <<>>
            /\ Xtra \in DOMAIN notices => notices[Xtra] \cap DOMAIN cache' = {}
         \/ /\ Xtra \in DOMAIN notices
            /\ \E m \in Message : /\ mail' = Tail(mail) \o <<m>>
                                  /\ m.op = "news"
                                  /\ DOMAIN m.values = notices[Xtra] \cap DOMAIN cache'
                                  /\ \A i \in DOMAIN m.values : m.values[i] = cache'[i]
<1> DEFINE values == Cached(notices[Xtra])
           m == [op |-> "news", values |-> values]
<1>1. /\ values \in Views(notices[Xtra] \cap DOMAIN cache')
      /\ DOMAIN values = notices[Xtra] \cap DOMAIN cache'
      /\ \A i \in notices[Xtra] \cap DOMAIN cache' : values[i] = cache'[i]
  BY CachedShape
<1>2. CASE Xtra \in DOMAIN notices /\ values # <<>>
  <2>1. notices[Xtra] \cap DOMAIN cache' \subseteq XtraHears
    BY <1>2
  <2>2. values \in Views(XtraHears)
    BY <1>1, <2>1, WiderViews
  <2>3. mail' = Tail(mail) \o <<m>>
    BY <1>2 DEF Tell
  <2> HIDE DEF values
  <2>4. m \in Message
    BY <2>2 DEF Message, OtherMessage
  <2> QED
    BY <1>1, <1>2, <2>3, <2>4
<1>3. CASE ~(Xtra \in DOMAIN notices /\ values # <<>>)
  <2>1. mail' = Tail(mail) \o <<>>
    BY <1>3 DEF Tell
  <2>2. values = <<>> => DOMAIN values = {}
    BY EmptyView
  <2> QED
    BY <1>1, <1>3, <2>1, <2>2
<1> QED
  BY <1>2, <1>3

LEMMA TellKnows ==
  ASSUME mail \in Seq(Message), mail # <<>>, Head(mail).op # "news", cache' \in Views(Items),
         xtra' = xtra, NEW notices, Tell(notices),
         Xtra \in DOMAIN notices => notices[Xtra] \subseteq XtraHears
  PROVE  /\ mail' \in Seq(Message)
         /\ \A m : InMail(m) => Head(mail) = m \/ InMail(m)'
         /\ \A i, v : /\ WillKnow(i, v)
                      /\ Xtra \in DOMAIN notices => i \notin notices[Xtra] \cap DOMAIN cache'
                      => WillKnow(i, v)'
         /\ Xtra \in DOMAIN notices =>
              \A i \in notices[Xtra] \cap DOMAIN cache' : \A v : v = cache'[i] => WillKnow(i, v)'
<1>1. CASE /\ mail' = Tail(mail) \o <<>>
           /\ Xtra \in DOMAIN notices => notices[Xtra] \cap DOMAIN cache' = {}
  <2> DEFINE rest == <<>>
  <2>1. rest \in Seq(Message) /\ DOMAIN rest = {} /\ mail' = Tail(mail) \o rest
    BY <1>1
  <2> HIDE DEF rest
  <2>2. mail' \in Seq(Message)
    BY <2>1, PopKeeps
  <2>3. \A m : InMail(m) => Head(mail) = m \/ InMail(m)'
    BY <2>1, PopInMail
  <2>4. ASSUME NEW i, NEW v, WillKnow(i, v)
        PROVE  WillKnow(i, v)'
    <3>1. ~Brings(Head(mail), i)
      BY DEF Brings
    <3> QED
      BY <2>1, <2>4, <3>1, PopKnows
  <2> QED
    BY <1>1, <2>2, <2>3, <2>4
<1>2. ASSUME NEW n \in Message, Xtra \in DOMAIN notices,
             mail' = Tail(mail) \o <<n>>, n.op = "news",
             DOMAIN n.values = notices[Xtra] \cap DOMAIN cache',
             \A i \in DOMAIN n.values : n.values[i] = cache'[i]
      PROVE  /\ mail' \in Seq(Message)
             /\ \A m : InMail(m) => Head(mail) = m \/ InMail(m)'
             /\ \A i, v : WillKnow(i, v) /\ i \notin notices[Xtra] \cap DOMAIN cache'
                          => WillKnow(i, v)'
             /\ \A i \in notices[Xtra] \cap DOMAIN cache' : \A v : v = cache'[i] => WillKnow(i, v)'
  <2> DEFINE rest == <<n>>
  <2>1. rest \in Seq(Message) /\ DOMAIN rest = {1} /\ rest[1] = n /\ mail' = Tail(mail) \o rest
    BY <1>2
  <2> HIDE DEF rest
  <2>2. mail' \in Seq(Message)
    BY <2>1, PopKeeps
  <2>3. \A m : InMail(m) => Head(mail) = m \/ InMail(m)'
    BY <2>1, PopInMail
  <2>4. ASSUME NEW i, NEW v, WillKnow(i, v), i \notin notices[Xtra] \cap DOMAIN cache'
        PROVE  WillKnow(i, v)'
    <3>1. ~Brings(Head(mail), i) /\ \A k \in DOMAIN rest : ~Brings(rest[k], i)
      BY <1>2, <2>1, <2>4 DEF Brings
    <3> QED
      BY <2>1, <2>4, <3>1, PopKnows
  <2>5. ASSUME NEW i \in notices[Xtra] \cap DOMAIN cache', NEW v, v = cache'[i]
        PROVE  WillKnow(i, v)'
    <3>1. Brings(n, i) /\ n.values[i] = v
      BY <1>2, <2>5 DEF Brings
    <3> QED
      BY <1>2, <3>1, NewsKnows
  <2> QED
    BY <2>2, <2>3, <2>4, <2>5
<1> QED
  BY <1>1, <1>2, TellShape

(* What Xtra is told by a handler keeps it informed.                       *)
LEMMA ListenersKeep ==
  ASSUME StatusTypeOK, StatusInv, mail # <<>>, Head(mail).op # "news", cache' \in Views(Items),
         UNCHANGED <<xtra, daemon>>, NEW notices, Tell(notices),
         Xtra \in DOMAIN notices => notices[Xtra] \subseteq XtraHears,
         clientToItems[Xtra] \subseteq clientToItems'[Xtra],
         Head(mail) \in XtraMessage => Head(mail).items \subseteq clientToItems'[Xtra],
         \A i \in clientToItems'[Xtra] \cap DOMAIN cache' :
           \/ Xtra \in DOMAIN notices /\ i \in notices[Xtra]
           \/ i \in clientToItems[Xtra] \cap DOMAIN cache /\ cache'[i] = cache[i]
  PROVE  mail' \in Seq(Message) /\ XtraSubscribes' /\ XtraWillKnow' /\ DaemonKnows'
<1>1. mail \in Seq(Message) /\ xtra' = xtra
  BY DEF StatusTypeOK
<1>2. /\ mail' \in Seq(Message)
      /\ \A m : InMail(m) => Head(mail) = m \/ InMail(m)'
      /\ \A i, v : /\ WillKnow(i, v)
                   /\ Xtra \in DOMAIN notices => i \notin notices[Xtra] \cap DOMAIN cache'
                   => WillKnow(i, v)'
      /\ Xtra \in DOMAIN notices =>
           \A i \in notices[Xtra] \cap DOMAIN cache' : \A v : v = cache'[i] => WillKnow(i, v)'
  BY <1>1, TellKnows
<1>3. XtraSubscribes'
  <2>1. ASSUME NEW m \in XtraMessage, NEW S, S \subseteq clientToItems[Xtra] \/ InMail(m),
               m.items = S
        PROVE  S \subseteq clientToItems'[Xtra] \/ InMail(m)'
    BY <1>2, <2>1
  <2> DEFINE m1 == Subscribing(XtraItems, Xtra, FALSE)
             m2 == Subscribing({"tac"}, Xtra, TRUE)
  <2>2. m1 \in XtraMessage /\ m2 \in XtraMessage /\ m1.items = XtraItems /\ m2.items = {"tac"}
    BY DEF XtraMessage, Subscribing
  <2>3. /\ XtraItems \subseteq clientToItems[Xtra] \/ InMail(m1)
        /\ {"tac"} \subseteq clientToItems[Xtra] \/ InMail(m2)
    BY DEF StatusInv, XtraSubscribes
  <2>4. XtraItems \subseteq clientToItems'[Xtra] \/ InMail(m1)'
    BY <2>1, <2>2, <2>3
  <2>5. {"tac"} \subseteq clientToItems'[Xtra] \/ InMail(m2)'
    BY <2>1, <2>2, <2>3
  <2> QED
    BY <2>4, <2>5 DEF XtraSubscribes
<1>4. ASSUME NEW i \in clientToItems'[Xtra] \cap DOMAIN cache', NEW v, v = cache'[i]
      PROVE  WillKnow(i, v)'
  <2>1. CASE Xtra \in DOMAIN notices /\ i \in notices[Xtra]
    BY <1>2, <1>4, <2>1
  <2>2. CASE ~(Xtra \in DOMAIN notices /\ i \in notices[Xtra])
    <3>1. WillKnow(i, v)
      BY <1>4, <2>2 DEF StatusInv, XtraWillKnow
    <3> QED
      BY <1>2, <2>2, <3>1
  <2> QED
    BY <2>1, <2>2
<1>5. XtraWillKnow'
  BY <1>4 DEF XtraWillKnow, WillKnow, LastNews
<1> QED
  BY <1>2, <1>3, <1>5 DEF StatusInv, DaemonKnows

LEMMA SubscribeKeeps ==
  ASSUME StatusTypeOK, StatusInv, HandleSubscribe
  PROVE  StatusTypeOK' /\ StatusInv'
<1> DEFINE m == Head(mail)
           c == m.client
           fresh == IF attached THEN NewKeys(itemToClients, m.items) ELSE {}
           notices == FirstResponse(m)
<1>1. /\ mail # <<>> /\ m.op = "subscribe"
      /\ itemToClients' = AddVals(itemToClients, m.items, {c})
      /\ clientToItems' = AddVals(clientToItems, {c}, m.items)
      /\ framework' = IF m.request THEN framework ELSE framework \cup fresh
      /\ Tell(notices)
      /\ history' = [history EXCEPT
           !.told = HeardBy(notices),
           !.onlyRequested = IF m.request THEN @ \cup fresh ELSE @ \ fresh]
      /\ UNCHANGED <<cache, attached, xtra, daemon>>
  BY DEF HandleSubscribe, Handles, xtraVars
<1>2. /\ m.items \in SUBSET Items /\ c \in Observers /\ m.request \in BOOLEAN
      /\ m \in XtraMessage \/ c \in Others
  BY <1>1, HeadKinds
<1>3. DOMAIN notices = {c} /\ notices[c] = m.items
  BY DEF FirstResponse
<1>4. /\ clientToItems' = [d \in Observers |-> IF d = c THEN clientToItems[d] \cup m.items
                                               ELSE clientToItems[d]]
      /\ itemToClients' = [i \in Items |-> IF i \in m.items THEN itemToClients[i] \cup {c}
                                           ELSE itemToClients[i]]
  BY <1>1 DEF AddVals, StatusTypeOK
<1>5. fresh \in SUBSET Items
  BY <1>2 DEF NewKeys
<1>6. /\ HeardBy(notices) \in [Others -> Views(Items)]
      /\ \A d \in Others \ {c} : HeardBy(notices)[d] = history.told[d]
      /\ c \in Others =>
           /\ DOMAIN HeardBy(notices)[c] = (m.items \cap DOMAIN cache) \cup DOMAIN history.told[c]
           /\ \A i \in m.items \cap DOMAIN cache : HeardBy(notices)[c][i] = cache[i]
           /\ \A i \in DOMAIN history.told[c] \ m.items : HeardBy(notices)[c][i] = history.told[c][i]
  BY <1>1, <1>3, HeardShape, TypeParts
<1> HIDE DEF notices
<1>7. c = Xtra => m.items \subseteq XtraHears
  BY <1>2, XtraShape, OthersAssumption DEF XtraHears
<1>8. /\ clientToItems' \in [Observers -> SUBSET Items]
      /\ itemToClients' \in [Items -> SUBSET Observers]
      /\ clientToItems'[Xtra] \subseteq XtraHears
  BY <1>2, <1>4, <1>7 DEF StatusTypeOK, Observers
<1>9. /\ history' \in History
      /\ history'.told = HeardBy(notices)
      /\ history'.live = history.live /\ history'.misread = history.misread
      /\ history'.updated = history.updated
      /\ history'.onlyRequested = IF m.request THEN history.onlyRequested \cup fresh
                                  ELSE history.onlyRequested \ fresh
  <2> HIDE DEF fresh
  <2> QED
    BY <1>1, <1>5, <1>6, TypeParts DEF History
<1>10. mail' \in Seq(Message) /\ XtraSubscribes' /\ XtraWillKnow' /\ DaemonKnows'
  <2>1. cache' \in Views(Items) /\ Head(mail).op # "news"
    BY <1>1 DEF StatusTypeOK
  <2>2. Xtra \in DOMAIN notices => c = Xtra /\ notices[Xtra] = m.items
    BY <1>3
  <2>3. \A i \in clientToItems'[Xtra] :
          i \in clientToItems[Xtra] \/ (Xtra \in DOMAIN notices /\ i \in notices[Xtra])
    BY <1>3, <1>4 DEF Observers
  <2>4. clientToItems[Xtra] \subseteq clientToItems'[Xtra]
    BY <1>4 DEF Observers
  <2>5. m \in XtraMessage => m.items \subseteq clientToItems'[Xtra]
    BY <1>4, XtraShape DEF Observers
  <2> QED
    BY <1>1, <1>7, <2>1, <2>2, <2>3, <2>4, <2>5, ListenersKeep
<1>11. StatusTypeOK'
  BY <1>1, <1>8, <1>9, <1>10 DEF StatusTypeOK
<1>12. MapsAgree'
  BY <1>4, <1>9 DEF StatusInv, MapsAgree
<1>13. EntriesAreFed'
  <2> SUFFICES ASSUME attached, NEW i \in Items, itemToClients'[i] # {},
                      i \notin history'.onlyRequested
               PROVE  i \in framework'
    BY <1>1, <1>8 DEF EntriesAreFed, Entries
  <2>1. CASE itemToClients[i] # {}
    <3>1. i \in Entries(itemToClients) /\ i \notin fresh
      BY <2>1 DEF Entries, NewKeys, StatusTypeOK
    <3>2. i \in framework
      BY <1>9, <3>1 DEF StatusInv, EntriesAreFed
    <3> QED
      BY <1>1, <3>2
  <2>2. CASE itemToClients[i] = {}
    <3>1. i \in fresh
      BY <1>4, <2>2 DEF Entries, NewKeys
    <3> QED
      BY <1>1, <1>9, <3>1
  <2> QED
    BY <2>1, <2>2
<1>14. SubscribersHear'
  <2> SUFFICES ASSUME NEW d \in Others \ history.updated,
                      NEW i \in clientToItems'[d] \cap DOMAIN cache
               PROVE  /\ i \in DOMAIN HeardBy(notices)[d]
                      /\ HeardBy(notices)[d][i] = cache[i]
    BY <1>1, <1>9 DEF SubscribersHear
  <2>1. i \in clientToItems[d] \/ (d = c /\ i \in m.items)
    BY <1>4 DEF Observers
  <2>2. i \in clientToItems[d] => i \in DOMAIN history.told[d] /\ history.told[d][i] = cache[i]
    BY DEF StatusInv, SubscribersHear
  <2> QED
    BY <1>6, <2>1, <2>2
<1> QED
  BY <1>1, <1>9, <1>10, <1>11, <1>12, <1>13, <1>14 DEF StatusInv, NetworksAreRecorded

LEMMA UpdateKeeps ==
  ASSUME StatusTypeOK, StatusInv, HandleUpdate
  PROVE  StatusTypeOK' /\ StatusInv'
<1> DEFINE m == Head(mail)
           c == m.client
           shared == Interset(clientToItems, c, m.items)
<1>0. PICK kept \in Found(shared) :
        LET others == m.items \ kept
            trimmed == TrimOrRemove(itemToClients, kept, {c})
            fresh == NewKeys(trimmed, others)
            notices == [d \in {c} |-> others]
        IN  /\ clientToItems' = Update(clientToItems, c, m.items)
            /\ itemToClients' = AddVals(trimmed, others, {c})
            /\ \E g \in Reported(GoneKeys(itemToClients, kept, {c})) :
                 framework' = IF attached THEN (framework \cup fresh) \ g ELSE framework
            /\ Tell(notices)
            /\ history' = [history EXCEPT !.told = HeardBy(notices),
                                          !.onlyRequested = @ \ (IF attached THEN fresh ELSE {}),
                                          !.updated = @ \cup {c}]
  BY DEF HandleUpdate
<1> DEFINE others == m.items \ kept
           trimmed == TrimOrRemove(itemToClients, kept, {c})
           fresh == NewKeys(trimmed, others)
           notices == [d \in {c} |-> others]
           gone == GoneKeys(itemToClients, kept, {c})
<1>1. /\ mail # <<>> /\ m.op = "update"
      /\ clientToItems' = Update(clientToItems, c, m.items)
      /\ itemToClients' = AddVals(trimmed, others, {c})
      /\ \E g \in Reported(gone) :
           framework' = IF attached THEN (framework \cup fresh) \ g ELSE framework
      /\ Tell(notices)
      /\ history' = [history EXCEPT !.told = HeardBy(notices),
                                    !.onlyRequested = @ \ (IF attached THEN fresh ELSE {}),
                                    !.updated = @ \cup {c}]
      /\ UNCHANGED <<cache, attached, xtra, daemon>>
  BY <1>0 DEF HandleUpdate, Handles, xtraVars
<1>2. m.items \in SUBSET Items /\ c \in Others /\ c \in Observers /\ c # Xtra
  BY <1>1, HeadKinds, OthersAssumption DEF Observers
<1>3. kept \in SUBSET Items /\ others \in SUBSET Items
  BY <1>0, <1>2 DEF Interset, Found
<1>4. /\ clientToItems' = [clientToItems EXCEPT ![c] = m.items]
      /\ trimmed = [i \in Items |-> IF i \in kept THEN itemToClients[i] \ {c} ELSE itemToClients[i]]
      /\ itemToClients' = [i \in Items |-> IF i \in others THEN trimmed[i] \cup {c} ELSE trimmed[i]]
  BY <1>1 DEF Update, TrimOrRemove, AddVals, StatusTypeOK
<1>5. DOMAIN notices = {c}
  OBVIOUS
<1>6. /\ HeardBy(notices) \in [Others -> Views(Items)]
      /\ \A d \in Others \ {c} : HeardBy(notices)[d] = history.told[d]
  BY <1>1, <1>5, HeardShape, TypeParts
<1> HIDE DEF notices
<1>7. /\ clientToItems' \in [Observers -> SUBSET Items]
      /\ itemToClients' \in [Items -> SUBSET Observers]
      /\ clientToItems'[Xtra] = clientToItems[Xtra]
      /\ \A d \in Observers \ {c} : clientToItems'[d] = clientToItems[d]
  BY <1>2, <1>3, <1>4 DEF StatusTypeOK, Observers
<1>8. \A d \in Observers \ {c}, i \in Items : d \in itemToClients'[i] <=> d \in itemToClients[i]
  BY <1>4
<1>9. /\ history' \in History
      /\ history'.told = HeardBy(notices)
      /\ history'.live = history.live /\ history'.misread = history.misread
      /\ history'.updated = history.updated \cup {c}
      /\ history'.onlyRequested = history.onlyRequested \ (IF attached THEN fresh ELSE {})
  <2> HIDE DEF fresh
  <2> QED
    BY <1>1, <1>2, <1>6, TypeParts DEF History
<1>10. mail' \in Seq(Message) /\ XtraSubscribes' /\ XtraWillKnow' /\ DaemonKnows'
  <2>1. cache' \in Views(Items) /\ Head(mail).op # "news"
    BY <1>1 DEF StatusTypeOK
  <2>2. Xtra \notin DOMAIN notices
    BY <1>2, <1>5
  <2>3. m \notin XtraMessage
    BY <1>1, XtraShape
  <2> QED
    BY <1>1, <1>7, <2>1, <2>2, <2>3, ListenersKeep
<1>11. StatusTypeOK'
  BY <1>1, <1>7, <1>9, <1>10 DEF StatusTypeOK
<1>12. MapsAgree'
  BY <1>7, <1>8, <1>9 DEF StatusInv, MapsAgree
<1>13. EntriesAreFed'
  <2> SUFFICES ASSUME attached, NEW i \in Items, itemToClients'[i] # {},
                      i \notin history'.onlyRequested
               PROVE  i \in framework'
    BY <1>1, <1>7 DEF EntriesAreFed, Entries
  <2>1. PICK g \in Reported(gone) : framework' = (framework \cup fresh) \ g
    BY <1>1
  <2>2. i \notin g
    <3>1. i \in g => i \in kept /\ itemToClients[i] \subseteq {c}
      BY <2>1 DEF Reported, GoneKeys
    <3> QED
      BY <1>4, <3>1
  <2>3. CASE trimmed[i] = {}
    <3>1. i \in fresh
      BY <1>4, <2>3 DEF NewKeys, Entries
    <3> QED
      BY <2>1, <2>2, <3>1
  <2>4. CASE trimmed[i] # {}
    <3>1. i \notin fresh
      BY <1>4, <2>4 DEF NewKeys, Entries
    <3>2. itemToClients[i] # {}
      BY <1>4, <2>4
    <3>3. i \in framework
      BY <1>9, <3>1, <3>2 DEF StatusInv, EntriesAreFed, Entries, StatusTypeOK
    <3> QED
      BY <2>1, <2>2, <3>3
  <2> QED
    BY <2>3, <2>4
<1>14. SubscribersHear'
  <2> SUFFICES ASSUME NEW d \in Others \ (history.updated \cup {c}),
                      NEW i \in clientToItems'[d] \cap DOMAIN cache
               PROVE  /\ i \in DOMAIN HeardBy(notices)[d]
                      /\ HeardBy(notices)[d][i] = cache[i]
    BY <1>1, <1>9 DEF SubscribersHear
  <2> QED
    BY <1>6, <1>7 DEF StatusInv, SubscribersHear, Observers
<1> QED
  BY <1>1, <1>9, <1>10, <1>11, <1>12, <1>13, <1>14 DEF StatusInv, NetworksAreRecorded

(* What is recorded are values, and for the network it is what is live.     *)
LEMMA RecordedNews ==
  ASSUME StatusTypeOK, NetworksAreRecorded, NEW list \in NewsLists
  PROVE  /\ DOMAIN list \in SUBSET Items
         /\ \A i \in DOMAIN list : Recorded(i, list[i]) \in Value
         /\ "network" \in DOMAIN list =>
              LET lives == Lives(list["network"]) IN
              /\ lives \in History
              /\ lives.told = history.told /\ lives.updated = history.updated
              /\ lives.onlyRequested = history.onlyRequested
              /\ Recorded("network", list["network"]) = lives.live \cup lives.misread
<1>1. history \in History /\ \A i \in DOMAIN cache : cache[i] \in Value
  BY ViewShape DEF StatusTypeOK
<1>2. DOMAIN list \in SUBSET Items /\ \A i \in DOMAIN list : list[i] \in News(i)
  BY DEF NewsLists
<1>3. ASSUME NEW i \in DOMAIN list, i # "network"
      PROVE  Recorded(i, list[i]) \in Value
  <2>1. PICK n : n = list[i]
    OBVIOUS
  <2>2. n \in PlainNews
    BY <1>2, <1>3, <2>1 DEF News
  <2>3. n.types \in Value
    BY <2>2 DEF PlainNews, Value
  <2> QED
    BY <1>3, <2>1, <2>3 DEF Recorded, Collate
<1>4. ASSUME "network" \in DOMAIN list
      PROVE  LET lives == Lives(list["network"]) IN
             /\ lives \in History
             /\ lives.told = history.told /\ lives.updated = history.updated
             /\ lives.onlyRequested = history.onlyRequested
             /\ Recorded("network", list["network"]) \in Value
             /\ Recorded("network", list["network"]) = lives.live \cup lives.misread
  <2> DEFINE news == list["network"]
             live == Live(history.live, news)
             misread == IF news.connected THEN history.misread
                        ELSE IF "network" \notin DOMAIN cache THEN news.types
                        ELSE Live(history.misread, news)
  <2>1. news \in NetworkNews /\ news.types \in SUBSET NetworkTypes /\ news.connected \in BOOLEAN
    BY <1>2, <1>4 DEF News, NetworkNews
  <2> HIDE DEF news
  <2>2. history.live \in SUBSET NetworkTypes /\ history.misread \in SUBSET NetworkTypes
    BY <1>1 DEF History
  <2>3. live \in SUBSET NetworkTypes /\ misread \in SUBSET NetworkTypes
    BY <2>1, <2>2 DEF Live
  <2>4. Lives(news) = [history EXCEPT !.live = live, !.misread = misread]
    BY DEF Lives
  <2>5. Recorded("network", news) = live \cup misread
    <3>1. CASE "network" \notin DOMAIN cache
      <4>1. history.live = {} /\ history.misread = {}
        BY <3>1 DEF NetworksAreRecorded
      <4> QED
        BY <2>1, <3>1, <4>1 DEF Recorded, Live
    <3>2. CASE "network" \in DOMAIN cache
      <4>1. cache["network"] = history.live \cup history.misread
        BY <3>2 DEF NetworksAreRecorded
      <4>2. Recorded("network", news) = Collate("network", cache["network"], news)
        BY <3>2 DEF Recorded
      <4>3. CASE news.connected
        BY <4>1, <4>2, <4>3 DEF Collate, Live
      <4>4. CASE ~news.connected /\ news.types # {}
        BY <3>2, <4>1, <4>2, <4>4 DEF Collate, Live
      <4>5. CASE ~news.connected /\ news.types = {}
        BY <3>2, <4>1, <4>2, <4>5 DEF Collate, Live
      <4> QED
        BY <2>1, <4>3, <4>4, <4>5
    <3> QED
      BY <3>1, <3>2
  <2> HIDE DEF live, misread
  <2>6. /\ Lives(news) \in History
        /\ Lives(news).told = history.told
        /\ Lives(news).updated = history.updated
        /\ Lives(news).onlyRequested = history.onlyRequested
        /\ Lives(news).live = live /\ Lives(news).misread = misread
    BY <1>1, <2>3, <2>4 DEF History
  <2>7. live \cup misread \in Value
    BY <2>3 DEF Value
  <2> QED
    BY <2>5, <2>6, <2>7 DEF news
<1> QED
  BY <1>2, <1>3, <1>4

LEMMA NotifyKeeps ==
  ASSUME StatusTypeOK, StatusInv, HandleNotify
  PROVE  StatusTypeOK' /\ StatusInv'
<1> DEFINE list == Head(mail).list
           value == [i \in DOMAIN list |-> Recorded(i, list[i])]
           changed == {i \in DOMAIN list : i \notin DOMAIN cache \/ cache[i] # value[i]}
           listeners == UNION {itemToClients[i] : i \in changed}
           notices == [c \in listeners |-> clientToItems[c] \cap changed]
           lives == IF "network" \in DOMAIN list THEN Lives(list["network"]) ELSE history
<1>1. /\ mail # <<>> /\ Head(mail).op = "notify"
      /\ cache' = Over(value, cache)
      /\ Tell(notices)
      /\ history' = [lives EXCEPT !.told = HeardBy(notices)]
      /\ UNCHANGED <<clientToItems, itemToClients, attached, framework, xtra, daemon>>
  BY DEF HandleNotify, Handles, xtraVars, observerVars
<1>2. list \in NewsLists
  BY <1>1, HeadKinds
<1>3. /\ DOMAIN list \in SUBSET Items /\ DOMAIN value = DOMAIN list
      /\ \A i \in DOMAIN value : value[i] \in Value
      /\ lives \in History
      /\ lives.told = history.told /\ lives.updated = history.updated
      /\ lives.onlyRequested = history.onlyRequested
      /\ "network" \in DOMAIN value => value["network"] = lives.live \cup lives.misread
      /\ "network" \notin DOMAIN value => lives = history
  <2>1. history \in History
    BY DEF StatusTypeOK
  <2>2. PICK l \in NewsLists : l = list
    BY <1>2
  <2>3. /\ DOMAIN l \in SUBSET Items
        /\ \A i \in DOMAIN l : Recorded(i, l[i]) \in Value
        /\ "network" \in DOMAIN l =>
              LET now == Lives(l["network"]) IN
              /\ now \in History
              /\ now.told = history.told /\ now.updated = history.updated
              /\ now.onlyRequested = history.onlyRequested
              /\ Recorded("network", l["network"]) = now.live \cup now.misread
    BY RecordedNews DEF StatusInv
  <2> HIDE DEF list
  <2> QED
    BY <2>1, <2>2, <2>3
<1>4. /\ DOMAIN notices = listeners
      /\ \A c \in listeners : notices[c] = clientToItems[c] \cap changed
      /\ changed \in SUBSET DOMAIN value
      /\ \A i \in DOMAIN value \ changed : i \in DOMAIN cache /\ cache[i] = value[i]
      /\ \A i \in changed : itemToClients[i] \subseteq listeners
  <2> HIDE DEF list
  <2> QED
    BY Zenon
<1> HIDE DEF value, lives
<1>5. /\ cache' \in Views(Items)
      /\ DOMAIN cache' = DOMAIN value \cup DOMAIN cache
      /\ \A i \in DOMAIN value : cache'[i] = value[i]
      /\ \A i \in DOMAIN cache \ DOMAIN value : cache'[i] = cache[i]
  <2>1. value \in Views(Items)
    <3>1. value = [i \in DOMAIN value |-> value[i]]
      BY DEF value
    <3>2. value \in [DOMAIN value -> Value]
      BY <1>3, <3>1
    <3> QED
      BY <1>3, <3>2 DEF Views
  <2>2. Over(value, cache) \in Views(Items)
    BY <2>1, MergeViews, TypeParts
  <2>3. /\ DOMAIN Over(value, cache) = DOMAIN value \cup DOMAIN cache
        /\ \A i \in DOMAIN value : Over(value, cache)[i] = value[i]
        /\ \A i \in DOMAIN cache \ DOMAIN value : Over(value, cache)[i] = cache[i]
    BY OverShape
  <2> QED
    BY <1>1, <2>2, <2>3
<1> HIDE DEF changed, listeners, notices
<1>6. /\ HeardBy(notices) \in [Others -> Views(Items)]
      /\ \A d \in Others \ listeners : HeardBy(notices)[d] = history.told[d]
      /\ \A c \in Others \cap listeners :
           /\ DOMAIN HeardBy(notices)[c]
                = (clientToItems[c] \cap changed \cap DOMAIN cache') \cup DOMAIN history.told[c]
           /\ \A i \in clientToItems[c] \cap changed \cap DOMAIN cache' :
                HeardBy(notices)[c][i] = cache'[i]
           /\ \A i \in DOMAIN history.told[c] \ changed :
                HeardBy(notices)[c][i] = history.told[c][i]
  BY <1>4, <1>5, HeardShape, TypeParts
<1>7. /\ history' \in History
      /\ history'.told = HeardBy(notices)
      /\ history'.live = lives.live /\ history'.misread = lives.misread
      /\ history'.updated = history.updated
      /\ history'.onlyRequested = history.onlyRequested
  BY <1>1, <1>3, <1>6 DEF History
<1>8. /\ \A i \in DOMAIN cache' \ changed : i \in DOMAIN cache /\ cache'[i] = cache[i]
      /\ changed \subseteq DOMAIN cache' /\ changed \subseteq Items
  BY <1>3, <1>4, <1>5
<1>9. mail' \in Seq(Message) /\ XtraSubscribes' /\ XtraWillKnow' /\ DaemonKnows'
  <2>1. Head(mail).op # "news" /\ Head(mail) \notin XtraMessage
    BY <1>1, XtraShape
  <2>2. clientToItems[Xtra] \subseteq XtraHears
    BY DEF StatusTypeOK
  <2>3. Xtra \in DOMAIN notices => notices[Xtra] \subseteq XtraHears
    BY <1>4, <2>2
  <2>4. ASSUME NEW i \in clientToItems[Xtra] \cap DOMAIN cache'
        PROVE  \/ Xtra \in DOMAIN notices /\ i \in notices[Xtra]
               \/ i \in clientToItems[Xtra] \cap DOMAIN cache /\ cache'[i] = cache[i]
    <3>1. CASE i \in changed
      <4>1. Xtra \in Observers \ history.updated
        BY OthersAssumption, TypeParts DEF Observers, History
      <4>2. Xtra \in itemToClients[i]
        BY <1>8, <3>1, <4>1 DEF StatusInv, MapsAgree
      <4> QED
        BY <1>4, <3>1, <4>2
    <3> QED
      BY <1>8, <3>1
  <2> QED
    BY <1>1, <1>5, <2>1, <2>3, <2>4, ListenersKeep
<1>10. StatusTypeOK'
  BY <1>1, <1>5, <1>7, <1>9 DEF StatusTypeOK
<1>11. MapsAgree' /\ EntriesAreFed'
  BY <1>1, <1>7 DEF StatusInv, MapsAgree, EntriesAreFed, Entries
<1>12. NetworksAreRecorded'
  <2>1. CASE "network" \in DOMAIN value
    BY <1>3, <1>5, <1>7, <2>1 DEF NetworksAreRecorded
  <2>2. CASE "network" \notin DOMAIN value
    BY <1>3, <1>5, <1>7, <2>2 DEF StatusInv, NetworksAreRecorded
  <2> QED
    BY <2>1, <2>2
<1>13. SubscribersHear'
  <2> SUFFICES ASSUME NEW d \in Others \ history.updated,
                      NEW i \in clientToItems[d] \cap DOMAIN cache'
               PROVE  /\ i \in DOMAIN HeardBy(notices)[d]
                      /\ HeardBy(notices)[d][i] = cache'[i]
    BY <1>1, <1>7 DEF SubscribersHear
  <2>1. i \in DOMAIN cache => i \in DOMAIN history.told[d] /\ history.told[d][i] = cache[i]
    BY DEF StatusInv, SubscribersHear
  <2>2. CASE i \in changed
    <3>1. d \in itemToClients[i]
      BY <1>8, <2>2 DEF StatusInv, MapsAgree, Observers
    <3>2. d \in listeners
      BY <1>4, <2>2, <3>1
    <3> QED
      BY <1>6, <2>2, <3>2
  <2>3. CASE i \notin changed
    <3>1. /\ i \in DOMAIN cache /\ cache'[i] = cache[i]
          /\ i \in DOMAIN history.told[d] /\ history.told[d][i] = cache[i]
      BY <1>8, <2>1, <2>3
    <3> QED
      BY <1>6, <2>3, <3>1
  <2> QED
    BY <2>2, <2>3
<1> QED
  BY <1>9, <1>10, <1>11, <1>12, <1>13 DEF StatusInv

-----------------------------------------------------------------------------
(* The theorems.                                                           *)

LEMMA InitHolds == StatusInit => StatusTypeOK /\ StatusInv
<1> SUFFICES ASSUME StatusInit PROVE StatusTypeOK /\ StatusInv
  OBVIOUS
<1> DEFINE m1 == Subscribing(XtraItems, Xtra, FALSE)
           m2 == Subscribing({"tac"}, Xtra, TRUE)
<1>1. mail = <<m1, m2>> /\ m1 \in Message /\ m2 \in Message
  BY DEF StatusInit, Message, XtraMessage
<1>2. mail \in Seq(Message) /\ DOMAIN mail = {1, 2} /\ mail[1] = m1 /\ mail[2] = m2
  <2> HIDE DEF m1, m2
  <2> QED
    BY <1>1
<1>3. /\ clientToItems = [c \in Observers |-> {}] /\ itemToClients = [i \in Items |-> {}]
      /\ cache = <<>> /\ attached = FALSE
      /\ xtra = [listening |-> FALSE, asked |-> FALSE, lock |-> {}, known |-> <<>>]
      /\ history = [told |-> [c \in Others |-> <<>>], live |-> {}, misread |-> {},
                    updated |-> {}, onlyRequested |-> {}, wish |-> [c \in Others |-> {}]]
  BY DEF StatusInit, EmptyMap
<1>4. PICK up \in BOOLEAN : daemon = [up |-> up, waiting |-> FALSE, view |-> <<>>]
  BY DEF StatusInit
<1>5. /\ <<>> \in Views(Items) /\ <<>> \in Views(XtraKeeps) /\ <<>> \in Views(XtraKeeps \cup {"known"})
      /\ DOMAIN <<>> = {}
  BY EmptyView
<1>6. history \in History
  BY <1>3, <1>5 DEF History
<1>7. xtra \in XtraType /\ daemon \in DaemonType
  BY <1>3, <1>4, <1>5 DEF XtraType, DaemonType
<1>8. Xtra \in Observers
  BY DEF Observers
<1>9. StatusTypeOK
  BY <1>2, <1>3, <1>5, <1>6, <1>7, <1>8 DEF StatusTypeOK, XtraType, DaemonType
<1>10. XtraSubscribes
  BY <1>2 DEF XtraSubscribes, InMail
<1>11. MapsAgree /\ EntriesAreFed /\ SubscribersHear /\ NetworksAreRecorded /\ XtraWillKnow
  BY <1>3, <1>5, <1>8 DEF MapsAgree, EntriesAreFed, SubscribersHear, NetworksAreRecorded,
                          XtraWillKnow, Observers
<1>12. DaemonKnows
  BY <1>4, <1>5 DEF DaemonKnows
<1> QED
  BY <1>9, <1>10, <1>11, <1>12 DEF StatusInv

(* What the state is made of, and the invariant that ties the two maps,    *)
(* the framework, the queue, Xtra and the daemon together.                 *)
THEOREM StatusHolds == StatusSpec => [](StatusTypeOK /\ StatusInv)
<1>1. StatusTypeOK /\ StatusInv /\ [StatusNext]_statusVars => StatusTypeOK' /\ StatusInv'
  <2> SUFFICES ASSUME StatusTypeOK, StatusInv, [StatusNext]_statusVars
               PROVE  StatusTypeOK' /\ StatusInv'
    OBVIOUS
  <2>1. CASE ObserverCall \/ SystemCall \/ DaemonStep
    BY <2>1, ClientCalls, SystemCalls, DaemonSteps, CallKeeps
  <2>2. CASE HandleStatus
    BY <2>2, AttachKeeps, SubscribeKeeps, UpdateKeeps, UnsubscribesKeep, NotifyKeeps,
       HandleNewsKeeps, HandleLockKeeps, StatusRequestedKeeps DEF HandleStatus
  <2>3. CASE UNCHANGED statusVars
    <3>1. CallStep
      BY <2>3, SameHistoryAsBefore DEF statusVars, CallStep, observerVars, Posted
    <3> QED
      BY <3>1, CallKeeps
  <2> QED
    BY <2>1, <2>2, <2>3 DEF StatusNext
<1> QED
  BY <1>1, InitHolds, PTL DEF StatusSpec

(* The framework keeps every item subscribed that has a client, whatever   *)
(* the order in which clients came and went and the object was set.        *)
THEOREM FrameworkIsSubscribed == StatusSpec => []FrameworkFeeds
<1>1. StatusTypeOK /\ StatusInv => FrameworkFeeds
  BY DEF StatusInv, EntriesAreFed, Entries, FrameworkFeeds, StatusTypeOK
<1> QED
  BY <1>1, StatusHolds, PTL

(* The same said of the clients: what a client is subscribed to, and never *)
(* updated, the framework has subscribed for it.                           *)
ClientsAreFed ==
  attached => \A c \in Observers \ history.updated :
                clientToItems[c] \ history.onlyRequested \subseteq framework

THEOREM ClientsAreSubscribed == StatusSpec => []ClientsAreFed
<1>1. StatusTypeOK /\ StatusInv => ClientsAreFed
  BY DEF StatusInv, MapsAgree, EntriesAreFed, Entries, ClientsAreFed, StatusTypeOK
<1> QED
  BY <1>1, StatusHolds, PTL

(* A registered client has last heard the newest value recorded.           *)
THEOREM SubscribersHaveHeard == StatusSpec => []SubscribersHear
<1>1. StatusInv => SubscribersHear
  BY DEF StatusInv
<1> QED
  BY <1>1, StatusHolds, PTL

(* When the queue is empty, a daemon that has been answered knows the lock,*)
(* the cell and the networks connected.                                    *)
THEOREM DaemonHasBeenInformed == StatusSpec => []DaemonIsInformed
<1>1. StatusTypeOK /\ StatusInv => DaemonIsInformed
  <2> SUFFICES ASSUME StatusTypeOK, StatusInv, Idle, daemon.up, "known" \in DOMAIN daemon.view
               PROVE  /\ \A i \in {"tac", "mccmnc"} \cap DOMAIN cache : daemon.view[i] = cache[i]
                      /\ "network" \in DOMAIN cache =>
                           daemon.view["network"] = history.live \cup history.misread
                      /\ "lock" \in DOMAIN xtra.known => daemon.view["lock"] = xtra.known["lock"]
    BY DEF DaemonIsInformed
  <2>1. DOMAIN mail = {}
    BY DEF Idle
  <2>2. \A i \in DOMAIN xtra.known \ {"throttle"} : daemon.view[i] = xtra.known[i]
    BY DEF StatusInv, DaemonKnows
  <2>3. XtraHears \subseteq clientToItems[Xtra]
    BY <2>1 DEF StatusInv, XtraSubscribes, InMail, XtraHears
  <2>4. \A i \in XtraHears \cap DOMAIN cache : i \in DOMAIN xtra.known /\ xtra.known[i] = cache[i]
    BY <2>1, <2>3 DEF StatusInv, XtraWillKnow, WillKnow
  <2>5. \A i \in XtraHears \cap DOMAIN cache : daemon.view[i] = cache[i]
    BY <2>2, <2>4 DEF XtraHears, XtraItems
  <2>6. "network" \in DOMAIN cache => daemon.view["network"] = history.live \cup history.misread
    BY <2>5 DEF StatusInv, NetworksAreRecorded, XtraHears, XtraItems
  <2> QED
    BY <2>2, <2>5, <2>6 DEF XtraHears, XtraItems
<1> QED
  BY <1>1, StatusHolds, PTL

-----------------------------------------------------------------------------
(***************************************************************************)
(* The reports that the status keeps, for any places, any number of        *)
(* satellites and any length of the histories.                             *)
(***************************************************************************)

(* What reports hold: places, numbers, masks, times, health, ephemerides.  *)
Ephemerides == [1 .. SvAllNum -> {"unknown", "any", "eph"} \X (1 .. SvAllNum)]
Data ==
  Places \cup {Zero, 0, 1, 2} \cup Masks \cup [time : {0, Near}, timeValid : BOOLEAN]
    \cup [good : Masks, bad : Masks] \cup Ephemerides
Report == [valid : BOOLEAN, data : Data]

KeptTypeOK ==
  /\ reports \in [ReportKinds -> Seq(Report)]
  /\ \A kind \in ReportKinds : Len(reports[kind]) <= maxItem
  /\ last \in [ReportKinds -> {Deleted} \cup {<<d>> : d \in Data}]

(* The newest report of a kind is what was said last of it; if that was    *)
(* deleted, it is a default, or none has come yet.                         *)
IsNewest(kind, h, said) ==
  IF said = Deleted THEN h = <<>> \/ Last(h) \in Defaults(kind)
  ELSE h # <<>> /\ Last(h).data = said[1]
NewestIsLast == \A kind \in ReportKinds : IsNewest(kind, reports[kind], last[kind])

(* The time and the gain come in one sentence and go with one deletion.    *)
TimedTogether == last["timeAndClock"] = Deleted <=> last["rfAndParams"] = Deleted

KeptInv == KeptTypeOK /\ NewestIsLast /\ TimedTogether

LEMMA BoundedHistory ==
  ASSUME NEW h \in Seq(Report), Len(h) <= maxItem, NEW r \in Report, NEW t, t = Bounded(Append(h, r))
  PROVE  t \in Seq(Report) /\ Len(t) <= maxItem /\ t # <<>> /\ Last(t) = r
<1>1. PICK a : a = Append(h, r)
  OBVIOUS
<1>2. /\ a \in Seq(Report) /\ Len(a) = Len(h) + 1 /\ a[Len(h) + 1] = r
  BY <1>1, AppendProperties
<1>3. Len(h) \in Nat /\ maxItem \in Nat /\ maxItem # 0
  BY LenProperties, StatusAssumption
<1>4. CASE Len(a) > maxItem
  <2>1. t = Tail(a)
    BY <1>1, <1>4 DEF Bounded
  <2>2. /\ t \in Seq(Report) /\ Len(t) = Len(h)
        /\ \A i \in 1 .. Len(t) : t[i] = a[i + 1]
    BY <1>2, <1>3, <2>1, HeadTailProperties
  <2>3. Len(h) \in 1 .. Len(t)
    BY <1>2, <1>3, <1>4, <2>2
  <2>4. t[Len(t)] = r /\ t # <<>>
    BY <1>2, <2>2, <2>3
  <2> QED
    BY <2>2, <2>4 DEF Last
<1>5. CASE ~(Len(a) > maxItem)
  <2>1. t = a
    BY <1>1, <1>5 DEF Bounded
  <2>2. Len(a) <= maxItem /\ a # <<>>
    BY <1>2, <1>3, <1>5
  <2> QED
    BY <1>2, <2>1, <2>2 DEF Last
<1> QED
  BY <1>4, <1>5

(* A report that is recorded is the newest, or as good as the newest.      *)
LEMMA RecordedIsNewest ==
  ASSUME NEW kind, NEW h \in Seq(Report), Len(h) <= maxItem, NEW d \in Data,
         NEW t, t = SetItem(h, Valid(d))
  PROVE  t \in Seq(Report) /\ Len(t) <= maxItem /\ IsNewest(kind, t, <<d>>)
<1>1. PICK r : r = Valid(d)
  OBVIOUS
<1>2. r \in Report /\ r.data = d
  BY <1>1 DEF Valid, Report
<1>3. <<d>> # Deleted /\ <<d>>[1] = d
  BY DEF Deleted
<1>4. CASE h # <<>> /\ Same(Last(h), r)
  <2>1. t = h
    BY <1>1, <1>4 DEF SetItem
  <2>2. Last(h).data = d
    BY <1>2, <1>4 DEF Same
  <2> QED
    BY <1>3, <1>4, <2>1, <2>2 DEF IsNewest
<1>5. CASE ~(h # <<>> /\ Same(Last(h), r))
  <2>1. t = Bounded(Append(h, r))
    BY <1>1, <1>5 DEF SetItem
  <2>2. t \in Seq(Report) /\ Len(t) <= maxItem /\ t # <<>> /\ Last(t) = r
    BY <1>2, <2>1, BoundedHistory
  <2> QED
    BY <1>2, <1>3, <2>2 DEF IsNewest
<1> QED
  BY <1>4, <1>5

(* A recording tells known kinds, and the time and the gain together.      *)
IsRecording(r) ==
  /\ DOMAIN r \subseteq ReportKinds
  /\ \A kind \in DOMAIN r : r[kind] \in Data
  /\ "timeAndClock" \in DOMAIN r <=> "rfAndParams" \in DOMAIN r

LEMMA RecordHolds ==
  ASSUME KeptInv, NEW r, IsRecording(r), Record(r)
  PROVE  KeptInv'
<1>1. \A kind \in ReportKinds :
        IF kind \in DOMAIN r
        THEN reports'[kind] = SetItem(reports[kind], Valid(r[kind])) /\ last'[kind] = <<r[kind]>>
        ELSE reports'[kind] = reports[kind] /\ last'[kind] = last[kind]
  BY DEF Record
<1>2. DOMAIN reports' = ReportKinds /\ DOMAIN last' = ReportKinds
  BY DEF Record
<1>3. ASSUME NEW kind \in ReportKinds
      PROVE  /\ reports'[kind] \in Seq(Report) /\ Len(reports'[kind]) <= maxItem
             /\ last'[kind] \in {Deleted} \cup {<<d>> : d \in Data}
             /\ IsNewest(kind, reports'[kind], last'[kind])
  <2>1. /\ reports[kind] \in Seq(Report) /\ Len(reports[kind]) <= maxItem
        /\ last[kind] \in {Deleted} \cup {<<d>> : d \in Data}
        /\ IsNewest(kind, reports[kind], last[kind])
    BY DEF KeptInv, KeptTypeOK, NewestIsLast
  <2>2. CASE kind \in DOMAIN r
    <3>1. r[kind] \in Data
      BY <2>2 DEF IsRecording
    <3>2. reports'[kind] = SetItem(reports[kind], Valid(r[kind])) /\ last'[kind] = <<r[kind]>>
      BY <1>1, <2>2
    <3> QED
      BY <2>1, <3>1, <3>2, RecordedIsNewest
  <2>3. CASE kind \notin DOMAIN r
    BY <1>1, <2>1, <2>3
  <2> QED
    BY <2>2, <2>3
<1>4. KeptTypeOK'
  <2>1. reports' \in [ReportKinds -> Seq(Report)]
    <3>1. reports' = [kind \in ReportKinds |-> reports'[kind]]
      BY DEF Record
    <3> QED
      BY <1>3, <3>1
  <2>2. last' \in [ReportKinds -> {Deleted} \cup {<<d>> : d \in Data}]
    <3>1. last' = [kind \in ReportKinds |-> last'[kind]]
      BY DEF Record
    <3> QED
      BY <1>3, <3>1
  <2> QED
    BY <1>3, <2>1, <2>2 DEF KeptTypeOK
<1>5. NewestIsLast'
  BY <1>3 DEF NewestIsLast
<1>6. TimedTogether'
  <2>1. "timeAndClock" \in ReportKinds /\ "rfAndParams" \in ReportKinds
    BY DEF ReportKinds
  <2>2. \A d : <<d>> # Deleted
    BY DEF Deleted
  <2> QED
    BY <1>1, <2>1, <2>2 DEF IsRecording, KeptInv, TimedTogether
<1> QED
  BY <1>4, <1>5, <1>6 DEF KeptInv

(* What is recorded of a sentence.                                         *)
TimeData == [time : {0, Near}, timeValid : BOOLEAN, xo : {1}, agc : {1, 2}, recovery : {0}]

LEMMA TimeIsRecording ==
  ASSUME NEW m \in TimeData \cup {NoTime}
  PROVE  IsRecording(TimeReports(m))
<1> DEFINE r == TimeReports(m)
<1>1. DOMAIN r = {"timeAndClock", "xoState", "rfAndParams", "errRecovery"}
  BY DEF TimeReports
<1>2. /\ r.timeAndClock = [time |-> m.time, timeValid |-> m.timeValid]
      /\ r.xoState = m.xo /\ r.rfAndParams = m.agc /\ r.errRecovery = m.recovery
  BY DEF TimeReports, TimeAndClock, XoState, RfAndParams, ErrRecovery
<1>3. m.time \in {0, Near} /\ m.timeValid \in BOOLEAN
      /\ m.xo \in {0, 1} /\ m.agc \in {0, 1, 2} /\ m.recovery \in {0}
  <2>1. CASE m \in TimeData
    BY <2>1 DEF TimeData
  <2>2. CASE m = NoTime
    <3>1. m.time = 0 /\ m.timeValid = FALSE /\ m.xo = 0 /\ m.agc = 0 /\ m.recovery = 0
      BY <2>2 DEF NoTime
    <3> QED
      BY <3>1
  <2> QED
    BY <2>1, <2>2
<1>4. [time |-> m.time, timeValid |-> m.timeValid] \in Data
  BY <1>3 DEF Data
<1>5. m.xo \in Data /\ m.agc \in Data /\ m.recovery \in Data
  BY <1>3 DEF Data
<1> HIDE DEF r
<1>6. \A kind \in DOMAIN r : r[kind] \in Data
  BY <1>1, <1>2, <1>4, <1>5
<1>7. IsRecording(r)
  BY <1>1, <1>6 DEF IsRecording, ReportKinds
<1> QED
  BY <1>7 DEF r

(* A sentence that records of one kind only.                               *)
LEMMA OneIsRecording ==
  ASSUME NEW kind \in ReportKinds \ {"timeAndClock", "rfAndParams"}, NEW r, NEW d \in Data,
         DOMAIN r = {kind}, r[kind] = d
  PROVE  IsRecording(r)
  BY DEF IsRecording

LEMMA UninitialisedIsData ==
  ASSUME NEW s, NEW possible, possible \subseteq Data, s.short \/ s.data \in Data,
         NEW d \in Uninitialised(s, possible)
  PROVE  d \in Data
  BY DEF Uninitialised

LEMMA PossibleData ==
  /\ {0, 1} \subseteq Data /\ Places \subseteq Data /\ Masks \subseteq Data
  /\ [good : Masks, bad : Masks] \subseteq Data
  /\ {[i \in 1 .. SvAllNum |-> <<e, i>>] : e \in {"any", "eph"}} \subseteq Data
<1>1. \A e \in {"any", "eph"} : [i \in 1 .. SvAllNum |-> <<e, i>>] \in Ephemerides
  BY DEF Ephemerides
<1> QED
  BY <1>1 DEF Data

LEMMA SentenceIsOf ==
  ASSUME NEW s \in Sentences
  PROVE  /\ s.name \in {"PQWM1", "PQWP1", "PQWP2", "PQWP3", "PQWP4", "PQWP5", "PQWP6", "PQWP7", "PQWS1"}
         /\ s.name = "PQWM1" => s.short \/ s.data \in TimeData
         /\ s.name # "PQWM1" => s.short \/ s.data \in Data
<1>1. CASE s \in Complete("PQWM1", TimeData)
  BY <1>1 DEF Complete
<1>2. CASE \E name \in {"PQWP1", "PQWP4", "PQWP6", "PQWS1"} : s \in Complete(name, {0, 1})
  BY <1>2, PossibleData DEF Complete
<1>3. CASE s \in Complete("PQWP2", Places)
  BY <1>3, PossibleData DEF Complete
<1>4. CASE s \in Complete("PQWP3", Masks)
  BY <1>4, PossibleData DEF Complete
<1>5. CASE s \in Complete("PQWP5", [good : Masks, bad : Masks])
  BY <1>5, PossibleData DEF Complete
<1>6. CASE s \in Complete("PQWP7", {[i \in 1 .. SvAllNum |-> <<"eph", i>>]})
  <2>1. [i \in 1 .. SvAllNum |-> <<"eph", i>>] \in Data
    BY PossibleData
  <2> QED
    BY <1>6, <2>1 DEF Complete
<1>7. CASE s \in ShortOf({"PQWM1", "PQWP1", "PQWP2", "PQWP3", "PQWP4", "PQWP5", "PQWP6", "PQWP7", "PQWS1"})
  BY <1>7 DEF ShortOf
<1> QED
  BY <1>1, <1>2, <1>3, <1>4, <1>5, <1>6, <1>7 DEF Sentences, TimeData

LEMMA SentenceIsRecording ==
  ASSUME NEW s \in Sentences, NEW r \in Recordings(s)
  PROVE  IsRecording(r)
<1>1. CASE s.name = "PQWM1"
  <2>1. PICK m \in PQWM1(s) : r = TimeReports(m)
    BY <1>1 DEF Recordings
  <2>2. m \in TimeData \cup {NoTime}
    BY <1>1, SentenceIsOf DEF PQWM1
  <2> QED
    BY <2>1, <2>2, TimeIsRecording
<1>2. ASSUME s.name # "PQWM1" PROVE s.short \/ s.data \in Data
  BY <1>2, SentenceIsOf
<1>3. CASE s.name = "PQWP1"
  <2>1. DOMAIN r = {"injectedPosition"} /\ r["injectedPosition"] \in PQWP1(s)
    BY <1>3 DEF Recordings
  <2>2. r["injectedPosition"] \in Data
    BY <1>2, <1>3, <2>1, PossibleData, UninitialisedIsData DEF PQWP1
  <2> QED
    BY <2>1, <2>2, OneIsRecording DEF ReportKinds
<1>4. CASE s.name = "PQWP2"
  <2>1. DOMAIN r = {"bestPosition"} /\ r["bestPosition"] \in PQWP2(s)
    BY <1>4 DEF Recordings
  <2>2. r["bestPosition"] \in Data
    BY <1>2, <1>4, <2>1, PossibleData, UninitialisedIsData DEF PQWP2
  <2> QED
    BY <2>1, <2>2, OneIsRecording DEF ReportKinds
<1>5. CASE s.name = "PQWP3"
  <2>1. DOMAIN r = {"xtra"} /\ r["xtra"] \in PQWP3(s)
    BY <1>5 DEF Recordings
  <2>2. r["xtra"] \in Data
    BY <1>2, <1>5, <2>1, PossibleData, UninitialisedIsData DEF PQWP3
  <2> QED
    BY <2>1, <2>2, OneIsRecording DEF ReportKinds
<1>6. CASE s.name = "PQWP4"
  <2>1. DOMAIN r = {"ephemeris"} /\ r["ephemeris"] \in PQWP4(s)
    BY <1>6 DEF Recordings
  <2>2. r["ephemeris"] \in Data
    BY <1>2, <1>6, <2>1, PossibleData, UninitialisedIsData DEF PQWP4
  <2> QED
    BY <2>1, <2>2, OneIsRecording DEF ReportKinds
<1>7. CASE s.name = "PQWP5"
  <2>1. DOMAIN r = {"svHealth"} /\ r["svHealth"] \in PQWP5(s)
    BY <1>7 DEF Recordings
  <2>2. r["svHealth"] \in Data
    BY <1>2, <1>7, <2>1, PossibleData, UninitialisedIsData DEF PQWP5
  <2> QED
    BY <2>1, <2>2, OneIsRecording DEF ReportKinds
<1>8. CASE s.name = "PQWP6"
  <2>1. DOMAIN r = {"pdr"} /\ r["pdr"] \in PQWP6(s)
    BY <1>8 DEF Recordings
  <2>2. r["pdr"] \in Data
    BY <1>2, <1>8, <2>1, PossibleData, UninitialisedIsData DEF PQWP6
  <2> QED
    BY <2>1, <2>2, OneIsRecording DEF ReportKinds
<1>9. CASE s.name = "PQWP7"
  <2>1. DOMAIN r = {"navData"} /\ r["navData"] \in PQWP7(s)
    BY <1>9 DEF Recordings
  <2>2. r["navData"] \in Data
    BY <1>2, <1>9, <2>1, PossibleData, UninitialisedIsData DEF PQWP7
  <2> QED
    BY <2>1, <2>2, OneIsRecording DEF ReportKinds
<1>10. CASE s.name = "PQWS1"
  <2>1. DOMAIN r = {"positionFailure"} /\ r["positionFailure"] \in PQWS1(s)
    BY <1>10 DEF Recordings
  <2>2. r["positionFailure"] \in Data
    BY <1>2, <1>10, <2>1, PossibleData, UninitialisedIsData DEF PQWS1
  <2> QED
    BY <2>1, <2>2, OneIsRecording DEF ReportKinds
<1> QED
  BY <1>1, <1>3, <1>4, <1>5, <1>6, <1>7, <1>8, <1>9, <1>10, SentenceIsOf

-----------------------------------------------------------------------------
(* The adapter's thread.                                                   *)

LEMMA DefaultIsReport ==
  ASSUME NEW kind \in ReportKinds
  PROVE  /\ Defaults(kind) \subseteq Report
         /\ kind # "location" => (CHOOSE d \in Defaults(kind) : TRUE) \in Defaults(kind)
<1>1. CASE kind = "location"
  <2>1. Defaults(kind) = [valid : {FALSE}, data : Places]
    BY <1>1 DEF Defaults
  <2>2. Places \subseteq Data /\ {FALSE} \subseteq BOOLEAN
    BY PossibleData
  <2>3. [valid : {FALSE}, data : Places] \subseteq [valid : BOOLEAN, data : Data]
    BY <2>2
  <2> QED
    BY <1>1, <2>1, <2>3 DEF Report
<1>2. ASSUME NEW d, Defaults(kind) = {d}, d.data \in Data, d \in Report
      PROVE  Defaults(kind) \subseteq Report /\ (CHOOSE e \in Defaults(kind) : TRUE) \in Defaults(kind)
  BY <1>2
<1>3. ASSUME NEW d \in Data PROVE Valid(d) \in Report /\ Valid(d).data \in Data
  BY DEF Valid, Report
<1>4. CASE kind = "bestPosition"
  <2>1. Defaults(kind) = {[valid |-> FALSE, data |-> Zero]}
    BY <1>4 DEF Defaults
  <2>2. Zero \in Data
    BY DEF Data
  <2>3. [valid |-> FALSE, data |-> Zero] \in Report
    BY <2>2 DEF Report
  <2> QED
    BY <1>4, <2>1, <2>3
<1>5. CASE kind = "timeAndClock"
  <2>1. Defaults(kind) = {Valid([time |-> 0, timeValid |-> FALSE])}
    BY <1>5 DEF Defaults
  <2>2. [time |-> 0, timeValid |-> FALSE] \in Data
    BY DEF Data
  <2> QED
    BY <1>2, <1>3, <2>1, <2>2
<1>6. CASE kind = "svHealth"
  <2>1. Defaults(kind) = {Valid([good |-> {}, bad |-> {}])}
    BY <1>6 DEF Defaults
  <2>2. [good |-> {}, bad |-> {}] \in Data
    <3>1. {} \in Masks
      BY DEF Masks
    <3> QED
      BY <3>1 DEF Data
  <2> QED
    BY <1>2, <1>3, <2>1, <2>2
<1>7. CASE kind = "xtra"
  <2>1. Defaults(kind) = {Valid({})}
    BY <1>7 DEF Defaults
  <2>2. {} \in Data
    BY DEF Data, Masks
  <2> QED
    BY <1>2, <1>3, <2>1, <2>2
<1>8. CASE kind = "navData"
  <2>1. Defaults(kind) = {Valid([i \in 1 .. SvAllNum |-> <<"unknown", i>>])}
    BY <1>8 DEF Defaults
  <2>2. [i \in 1 .. SvAllNum |-> <<"unknown", i>>] \in Ephemerides
    BY DEF Ephemerides
  <2>3. [i \in 1 .. SvAllNum |-> <<"unknown", i>>] \in Data
    BY <2>2 DEF Data
  <2> QED
    BY <1>2, <1>3, <2>1, <2>3
<1>9. CASE kind \notin {"location", "bestPosition", "timeAndClock", "svHealth", "xtra", "navData"}
  <2>1. Defaults(kind) = {Valid(0)}
    BY <1>9 DEF Defaults
  <2>2. 0 \in Data
    BY DEF Data
  <2> QED
    BY <1>2, <1>3, <2>1, <2>2
<1> QED
  BY <1>1, <1>4, <1>5, <1>6, <1>7, <1>8, <1>9

LEMMA DeletionHolds ==
  ASSUME KeptInv, NEW deleteAll, HandleDeletion(deleteAll)
  PROVE  KeptInv'
<1>1. CASE ~deleteAll
  <2>1. UNCHANGED <<reports, last>>
    BY <1>1 DEF HandleDeletion
  <2> QED
    BY <2>1 DEF KeptInv, KeptTypeOK, NewestIsLast, TimedTogether
<1>2. CASE deleteAll
  <2>1. PICK f \in [ReportKinds -> Report] :
          /\ \A kind \in ReportKinds : f[kind] \in Defaults(kind)
          /\ reports' = [kind \in ReportKinds |-> SetDefault(reports[kind], f[kind])]
    <3>1. PICK place \in Defaults("location") :
            reports' = [kind \in ReportKinds |->
                SetDefault(reports[kind],
                    IF kind = "location" THEN place ELSE CHOOSE d \in Defaults(kind) : TRUE)]
      BY <1>2 DEF HandleDeletion
    <3>2. PICK f : f = [kind \in ReportKinds |->
                          IF kind = "location" THEN place ELSE CHOOSE d \in Defaults(kind) : TRUE]
      OBVIOUS
    <3>3. \A kind \in ReportKinds : f[kind] \in Defaults(kind) /\ f[kind] \in Report
      <4> TAKE kind \in ReportKinds
      <4>1. f[kind] = IF kind = "location" THEN place ELSE CHOOSE d \in Defaults(kind) : TRUE
        BY <3>2
      <4>2. f[kind] \in Defaults(kind)
        BY <4>1, DefaultIsReport
      <4> QED
        BY <4>2, DefaultIsReport
    <3>4. f \in [ReportKinds -> Report]
      BY <3>2, <3>3
    <3>5. reports' = [kind \in ReportKinds |-> SetDefault(reports[kind], f[kind])]
      BY <3>1, <3>2
    <3> QED
      BY <3>3, <3>4, <3>5
  <2>2. last' = [kind \in ReportKinds |-> Deleted]
    BY <1>2 DEF HandleDeletion
  <2>3. ASSUME NEW kind \in ReportKinds
        PROVE  /\ reports'[kind] \in Seq(Report) /\ Len(reports'[kind]) <= maxItem
               /\ IsNewest(kind, reports'[kind], Deleted)
    <3>1. reports[kind] \in Seq(Report) /\ Len(reports[kind]) <= maxItem
      BY DEF KeptInv, KeptTypeOK
    <3>2. reports'[kind] = Bounded(Append(reports[kind], f[kind]))
      BY <2>1 DEF SetDefault
    <3>3. f[kind] \in Report /\ f[kind] \in Defaults(kind)
      BY <2>1
    <3>4. reports'[kind] \in Seq(Report) /\ Len(reports'[kind]) <= maxItem /\ Last(reports'[kind]) = f[kind]
      BY <3>1, <3>2, <3>3, BoundedHistory
    <3> QED
      BY <3>3, <3>4 DEF IsNewest
  <2>4. reports' \in [ReportKinds -> Seq(Report)]
    <3>1. reports' = [kind \in ReportKinds |-> reports'[kind]]
      BY <2>1
    <3> QED
      BY <2>3, <3>1
  <2>5. \A kind \in ReportKinds : last'[kind] = Deleted
    BY <2>2
  <2>6. KeptTypeOK'
    BY <2>2, <2>3, <2>4 DEF KeptTypeOK
  <2>7. NewestIsLast'
    BY <2>3, <2>5 DEF NewestIsLast
  <2>8. TimedTogether'
    BY <2>5 DEF TimedTogether, ReportKinds
  <2> QED
    BY <2>6, <2>7, <2>8 DEF KeptInv
<1> QED
  BY <1>1, <1>2

LEMMA PositionHolds ==
  ASSUME KeptInv, NEW status, NEW place \in Places, HandlePosition(status, place)
  PROVE  KeptInv'
<1>1. CASE status \in {"success", "intermediate"}
  <2>1. PICK r : r = [location |-> place]
    OBVIOUS
  <2>2. DOMAIN r = {"location"} /\ r["location"] = place /\ place \in Data
    BY <2>1, PossibleData
  <2>3. IsRecording(r)
    BY <2>2, OneIsRecording DEF ReportKinds
  <2>4. Record(r)
    BY <1>1, <2>1 DEF HandlePosition, RecordPosition
  <2> QED
    BY <2>3, <2>4, RecordHolds
<1>2. CASE status \notin {"success", "intermediate"}
  <2>1. UNCHANGED <<reports, last>>
    BY <1>2 DEF HandlePosition
  <2> QED
    BY <2>1 DEF KeptInv, KeptTypeOK, NewestIsLast, TimedTogether
<1> QED
  BY <1>1, <1>2

-----------------------------------------------------------------------------
(* What the other threads are shown.                                       *)

(* The newest report of a kind that something was said of is what was said.*)
LEMMA NewestSaid ==
  ASSUME KeptInv, NEW kind \in ReportKinds
  PROVE  /\ Newest[kind] # <<>> => Newest[kind][1] \in Report
         /\ IF last[kind] = Deleted
            THEN Newest[kind] = <<>> \/ Newest[kind][1] \in Defaults(kind)
            ELSE Newest[kind] # <<>> /\ Newest[kind][1].data = last[kind][1]
<1>1. Newest[kind] = IF reports[kind] = <<>> THEN <<>> ELSE <<Last(reports[kind])>>
  BY DEF Newest
<1>2. IsNewest(kind, reports[kind], last[kind]) /\ reports[kind] \in Seq(Report)
  BY DEF KeptInv, NewestIsLast, KeptTypeOK
<1>3. reports[kind] # <<>> => Last(reports[kind]) \in Report
  <2>1. SUFFICES ASSUME reports[kind] # <<>> PROVE reports[kind][Len(reports[kind])] \in Report
    BY DEF Last
  <2>2. Len(reports[kind]) \in 1 .. Len(reports[kind])
    BY <1>2, <2>1, EmptySeq, LenProperties
  <2> QED
    BY <1>2, <2>2
<1>4. \A d : <<d>> # <<>> /\ <<d>>[1] = d
  OBVIOUS
<1> QED
  BY <1>1, <1>2, <1>3, <1>4 DEF IsNewest

LEMMA ShownLocation ==
  ASSUME KeptInv, NEW shown, shown = DebugLocation(Newest), shown.valid
  PROVE  \/ /\ shown.of = "location"
            /\ last["location"] # Deleted /\ shown.place = last["location"][1]
         \/ /\ shown.of = "bestPosition"
            /\ last["bestPosition"] # Deleted /\ shown.place = last["bestPosition"][1]
<1>1. "location" \in ReportKinds /\ "bestPosition" \in ReportKinds
  BY DEF ReportKinds
<1>2. CASE Has(Newest["location"])
  <2>1. shown = [valid |-> TRUE, of |-> "location", place |-> Newest["location"][1].data]
    BY <1>2 DEF DebugLocation
  <2>2. last["location"] # Deleted
    <3>1. \A d \in Defaults("location") : ~d.valid
      BY DEF Defaults
    <3> QED
      BY <1>1, <1>2, <3>1, NewestSaid DEF Has
  <2> QED
    BY <1>1, <2>1, <2>2, NewestSaid
<1>3. CASE ~Has(Newest["location"]) /\ Has(Newest["bestPosition"])
  <2>1. shown = [valid |-> TRUE, of |-> "bestPosition", place |-> Newest["bestPosition"][1].data]
    BY <1>3 DEF DebugLocation
  <2>2. last["bestPosition"] # Deleted
    <3>1. \A d \in Defaults("bestPosition") : ~d.valid
      BY DEF Defaults
    <3> QED
      BY <1>1, <1>3, <3>1, NewestSaid DEF Has
  <2> QED
    BY <1>1, <2>1, <2>2, NewestSaid
<1>4. CASE ~Has(Newest["location"]) /\ ~Has(Newest["bestPosition"])
  <2>1. shown = [valid |-> FALSE]
    BY <1>4 DEF DebugLocation
  <2> QED
    BY <2>1
<1> QED
  BY <1>2, <1>3, <1>4

LEMMA ShownTime ==
  ASSUME KeptInv, NEW shown, shown = DebugTime(Newest)
  PROVE  IF last["timeAndClock"] # Deleted /\ last["timeAndClock"][1].timeValid
         THEN shown.valid /\ shown.time = last["timeAndClock"][1].time
         ELSE ~shown.valid
<1>1. "timeAndClock" \in ReportKinds
  BY DEF ReportKinds
<1>2. CASE Newest["timeAndClock"] # <<>> /\ Newest["timeAndClock"][1].data.timeValid
  <2>1. shown = [valid |-> TRUE, time |-> Newest["timeAndClock"][1].data.time]
    BY <1>2 DEF DebugTime
  <2>2. \A d \in Defaults("timeAndClock") : ~d.data.timeValid
    BY DEF Defaults, Valid
  <2>3. last["timeAndClock"] # Deleted
    BY <1>1, <1>2, <2>2, NewestSaid
  <2> QED
    BY <1>1, <1>2, <2>1, <2>3, NewestSaid
<1>3. CASE ~(Newest["timeAndClock"] # <<>> /\ Newest["timeAndClock"][1].data.timeValid)
  <2>1. shown = [valid |-> FALSE]
    BY <1>3 DEF DebugTime
  <2> QED
    BY <1>1, <1>3, <2>1, NewestSaid
<1> QED
  BY <1>2, <1>3

LEMMA ShownSatellite ==
  ASSUME KeptInv, NEW k \in DOMAIN Systems, NEW i \in 1 .. PerSystem
  PROVE  LET sv == PerSystem * (k - 1) + i
             shown == Satellites(Newest, Systems[k])[i]
         IN  /\ shown.ephemeris = IF last["navData"] = Deleted THEN <<"unknown", sv>>
                                  ELSE last["navData"][1][sv]
             /\ shown.health = "good" <=> last["svHealth"] # Deleted /\ sv \in last["svHealth"][1].good
             /\ shown.predicted <=> last["xtra"] # Deleted /\ sv \in last["xtra"][1]
<1>1. "navData" \in ReportKinds /\ "svHealth" \in ReportKinds /\ "xtra" \in ReportKinds
  BY DEF ReportKinds
<1>2. k \in 1 .. 5 /\ Len(Systems) = 5 /\ DOMAIN Systems = 1 .. 5
  BY DEF Systems
<1>3. \A m \in 1 .. 5 : Systems[m] = Systems[k] => m = k
  BY <1>2 DEF Systems
<1>4. (CHOOSE m \in DOMAIN Systems : Systems[m] = Systems[k]) = k
  BY <1>2, <1>3
<1>5. SvidIdx(Systems[k]) = PerSystem * (k - 1)
  BY <1>4 DEF SvidIdx
<1>6. PICK sv : sv = PerSystem * (k - 1) + i
  OBVIOUS
<1>7. sv \in 1 .. SvAllNum
  <2>1. PerSystem \in Nat /\ SvAllNum = PerSystem * 5
    BY <1>2, StatusAssumption DEF SvAllNum
  <2>2. k = 1 \/ k = 2 \/ k = 3 \/ k = 4 \/ k = 5
    BY <1>2
  <2> QED
    BY <1>6, <2>1, <2>2
<1>8. PICK shown : shown = Satellites(Newest, Systems[k])[i]
  OBVIOUS
<1>9. /\ shown.ephemeris = IF Newest["navData"] = <<>> THEN <<"unknown", sv>> ELSE Newest["navData"][1].data[sv]
      /\ shown.health = Health(Newest, sv)
      /\ shown.predicted = (Newest["xtra"] # <<>> /\ sv \in Newest["xtra"][1].data)
  BY <1>5, <1>6, <1>8 DEF Satellites
<1>10. shown.ephemeris = IF last["navData"] = Deleted THEN <<"unknown", sv>> ELSE last["navData"][1][sv]
  <2>1. ASSUME NEW d \in Defaults("navData") PROVE d.data[sv] = <<"unknown", sv>>
    <3>1. d = Valid([n \in 1 .. SvAllNum |-> <<"unknown", n>>])
      BY DEF Defaults
    <3>2. d.data = [n \in 1 .. SvAllNum |-> <<"unknown", n>>]
      BY <3>1 DEF Valid
    <3> QED
      BY <1>7, <3>2
  <2> QED
    BY <1>1, <1>9, <2>1, NewestSaid
<1>11. shown.health = "good" <=> last["svHealth"] # Deleted /\ sv \in last["svHealth"][1].good
  <2>1. ASSUME NEW d \in Defaults("svHealth") PROVE sv \notin d.data.good
    <3>1. d = Valid([good |-> {}, bad |-> {}])
      BY DEF Defaults
    <3>2. d.data.good = {}
      BY <3>1 DEF Valid
    <3> QED
      BY <3>2
  <2>2. Health(Newest, sv) = "good" <=> Newest["svHealth"] # <<>> /\ sv \in Newest["svHealth"][1].data.good
    BY DEF Health
  <2> QED
    BY <1>1, <1>9, <2>1, <2>2, NewestSaid
<1>12. shown.predicted <=> last["xtra"] # Deleted /\ sv \in last["xtra"][1]
  <2>1. ASSUME NEW d \in Defaults("xtra") PROVE sv \notin d.data
    BY DEF Defaults, Valid
  <2>2. shown.predicted <=> Newest["xtra"] # <<>> /\ sv \in Newest["xtra"][1].data
    BY <1>9
  <2> QED
    BY <1>1, <2>1, <2>2, NewestSaid
<1> QED
  BY <1>6, <1>8, <1>10, <1>11, <1>12

(* The answer as the last call gave it.                                    *)
LEMMA DebugReportShows ==
  ASSUME KeptInv, GetDebugReport
  PROVE  DebugShowsLatest' /\ AgcIsOfItsTime'
<1>1. last' = last
  BY DEF GetDebugReport
<1>2. PICK location : location = DebugLocation(Newest)
  OBVIOUS
<1>3. PICK time : time = DebugTime(Newest)
  OBVIOUS
<1>4. PICK satellites : satellites = [k \in DOMAIN Systems |-> Satellites(Newest, Systems[k])]
  OBVIOUS
<1>5. /\ answer'.to = "debug" /\ answer'.location = location /\ answer'.time = time
      /\ answer'.satellites = satellites
  BY <1>2, <1>3, <1>4 DEF GetDebugReport
<1>6. location.valid =>
        CASE location.of = "location" ->
               last["location"] # Deleted /\ location.place = last["location"][1]
          [] location.of = "bestPosition" ->
               last["bestPosition"] # Deleted /\ location.place = last["bestPosition"][1]
  BY <1>2, ShownLocation
<1>7. IF last["timeAndClock"] # Deleted /\ last["timeAndClock"][1].timeValid
      THEN time.valid /\ time.time = last["timeAndClock"][1].time
      ELSE ~time.valid
  BY <1>3, ShownTime
<1>8. \A k \in DOMAIN Systems, i \in 1 .. PerSystem :
        LET sv == PerSystem * (k - 1) + i
            shown == satellites[k][i]
        IN  /\ shown.ephemeris = IF last["navData"] = Deleted THEN <<"unknown", sv>>
                                 ELSE last["navData"][1][sv]
            /\ shown.health = "good" <=> last["svHealth"] # Deleted /\ sv \in last["svHealth"][1].good
            /\ shown.predicted <=> last["xtra"] # Deleted /\ sv \in last["xtra"][1]
  <2> TAKE k \in DOMAIN Systems, i \in 1 .. PerSystem
  <2>1. satellites[k] = Satellites(Newest, Systems[k])
    BY <1>4
  <2> QED
    BY <2>1, ShownSatellite
<1>9. DebugShowsLatest'
  BY <1>1, <1>5, <1>6, <1>7, <1>8 DEF DebugShowsLatest
<1>10. AgcIsOfItsTime'
  BY <1>5 DEF AgcIsOfItsTime
<1> QED
  BY <1>9, <1>10

LEMMA GainIsOfItsTime ==
  ASSUME KeptInv, NEW msInWeek, GetAgcInformation(msInWeek)
  PROVE  DebugShowsLatest' /\ AgcIsOfItsTime'
<1>1. last' = last
  BY DEF GetAgcInformation
<1>2. PICK agc : agc = IF /\ Newest["rfAndParams"] # <<>> /\ Newest["timeAndClock"] # <<>>
                          /\ Newest["timeAndClock"][1].data.time - msInWeek \in (-Near + 1) .. (Near - 1)
                       THEN <<Newest["rfAndParams"][1].data>> ELSE <<>>
  OBVIOUS
<1>3. answer'.to = "measurement" /\ answer'.ms = msInWeek /\ answer'.agc = agc
  BY <1>2 DEF GetAgcInformation
<1>4. "timeAndClock" \in ReportKinds /\ "rfAndParams" \in ReportKinds
  BY DEF ReportKinds
<1>5. ASSUME agc # <<>>
      PROVE  IF last["timeAndClock"] = Deleted THEN agc = <<0>>
             ELSE /\ agc = last["rfAndParams"]
                  /\ last["timeAndClock"][1].time - msInWeek \in (-Near + 1) .. (Near - 1)
  <2>1. /\ Newest["rfAndParams"] # <<>> /\ Newest["timeAndClock"] # <<>>
        /\ Newest["timeAndClock"][1].data.time - msInWeek \in (-Near + 1) .. (Near - 1)
        /\ agc = <<Newest["rfAndParams"][1].data>>
    BY <1>2, <1>5
  <2>2. CASE last["timeAndClock"] = Deleted
    <3>1. last["rfAndParams"] = Deleted
      BY <2>2 DEF KeptInv, TimedTogether
    <3>2. Newest["rfAndParams"][1] \in Defaults("rfAndParams")
      BY <1>4, <2>1, <3>1, NewestSaid
    <3>3. Newest["rfAndParams"][1].data = 0
      BY <3>2 DEF Defaults, Valid
    <3> QED
      BY <2>1, <2>2, <3>3
  <2>3. CASE last["timeAndClock"] # Deleted
    <3>1. last["rfAndParams"] # Deleted
      BY <2>3 DEF KeptInv, TimedTogether
    <3>2. /\ Newest["timeAndClock"][1].data = last["timeAndClock"][1]
          /\ Newest["rfAndParams"][1].data = last["rfAndParams"][1]
      BY <1>4, <2>3, <3>1, NewestSaid
    <3>3. last["rfAndParams"] \in {<<d>> : d \in Data}
      BY <1>4, <3>1 DEF KeptInv, KeptTypeOK
    <3>4. last["rfAndParams"] = <<last["rfAndParams"][1]>>
      BY <3>3
    <3> QED
      BY <2>1, <2>3, <3>2, <3>4
  <2> QED
    BY <2>2, <2>3
<1>6. AgcIsOfItsTime'
  BY <1>1, <1>3, <1>5 DEF AgcIsOfItsTime
<1>7. DebugShowsLatest'
  BY <1>3 DEF DebugShowsLatest
<1> QED
  BY <1>6, <1>7

-----------------------------------------------------------------------------
(* All of it.                                                              *)

Shown == DebugShowsLatest /\ AgcIsOfItsTime

LEMMA NothingShown ==
  ASSUME answer' = NoAnswer \/ answer' = [to |-> "clients"]
  PROVE  Shown'
<1>1. answer'.to \notin {"debug", "measurement"}
  BY DEF NoAnswer
<1> QED
  BY <1>1 DEF Shown, DebugShowsLatest, AgcIsOfItsTime

LEMMA KeptStays ==
  ASSUME KeptInv, UNCHANGED <<reports, last>>
  PROVE  KeptInv'
BY DEF KeptInv, KeptTypeOK, NewestIsLast, TimedTogether

LEMMA KeptStarts ==
  ASSUME KeptInit
  PROVE  KeptInv /\ Shown
<1>1. answer.to \notin {"debug", "measurement"}
  BY DEF KeptInit, NoAnswer
<1>2. Shown
  BY <1>1 DEF Shown, DebugShowsLatest, AgcIsOfItsTime
<1>3. \A kind \in ReportKinds : reports[kind] = <<>> /\ last[kind] = Deleted
  BY DEF KeptInit
<1>4. reports \in [ReportKinds -> Seq(Report)] /\ last \in [ReportKinds -> {Deleted} \cup {<<d>> : d \in Data}]
  <2>1. <<>> \in Seq(Report)
    BY EmptySeq
  <2> QED
    BY <2>1 DEF KeptInit
<1>5. \A kind \in ReportKinds : Len(reports[kind]) <= maxItem
  <2>1. Len(<<>>) = 0 /\ 0 <= maxItem
    BY StatusAssumption, EmptySeq
  <2> QED
    BY <1>3, <2>1
<1>6. KeptTypeOK
  BY <1>4, <1>5 DEF KeptTypeOK
<1>7. NewestIsLast
  BY <1>3 DEF NewestIsLast, IsNewest
<1>8. TimedTogether
  BY <1>3 DEF TimedTogether, ReportKinds
<1> QED
  BY <1>2, <1>6, <1>7, <1>8 DEF KeptInv

LEMMA CallHolds ==
  ASSUME NEW names, KeptInv, ReportsCall(names)
  PROVE  KeptInv' /\ Shown'
<1>1. CASE \E s \in Sentences : s.name \in names /\ HandleSentence(s)
  <2>1. PICK s \in Sentences : HandleSentence(s)
    BY <1>1
  <2>2. PICK r \in Recordings(s) : Record(r)
    BY <2>1 DEF HandleSentence, RecordSentence
  <2>3. answer' = NoAnswer
    BY <2>1 DEF HandleSentence
  <2> QED
    BY <2>2, <2>3, NothingShown, RecordHolds, SentenceIsRecording
<1>2. CASE \E debug \in BOOLEAN : OtherSentence(debug)
  <2>1. UNCHANGED <<reports, last>> /\ (answer' = NoAnswer \/ answer' = [to |-> "clients"])
    BY <1>2 DEF OtherSentence
  <2> QED
    BY <2>1, KeptStays, NothingShown
<1>3. CASE \E status \in {"success", "intermediate", "failure"}, place \in Places : HandlePosition(status, place)
  <2>1. answer' = NoAnswer
    BY <1>3 DEF HandlePosition
  <2> QED
    BY <1>3, <2>1, NothingShown, PositionHolds
<1>4. CASE \E deleteAll \in BOOLEAN : HandleDeletion(deleteAll)
  <2>1. answer' = NoAnswer
    BY <1>4 DEF HandleDeletion
  <2> QED
    BY <1>4, <2>1, DeletionHolds, NothingShown
<1>5. CASE GetDebugReport
  <2>1. UNCHANGED <<reports, last>>
    BY <1>5 DEF GetDebugReport
  <2> QED
    BY <1>5, <2>1, DebugReportShows, KeptStays DEF Shown
<1>6. CASE \E ms \in {0, Near, 2 * Near} : GetAgcInformation(ms)
  <2>1. UNCHANGED <<reports, last>>
    BY <1>6 DEF GetAgcInformation
  <2> QED
    BY <1>6, <2>1, GainIsOfItsTime, KeptStays DEF Shown
<1> QED
  BY <1>1, <1>2, <1>3, <1>4, <1>5, <1>6 DEF ReportsCall

(* For any places and satellites and any length of the histories, the      *)
(* newest report of each kind is what was said last of it, or the default  *)
(* that a deletion left; no history grows beyond its limit.                *)
THEOREM KeptHolds ==
  ASSUME NEW CONSTANT names
  PROVE  KeptSpec(names) => [](KeptInv /\ Shown)
<1>1. KeptInit => KeptInv /\ Shown
  BY KeptStarts
<1>2. KeptInv /\ Shown /\ [KeptNext(names)]_keptVars => (KeptInv /\ Shown)'
  <2> SUFFICES ASSUME KeptInv, Shown, [KeptNext(names)]_keptVars PROVE KeptInv' /\ Shown'
    OBVIOUS
  <2>1. CASE KeptNext(names) /\ answer = NoAnswer
    BY <2>1, CallHolds DEF KeptNext
  <2>2. CASE KeptNext(names) /\ answer # NoAnswer
    <3>1. UNCHANGED <<reports, last>> /\ answer' = NoAnswer
      BY <2>2 DEF KeptNext, Answered
    <3> QED
      BY <3>1, KeptStays, NothingShown
  <2>3. CASE UNCHANGED keptVars
    <3>1. UNCHANGED <<reports, last>> /\ answer' = answer
      BY <2>3 DEF keptVars
    <3> QED
      BY <3>1, KeptStays DEF Shown, DebugShowsLatest, AgcIsOfItsTime
  <2> QED
    BY <2>1, <2>2, <2>3
<1> QED
  BY <1>1, <1>2, PTL DEF KeptSpec

(* What the framework's debug report shows was said since all was deleted, *)
(* and last.                                                               *)
THEOREM DebugReportIsLatest ==
  ASSUME NEW CONSTANT names
  PROVE  KeptSpec(names) => []DebugShowsLatest
<1>1. KeptInv /\ Shown => DebugShowsLatest
  BY DEF Shown
<1> QED
  BY <1>1, KeptHolds, PTL

(* A measurement is given the gain of the sentence whose time is near it.  *)
THEOREM GainIsMatched ==
  ASSUME NEW CONSTANT names
  PROVE  KeptSpec(names) => []AgcIsOfItsTime
<1>1. KeptInv /\ Shown => AgcIsOfItsTime
  BY DEF Shown
<1> QED
  BY <1>1, KeptHolds, PTL

-----------------------------------------------------------------------------
(***************************************************************************)
(* The socket to the daemon, for any number of messages, of parts and of   *)
(* datagrams that a socket holds.                                          *)
(***************************************************************************)

Datagrams == [kind : {"short", "head", "part", "abort"}, msg : Nat, part : Nat]
Reading == [msg : Nat, got : Seq(Datagrams)]

IpcTypeOK ==
  /\ ipc \in [fd : BOOLEAN, stopRequested : BOOLEAN, runnable : BOOLEAN]
  /\ socket \in [named : BOOLEAN, open : BOOLEAN, queue : Seq(Datagrams)]
  /\ listener \in [at : {"none", "start", "bound", "receive", "waiting", "ended"},
                   reading : Reading, swallowed : BOOLEAN]
  /\ owner \in [at : {"idle", "started", "abort", "close", "unlink", "stopped"}, sawReady : BOOLEAN]
  /\ sender \in [sent : Nat, taken : Seq(Nat), todo : Seq(Datagrams)]
  /\ received \in Seq(Nat)

(* How far the listener is, by what its owner has done and the socket is.  *)
Unstopped == owner.at \in {"idle", "started"}
Listens == listener.at \in {"receive", "waiting"}

ListenerInStep ==
  /\ owner.at = "idle" => listener.at = "none"
  /\ Unstopped => ~owner.sawReady /\ (ipc.runnable <=> owner.at = "started")
  /\ Unstopped /\ ~socket.named => socket.queue = <<>>
  /\ Unstopped /\ listener.at \in {"none", "start"} => ~socket.named
  /\ owner.at # "stopped" /\ (listener.at = "bound" \/ Listens) => socket.named
  /\ ipc.fd => Listens \/ listener.at = "ended"
  /\ owner.sawReady => Listens \/ listener.at = "ended"
  /\ owner.at = "abort" /\ owner.sawReady => ipc.runnable
  /\ listener.at \in {"none", "start", "bound"} => listener.reading = NoMessage

(* The message that ends the listener is in its socket.                    *)
AbortWaits ==
  owner.at \in {"close", "unlink", "stopped"} /\ owner.sawReady /\ ~listener.swallowed /\ Listens =>
    \E i \in 1 .. Len(socket.queue) : socket.queue[i] = Abort

(* A stream of datagrams that is whole messages, but for the first, of     *)
(* which parts were read.                                                  *)
Starts(d) == d.kind \in {"short", "head"} /\ d.part = 0
IsPart(d, m, p) == d.kind = "part" /\ d.msg = m /\ d.part = p
Proper(d) == d.msg # 0 /\ (Starts(d) \/ (d.kind = "part" /\ d.part \in 1 .. Parts))
Ends(d) == d.kind = "short" \/ d.part = Parts
Follows(a, b) == IF Ends(a) THEN Starts(b) ELSE IsPart(b, a.msg, a.part + 1)

WellSent(q, n) ==
  /\ \A i \in 1 .. Len(q) : Proper(q[i]) /\ q[i].msg <= n
  /\ \A i \in 1 .. Len(q) : i + 1 \in 1 .. Len(q) => Follows(q[i], q[i + 1])
  /\ \A i, j \in 1 .. Len(q) : i < j => q[i].msg <= q[j].msg /\ (Ends(q[i]) => q[i].msg < q[j].msg)
  /\ Len(q) # 0 => Ends(q[Len(q)])

Expects(q, reading) ==
  IF reading = NoMessage THEN Len(q) # 0 => Starts(q[1])
  ELSE Len(q) # 0 /\ IsPart(q[1], reading.msg, Len(reading.got) + 1)

Stream == socket.queue \o sender.todo
StreamIsWhole ==
  Unstopped =>
    /\ WellSent(Stream, sender.sent)
    /\ \A i \in 1 .. Len(sender.todo) : sender.todo[i].msg = sender.sent
    /\ listener.at # "ended" => Expects(Stream, listener.reading)
    /\ listener.reading # NoMessage =>
         \A i \in 1 .. Len(listener.reading.got) :
           IsPart(listener.reading.got[i], listener.reading.msg, i)

(* The messages that the socket took whole are those received, in their    *)
(* order, and those whose end is in the queue.                             *)
TakenInOrder ==
  /\ \A i, j \in 1 .. Len(sender.taken) : i < j => sender.taken[i] < sender.taken[j]
  /\ \A i \in 1 .. Len(sender.taken) :
       sender.taken[i] <= sender.sent /\ (sender.todo # <<>> => sender.taken[i] < sender.sent)
  /\ Len(received) <= Len(sender.taken)
  /\ \A i \in 1 .. Len(received) : received[i] = sender.taken[i]
EndsAreBehind(n, taken, q) ==
  /\ \A k \in 1 .. Len(taken) : n < k => \E i \in 1 .. Len(q) : Ends(q[i]) /\ q[i].msg = taken[k]
  /\ \A i \in 1 .. Len(q) : Ends(q[i]) => \E k \in 1 .. Len(taken) : n < k /\ taken[k] = q[i].msg
EndsAreTaken == EndsAreBehind(Len(received), sender.taken, socket.queue)

IpcInv ==
  /\ IpcTypeOK /\ ListenerInStep /\ AbortWaits /\ StreamIsWhole
  /\ Unstopped => TakenInOrder
  /\ Unstopped /\ listener.at # "ended" => EndsAreTaken

-----------------------------------------------------------------------------
(* The stream.                                                             *)

LEMMA DatagramTypes ==
  ASSUME NEW m \in Nat \ {0}
  PROVE  /\ Abort \in Datagrams /\ Whole(m) \in Datagrams /\ HeadOf(m) \in Datagrams
         /\ Proper(Whole(m)) /\ Starts(Whole(m)) /\ Ends(Whole(m)) /\ Whole(m).msg = m
         /\ Proper(HeadOf(m)) /\ Starts(HeadOf(m)) /\ ~Ends(HeadOf(m)) /\ HeadOf(m).msg = m
         /\ ~Proper(Abort)
         /\ \A p \in 1 .. Parts : Part(m, p) \in Datagrams /\ Proper(Part(m, p)) /\ IsPart(Part(m, p), m, p)
BY PartsAssumption DEF Datagrams, Abort, Whole, HeadOf, Part, Proper, Starts, Ends, IsPart

LEMMA PartIsPart ==
  ASSUME NEW d \in Datagrams, NEW m \in Nat, NEW p \in Nat, IsPart(d, m, p)
  PROVE  d = Part(m, p) /\ d # Abort
BY DEF Datagrams, IsPart, Part, Abort

(* What is read next to the end of the stream.                             *)
LEMMA StreamWithoutFirst ==
  ASSUME NEW n \in Nat, NEW q \in Seq(Datagrams), q # <<>>, WellSent(q, n)
  PROVE  /\ WellSent(Tail(q), n)
         /\ IF Ends(q[1]) THEN Len(Tail(q)) # 0 => Starts(Tail(q)[1])
            ELSE Len(Tail(q)) # 0 /\ IsPart(Tail(q)[1], q[1].msg, q[1].part + 1)
<1> DEFINE t == Tail(q)
<1>1. Len(q) \in Nat \ {0}
  BY EmptySeq
<1>2. t \in Seq(Datagrams) /\ Len(t) = Len(q) - 1 /\ \A i \in 1 .. Len(t) : t[i] = q[i + 1]
  BY HeadTailProperties
<1> HIDE DEF t
<1>3. \A i \in 1 .. Len(t) : i + 1 \in 1 .. Len(q) /\ i \in 1 .. Len(q) /\ t[i] = q[i + 1]
  BY <1>1, <1>2
<1>4. WellSent(t, n)
  <2>1. \A i \in 1 .. Len(t) : Proper(t[i]) /\ t[i].msg <= n
    BY <1>3 DEF WellSent
  <2>2. \A i \in 1 .. Len(t) : i + 1 \in 1 .. Len(t) => Follows(t[i], t[i + 1])
    <3> SUFFICES ASSUME NEW i \in 1 .. Len(t), i + 1 \in 1 .. Len(t)
                 PROVE  Follows(t[i], t[i + 1])
      OBVIOUS
    <3>1. t[i] = q[i + 1] /\ t[i + 1] = q[(i + 1) + 1]
      BY <1>3
    <3>2. i + 1 \in 1 .. Len(q) /\ (i + 1) + 1 \in 1 .. Len(q)
      BY <1>3
    <3> QED
      BY <3>1, <3>2 DEF WellSent
  <2>3. \A i, j \in 1 .. Len(t) : i < j => t[i].msg <= t[j].msg /\ (Ends(t[i]) => t[i].msg < t[j].msg)
    <3> SUFFICES ASSUME NEW i \in 1 .. Len(t), NEW j \in 1 .. Len(t), i < j
                 PROVE  t[i].msg <= t[j].msg /\ (Ends(t[i]) => t[i].msg < t[j].msg)
      OBVIOUS
    <3>1. t[i] = q[i + 1] /\ t[j] = q[j + 1] /\ i + 1 \in 1 .. Len(q) /\ j + 1 \in 1 .. Len(q)
      BY <1>3
    <3>2. i + 1 < j + 1
      BY <1>2
    <3> QED
      BY <3>1, <3>2 DEF WellSent
  <2>4. Len(t) # 0 => Ends(t[Len(t)])
    <3> HAVE Len(t) # 0
    <3>1. Len(t) \in 1 .. Len(t) /\ Len(t) + 1 = Len(q)
      BY <1>1, <1>2
    <3>2. t[Len(t)] = q[Len(q)]
      BY <1>3, <3>1
    <3> QED
      BY <1>1, <3>2 DEF WellSent
  <2> QED
    BY <2>1, <2>2, <2>3, <2>4 DEF WellSent
<1>5. Len(t) # 0 => Follows(q[1], t[1])
  <2> HAVE Len(t) # 0
  <2>1. 1 \in 1 .. Len(t) /\ t[1] = q[1 + 1] /\ 1 \in 1 .. Len(q) /\ 1 + 1 \in 1 .. Len(q)
    BY <1>1, <1>2
  <2> QED
    BY <2>1 DEF WellSent
<1>6. ~Ends(q[1]) => Len(t) # 0
  <2> SUFFICES ASSUME Len(t) = 0 PROVE Ends(q[1])
    OBVIOUS
  <2>1. Len(q) = 1
    BY <1>1, <1>2
  <2> QED
    BY <2>1 DEF WellSent
<1> QED
  BY <1>4, <1>5, <1>6 DEF Follows, t

(* A message is put behind it.                                             *)
LEMMA MessageIsWellSent ==
  ASSUME NEW m \in Nat \ {0}, NEW s \in {Short(m), Long(m)}
  PROVE  /\ s \in Seq(Datagrams) /\ Len(s) # 0 /\ Starts(s[1]) /\ WellSent(s, m)
         /\ \A i \in 1 .. Len(s) : s[i].msg = m
<1>1. CASE s = Short(m)
  <2>1. s = <<Whole(m)>>
    BY <1>1 DEF Short
  <2>2. s \in Seq(Datagrams) /\ Len(s) = 1 /\ s[1] = Whole(m)
    BY <2>1, DatagramTypes
  <2>3. \A i \in 1 .. Len(s) : i = 1 /\ s[i] = Whole(m)
    BY <2>2
  <2> HIDE DEF Whole, Ends, Proper, Starts, Follows
  <2> QED
    BY <2>2, <2>3, DatagramTypes DEF WellSent
<1>2. CASE s = Long(m)
  <2>0. Parts \in Nat \ {0}
    BY PartsAssumption
  <2>1. s = [i \in 1 .. Parts + 1 |-> IF i = 1 THEN HeadOf(m) ELSE Part(m, i - 1)]
    BY <1>2 DEF Long
  <2>2. \A i \in 1 .. Parts + 1 : s[i] = IF i = 1 THEN HeadOf(m) ELSE Part(m, i - 1)
    BY <2>1
  <2>3. \A i \in 1 .. Parts + 1 : i # 1 => i - 1 \in 1 .. Parts
    BY <2>0
  <2>4. \A i \in 1 .. Parts + 1 : s[i] \in Datagrams /\ Proper(s[i]) /\ s[i].msg = m
    <3> TAKE i \in 1 .. Parts + 1
    <3>1. CASE i = 1
      BY <2>2, <3>1, DatagramTypes
    <3>2. CASE i # 1
      <4>1. i - 1 \in 1 .. Parts /\ s[i] = Part(m, i - 1)
        BY <2>2, <2>3, <3>2
      <4>2. IsPart(s[i], m, i - 1) /\ s[i] \in Datagrams /\ Proper(s[i])
        BY <4>1, DatagramTypes
      <4> QED
        BY <4>2 DEF IsPart
    <3> QED
      BY <3>1, <3>2
  <2>5. s \in Seq(Datagrams) /\ Len(s) = Parts + 1
    <3>1. s = [i \in 1 .. Parts + 1 |-> s[i]]
      BY <2>1
    <3>2. Parts + 1 \in Nat
      BY <2>0
    <3>3. s \in [1 .. Parts + 1 -> Datagrams]
      BY <2>4, <3>1
    <3> QED
      BY <3>2, <3>3, LenProperties
  <2>6. \A i \in 1 .. Parts + 1 : Ends(s[i]) <=> i = Parts + 1
    <3> TAKE i \in 1 .. Parts + 1
    <3>1. CASE i = 1
      BY <2>0, <2>2, <3>1, DatagramTypes
    <3>2. CASE i # 1
      <4>1. i - 1 \in 1 .. Parts /\ s[i] = Part(m, i - 1)
        BY <2>2, <2>3, <3>2
      <4>2. IsPart(s[i], m, i - 1)
        BY <4>1, DatagramTypes
      <4> QED
        BY <2>0, <4>2 DEF IsPart, Ends
    <3> QED
      BY <3>1, <3>2
  <2>7. \A i \in 1 .. Parts + 1 : i + 1 \in 1 .. Parts + 1 => IsPart(s[i + 1], m, i) /\ s[i].part + 1 = i
    <3> SUFFICES ASSUME NEW i \in 1 .. Parts + 1, i + 1 \in 1 .. Parts + 1
                 PROVE  IsPart(s[i + 1], m, i) /\ s[i].part + 1 = i
      OBVIOUS
    <3>1. s[i + 1] = Part(m, i) /\ i \in 1 .. Parts
      BY <2>0, <2>2
    <3>2. IsPart(s[i + 1], m, i)
      BY <3>1, DatagramTypes
    <3>3. s[i].part = i - 1
      <4>1. CASE i = 1
        BY <2>0, <2>2, <4>1 DEF HeadOf
      <4>2. CASE i # 1
        <5>1. IsPart(s[i], m, i - 1)
          BY <2>2, <2>3, <4>2, DatagramTypes
        <5> QED
          BY <5>1 DEF IsPart
      <4> QED
        BY <4>1, <4>2
    <3> QED
      BY <3>2, <3>3
  <2>8. \A i \in 1 .. Len(s) : i + 1 \in 1 .. Len(s) => Follows(s[i], s[i + 1])
    <3> SUFFICES ASSUME NEW i \in 1 .. Parts + 1, i + 1 \in 1 .. Parts + 1
                 PROVE  Follows(s[i], s[i + 1])
      BY <2>5
    <3>1. ~Ends(s[i])
      BY <2>0, <2>6
    <3>2. IsPart(s[i + 1], s[i].msg, s[i].part + 1)
      BY <2>4, <2>7
    <3> QED
      BY <3>1, <3>2 DEF Follows
  <2>9. 1 \in 1 .. Parts + 1 /\ Parts + 1 \in 1 .. Parts + 1 /\ Starts(s[1])
    BY <2>0, <2>2, DatagramTypes
  <2>10. \A i, j \in 1 .. Len(s) : i < j => s[i].msg <= s[j].msg /\ (Ends(s[i]) => s[i].msg < s[j].msg)
    <3> SUFFICES ASSUME NEW i \in 1 .. Parts + 1, NEW j \in 1 .. Parts + 1, i < j
                 PROVE  s[i].msg = s[j].msg /\ s[i].msg = m /\ ~Ends(s[i])
      BY <2>5
    <3>1. i # Parts + 1
      BY <2>0
    <3> QED
      BY <2>4, <2>6, <3>1
  <2>11. Ends(s[Len(s)])
    BY <2>5, <2>6, <2>9
  <2>12. \A i \in 1 .. Len(s) : Proper(s[i]) /\ s[i].msg <= m
    BY <2>4, <2>5
  <2>13. WellSent(s, m)
    <3> HIDE DEF Proper, Follows, Ends
    <3> QED
      BY <2>8, <2>10, <2>11, <2>12 DEF WellSent
  <2>14. Len(s) # 0
    BY <2>0, <2>5
  <2> QED
    BY <2>4, <2>5, <2>9, <2>13, <2>14
<1> QED
  BY <1>1, <1>2

LEMMA StreamWithMessage ==
  ASSUME NEW n \in Nat, NEW q \in Seq(Datagrams), WellSent(q, n),
         NEW m \in Nat, n < m, NEW s \in Seq(Datagrams), WellSent(s, m),
         Len(s) # 0, Starts(s[1]), \A i \in 1 .. Len(s) : s[i].msg = m
  PROVE  /\ WellSent(q \o s, m)
         /\ \A reading : Expects(q, reading) => Expects(q \o s, reading)
<1> DEFINE t == q \o s
<1>1. /\ Len(q) \in Nat /\ Len(s) \in Nat \ {0}
      /\ t \in Seq(Datagrams) /\ Len(t) = Len(q) + Len(s)
      /\ \A i \in 1 .. Len(t) : t[i] = IF i <= Len(q) THEN q[i] ELSE s[i - Len(q)]
  BY ConcatProperties, LenProperties
<1> HIDE DEF t
<1>2. \A i \in 1 .. Len(t) : IF i <= Len(q) THEN i \in 1 .. Len(q) /\ t[i] = q[i]
                             ELSE i - Len(q) \in 1 .. Len(s) /\ t[i] = s[i - Len(q)]
  BY <1>1
<1>3. \A i \in 1 .. Len(q) : q[i].msg \in Nat /\ q[i].msg <= n
  <2> TAKE i \in 1 .. Len(q)
  <2>1. q[i] \in Datagrams
    BY ElementOfSeq
  <2> QED
    BY <2>1 DEF WellSent, Datagrams
<1>4. \A i \in 1 .. Len(t) : Proper(t[i]) /\ t[i].msg <= m
  <2> TAKE i \in 1 .. Len(t)
  <2>1. CASE i <= Len(q)
    <3>1. t[i] = q[i] /\ i \in 1 .. Len(q)
      BY <1>2, <2>1
    <3>2. Proper(q[i]) /\ q[i].msg \in Nat /\ q[i].msg <= n
      BY <1>3, <3>1 DEF WellSent
    <3> QED
      BY <3>1, <3>2
  <2>2. CASE ~(i <= Len(q))
    <3>1. i - Len(q) \in 1 .. Len(s) /\ t[i] = s[i - Len(q)]
      BY <1>2, <2>2
    <3> QED
      BY <3>1 DEF WellSent
  <2> QED
    BY <2>1, <2>2
<1>5. \A i \in 1 .. Len(t) : i + 1 \in 1 .. Len(t) => Follows(t[i], t[i + 1])
  <2> SUFFICES ASSUME NEW i \in 1 .. Len(t), i + 1 \in 1 .. Len(t)
               PROVE  Follows(t[i], t[i + 1])
    OBVIOUS
  <2>1. CASE i + 1 <= Len(q)
    <3>1. i \in 1 .. Len(q) /\ i + 1 \in 1 .. Len(q) /\ t[i] = q[i] /\ t[i + 1] = q[i + 1]
      BY <1>1, <1>2, <2>1
    <3> QED
      BY <3>1 DEF WellSent
  <2>2. CASE i = Len(q)
    <3>0. Len(q) # 0 /\ i <= Len(q) /\ ~(i + 1 <= Len(q)) /\ (i + 1) - Len(q) = 1
      BY <1>1, <2>2
    <3>1. t[i] = q[Len(q)] /\ t[i + 1] = s[1] /\ Len(q) # 0
      BY <1>2, <2>2, <3>0
    <3>2. Ends(t[i]) /\ Starts(t[i + 1])
      BY <3>1 DEF WellSent
    <3> QED
      BY <3>2 DEF Follows
  <2>3. CASE i > Len(q)
    <3> DEFINE k == i - Len(q)
    <3>1. k \in 1 .. Len(s) /\ k + 1 \in 1 .. Len(s) /\ t[i] = s[k] /\ t[i + 1] = s[k + 1]
      <4>1. ~(i <= Len(q)) /\ ~(i + 1 <= Len(q)) /\ (i + 1) - Len(q) = k + 1
        BY <1>1, <2>3
      <4>2. k \in 1 .. Len(s) /\ t[i] = s[k]
        BY <1>2, <4>1
      <4>3. (i + 1) - Len(q) \in 1 .. Len(s) /\ t[i + 1] = s[(i + 1) - Len(q)]
        BY <1>2, <4>1
      <4> QED
        BY <4>1, <4>2, <4>3
    <3> HIDE DEF k
    <3> QED
      BY <3>1 DEF WellSent
  <2> QED
    BY <1>1, <2>1, <2>2, <2>3
<1>6. \A i, j \in 1 .. Len(t) : i < j => t[i].msg <= t[j].msg /\ (Ends(t[i]) => t[i].msg < t[j].msg)
  <2> SUFFICES ASSUME NEW i \in 1 .. Len(t), NEW j \in 1 .. Len(t), i < j
               PROVE  t[i].msg <= t[j].msg /\ (Ends(t[i]) => t[i].msg < t[j].msg)
    OBVIOUS
  <2>1. CASE j <= Len(q)
    <3>1. i \in 1 .. Len(q) /\ j \in 1 .. Len(q) /\ t[i] = q[i] /\ t[j] = q[j]
      BY <1>1, <1>2, <2>1
    <3> QED
      BY <3>1 DEF WellSent
  <2>2. CASE i <= Len(q) /\ ~(j <= Len(q))
    <3>1. i \in 1 .. Len(q) /\ t[i] = q[i] /\ j - Len(q) \in 1 .. Len(s) /\ t[j] = s[j - Len(q)]
      BY <1>1, <1>2, <2>2
    <3>2. t[i].msg \in Nat /\ t[i].msg <= n /\ t[j].msg = m
      BY <1>3, <3>1
    <3> QED
      BY <3>2
  <2>3. CASE ~(i <= Len(q)) /\ ~(j <= Len(q))
    <3> DEFINE k == i - Len(q)
    <3> DEFINE l == j - Len(q)
    <3>1. k \in 1 .. Len(s) /\ l \in 1 .. Len(s) /\ t[i] = s[k] /\ t[j] = s[l] /\ k < l
      BY <1>1, <1>2, <2>3
    <3> HIDE DEF k, l
    <3> QED
      BY <3>1 DEF WellSent
  <2> QED
    BY <1>1, <2>1, <2>2, <2>3
<1>7. Ends(t[Len(t)])
  <2>1. Len(t) \in 1 .. Len(t) /\ ~(Len(t) <= Len(q)) /\ Len(t) - Len(q) = Len(s)
    BY <1>1
  <2>2. t[Len(t)] = s[Len(s)]
    BY <1>2, <2>1
  <2> QED
    BY <2>2 DEF WellSent
<1>8. ASSUME NEW reading, Expects(q, reading)
      PROVE  Expects(t, reading)
  <2>1. CASE Len(q) = 0
    <3>1. 1 \in 1 .. Len(t) /\ t[1] = s[1]
      BY <1>1, <2>1
    <3> QED
      BY <1>8, <2>1, <3>1 DEF Expects
  <2>2. CASE Len(q) # 0
    <3>1. t[1] = q[1] /\ Len(t) # 0
      BY <1>1, <2>2
    <3> QED
      BY <1>8, <2>2, <3>1 DEF Expects
  <2> QED
    BY <2>1, <2>2
<1> QED
  BY <1>4, <1>5, <1>6, <1>7, <1>8 DEF WellSent, t

(* What a datagram that leaves one end for the other leaves the same.      *)
LEMMA SentOfStream ==
  ASSUME NEW q \in Seq(Datagrams), NEW t \in Seq(Datagrams), t # <<>>
  PROVE  Append(q, Head(t)) \o Tail(t) = q \o t
<1> DEFINE a == Append(q, Head(t))
<1>1. Head(t) \in Datagrams /\ Tail(t) \in Seq(Datagrams) /\ Len(Tail(t)) = Len(t) - 1
      /\ \A i \in 1 .. Len(Tail(t)) : Tail(t)[i] = t[i + 1]
  BY HeadTailProperties
<1>2. a \in Seq(Datagrams) /\ Len(a) = Len(q) + 1
      /\ \A i \in 1 .. Len(a) : a[i] = IF i <= Len(q) THEN q[i] ELSE t[1]
  BY <1>1
<1> HIDE DEF a
<1>3. /\ a \o Tail(t) \in Seq(Datagrams) /\ Len(a \o Tail(t)) = Len(a) + Len(Tail(t))
      /\ \A i \in 1 .. Len(a) + Len(Tail(t)) : (a \o Tail(t))[i] =
            IF i <= Len(a) THEN a[i] ELSE Tail(t)[i - Len(a)]
  BY <1>1, <1>2, ConcatProperties
<1>4. /\ q \o t \in Seq(Datagrams) /\ Len(q \o t) = Len(q) + Len(t)
      /\ \A i \in 1 .. Len(q) + Len(t) : (q \o t)[i] = IF i <= Len(q) THEN q[i] ELSE t[i - Len(q)]
  BY ConcatProperties
<1>5. Len(q) \in Nat /\ Len(t) \in Nat \ {0}
  BY EmptySeq, LenProperties
<1>6. Len(a \o Tail(t)) = Len(q \o t)
  BY <1>1, <1>2, <1>3, <1>4, <1>5
<1>7. ASSUME NEW i \in 1 .. Len(q \o t)
      PROVE  (a \o Tail(t))[i] = (q \o t)[i]
  <2>0. i \in 1 .. Len(q) + Len(t) /\ i \in 1 .. Len(a) + Len(Tail(t))
    BY <1>1, <1>2, <1>4, <1>5
  <2>1. CASE i <= Len(q)
    BY <1>2, <1>3, <1>4, <1>5, <2>0, <2>1
  <2>2. CASE i = Len(q) + 1
    <3>1. i - Len(q) = 1 /\ i \in 1 .. Len(a) /\ i <= Len(a) /\ ~(i <= Len(q))
      BY <1>2, <1>5, <2>2
    <3> QED
      BY <1>2, <1>3, <1>4, <2>0, <3>1
  <2>3. CASE i > Len(q) + 1
    <3> DEFINE k == i - Len(a)
    <3>1. k \in 1 .. Len(Tail(t)) /\ ~(i <= Len(a)) /\ ~(i <= Len(q)) /\ k + 1 = i - Len(q)
      BY <1>1, <1>2, <1>4, <1>5, <2>3
    <3>2. (a \o Tail(t))[i] = Tail(t)[k] /\ (q \o t)[i] = t[i - Len(q)]
      BY <1>3, <1>4, <2>0, <3>1
    <3>3. Tail(t)[k] = t[k + 1]
      BY <1>1, <3>1
    <3> QED
      BY <3>1, <3>2, <3>3
  <2> QED
    BY <1>5, <2>0, <2>1, <2>2, <2>3
<1>8. a \o Tail(t) = q \o t
  BY <1>3, <1>4, <1>6, <1>7, SeqEqual
<1> QED
  BY <1>8 DEF a

LEMMA ReadOfStream ==
  ASSUME NEW q \in Seq(Datagrams), NEW t \in Seq(Datagrams), q # <<>>
  PROVE  /\ Tail(q) \o t = Tail(q \o t)
         /\ q \o t # <<>> /\ (q \o t)[1] = q[1]
<1> DEFINE c == q \o t
<1>1. Tail(q) \in Seq(Datagrams) /\ Len(Tail(q)) = Len(q) - 1
      /\ \A i \in 1 .. Len(Tail(q)) : Tail(q)[i] = q[i + 1]
  BY HeadTailProperties
<1>2. /\ c \in Seq(Datagrams) /\ Len(c) = Len(q) + Len(t)
      /\ \A i \in 1 .. Len(q) + Len(t) : c[i] = IF i <= Len(q) THEN q[i] ELSE t[i - Len(q)]
  BY ConcatProperties
<1>3. /\ Tail(q) \o t \in Seq(Datagrams) /\ Len(Tail(q) \o t) = Len(Tail(q)) + Len(t)
      /\ \A i \in 1 .. Len(Tail(q)) + Len(t) :
           (Tail(q) \o t)[i] = IF i <= Len(Tail(q)) THEN Tail(q)[i] ELSE t[i - Len(Tail(q))]
  BY <1>1, ConcatProperties
<1> HIDE DEF c
<1>4. Len(q) \in Nat \ {0} /\ Len(t) \in Nat
  BY EmptySeq, LenProperties
<1>5. c # <<>>
  BY <1>2, <1>4, EmptySeq
<1>6. Tail(c) \in Seq(Datagrams) /\ Len(Tail(c)) = Len(c) - 1
      /\ \A i \in 1 .. Len(Tail(c)) : Tail(c)[i] = c[i + 1]
  BY <1>2, <1>5, HeadTailProperties
<1>7. Len(Tail(q) \o t) = Len(Tail(c))
  BY <1>1, <1>2, <1>3, <1>4, <1>6
<1>8. ASSUME NEW i \in 1 .. Len(Tail(c))
      PROVE  (Tail(q) \o t)[i] = Tail(c)[i]
  <2>0. i \in 1 .. Len(Tail(q)) + Len(t) /\ i + 1 \in 1 .. Len(q) + Len(t) /\ Tail(c)[i] = c[i + 1]
    BY <1>1, <1>2, <1>4, <1>6
  <2>1. CASE i <= Len(Tail(q))
    <3>1. i \in 1 .. Len(Tail(q)) /\ i + 1 <= Len(q)
      BY <1>1, <1>4, <2>0, <2>1
    <3> QED
      BY <1>1, <1>2, <1>3, <2>0, <2>1, <3>1
  <2>2. CASE ~(i <= Len(Tail(q)))
    <3>1. ~(i + 1 <= Len(q)) /\ i - Len(Tail(q)) = (i + 1) - Len(q)
      BY <1>1, <1>4, <2>0, <2>2
    <3> QED
      BY <1>2, <1>3, <2>0, <2>2, <3>1
  <2> QED
    BY <2>1, <2>2
<1>9. Tail(q) \o t = Tail(c)
  BY <1>3, <1>6, <1>7, <1>8, SeqEqual
<1>10. c[1] = q[1]
  BY <1>2, <1>4
<1> QED
  BY <1>5, <1>9, <1>10 DEF c

-----------------------------------------------------------------------------
(* Types.                                                                  *)

LEMMA IpcTypeKeeps ==
  ASSUME IpcTypeOK, IpcNext
  PROVE  IpcTypeOK'
<1> USE DEF IpcTypeOK
<1>1. NoMessage \in Reading /\ <<>> \in Seq(Datagrams)
  BY DEF NoMessage, Reading
<1>2. \A d \in Datagrams : SendTo(d) => socket' \in [named : BOOLEAN, open : BOOLEAN, queue : Seq(Datagrams)]
  <2> SUFFICES ASSUME NEW d \in Datagrams, SendTo(d)
               PROVE  socket' \in [named : BOOLEAN, open : BOOLEAN, queue : Seq(Datagrams)]
    OBVIOUS
  <2>1. Append(socket.queue, d) \in Seq(Datagrams)
    OBVIOUS
  <2> QED
    BY <2>1 DEF SendTo
<1>3. socket.queue # <<>> => Datagram \in Datagrams /\ Tail(socket.queue) \in Seq(Datagrams)
  BY HeadTailProperties DEF Datagram
<1>4. \A queue \in Seq(Datagrams) : EndListening(queue) => ipc' \in [fd : BOOLEAN, stopRequested : BOOLEAN, runnable : BOOLEAN]
        /\ socket' \in [named : BOOLEAN, open : BOOLEAN, queue : Seq(Datagrams)]
        /\ listener' \in [at : {"none", "start", "bound", "receive", "waiting", "ended"},
                   reading : Reading, swallowed : BOOLEAN]
  <2> SUFFICES ASSUME NEW queue \in Seq(Datagrams), EndListening(queue)
               PROVE  /\ ipc' \in [fd : BOOLEAN, stopRequested : BOOLEAN, runnable : BOOLEAN]
                      /\ socket' \in [named : BOOLEAN, open : BOOLEAN, queue : Seq(Datagrams)]
                      /\ listener' \in [at : {"none", "start", "bound", "receive", "waiting", "ended"},
                                       reading : Reading, swallowed : BOOLEAN]
    OBVIOUS
  <2>1. ipc' \in [fd : BOOLEAN, stopRequested : BOOLEAN, runnable : BOOLEAN]
    BY DEF EndListening
  <2>2. (socket.open /\ (ipc.stopRequested \/ ~ipc.fd)) \in BOOLEAN
    OBVIOUS
  <2>3. socket' = [socket EXCEPT !.queue = queue, !.open = socket.open /\ (ipc.stopRequested \/ ~ipc.fd)]
    BY DEF EndListening
  <2>4. socket' \in [named : BOOLEAN, open : BOOLEAN, queue : Seq(Datagrams)]
    BY <2>2, <2>3
  <2>5. listener' = [listener EXCEPT !.at = "ended", !.reading = NoMessage]
    BY DEF EndListening
  <2>6. listener' \in [at : {"none", "start", "bound", "receive", "waiting", "ended"},
                      reading : Reading, swallowed : BOOLEAN]
    BY <1>1, <2>5
  <2> QED
    BY <2>1, <2>4, <2>6
<1>5. CASE StartListeningNonBlocking
  BY <1>5 DEF StartListeningNonBlocking
<1>6. CASE RequestStop
  BY <1>6 DEF RequestStop
<1>7. CASE SendAbort
  <2>1. Abort \in Datagrams
    BY DEF Abort, Datagrams
  <2>2. socket' \in [named : BOOLEAN, open : BOOLEAN, queue : Seq(Datagrams)]
    BY <1>2, <1>7, <2>1 DEF SendAbort
  <2> QED
    BY <1>7, <2>2 DEF SendAbort
<1>8. CASE CloseFd
  BY <1>8 DEF CloseFd
<1>9. CASE Unlink
  BY <1>9 DEF Unlink
<1>10. CASE SendMessage
  <2>1. sender.sent + 1 \in Nat \ {0}
    OBVIOUS
  <2>2. PICK datagrams \in {Short(sender.sent + 1), Long(sender.sent + 1)} :
          sender' = [sender EXCEPT !.sent = sender.sent + 1, !.todo = datagrams]
    BY <1>10 DEF SendMessage
  <2>3. datagrams \in Seq(Datagrams)
    BY <2>1, MessageIsWellSent
  <2>4. sender' \in [sent : Nat, taken : Seq(Nat), todo : Seq(Datagrams)]
    BY <2>1, <2>2, <2>3
  <2> QED
    BY <1>10, <2>4 DEF SendMessage
<1>11. CASE SendDatagram
  <2>1. Head(sender.todo) \in Datagrams /\ Tail(sender.todo) \in Seq(Datagrams)
    BY <1>11, HeadTailProperties DEF SendDatagram
  <2>2. socket' \in [named : BOOLEAN, open : BOOLEAN, queue : Seq(Datagrams)]
    BY <1>2, <1>11, <2>1 DEF SendDatagram
  <2>3. Append(sender.taken, sender.sent) \in Seq(Nat)
    OBVIOUS
  <2>4. sender' \in [sent : Nat, taken : Seq(Nat), todo : Seq(Datagrams)]
    BY <1>1, <1>11, <2>1, <2>3 DEF SendDatagram
  <2> QED
    BY <1>11, <2>2, <2>4 DEF SendDatagram
<1>12. CASE Bind
  <2>1. socket' = [named |-> TRUE, open |-> TRUE, queue |-> <<>>] \/ socket' = socket
    BY <1>12 DEF Bind
  <2>2. socket' \in [named : BOOLEAN, open : BOOLEAN, queue : Seq(Datagrams)]
    <3>1. CASE socket' = [named |-> TRUE, open |-> TRUE, queue |-> <<>>]
      BY <1>1, <3>1
    <3>2. CASE socket' = socket
      BY <3>2
    <3> QED
      BY <2>1, <3>1, <3>2
  <2>3. listener' = [listener EXCEPT !.at = "bound"] \/ listener' = [listener EXCEPT !.at = "ended"]
    BY <1>12 DEF Bind
  <2> QED
    BY <1>12, <2>2, <2>3 DEF Bind
<1>13. CASE Publish
  BY <1>13 DEF Publish
<1>14. CASE Recvfrom
  BY <1>4, <1>14 DEF Recvfrom
<1>15. CASE RecvfromFails
  BY <1>4, <1>15 DEF RecvfromFails
<1>16. CASE ReceiveAbort
  BY <1>3, <1>4, <1>16 DEF ReceiveAbort, Arrives
<1>17. CASE ReceiveShort
  <2>1. Datagram \in Datagrams /\ Tail(socket.queue) \in Seq(Datagrams)
    BY <1>3, <1>17 DEF ReceiveShort, Arrives
  <2>2. received' \in Seq(Nat)
    <3>1. (IF Datagram.kind = "short" THEN Datagram.msg ELSE 0) \in Nat
      BY <2>1 DEF Datagrams
    <3> QED
      BY <1>17, <3>1 DEF ReceiveShort
  <2> QED
    BY <1>17, <2>1, <2>2 DEF ReceiveShort, Took
<1>18. CASE ReceiveHead
  <2>1. Datagram \in Datagrams /\ Tail(socket.queue) \in Seq(Datagrams)
    BY <1>3, <1>18 DEF ReceiveHead, Arrives
  <2>2. listener' \in [at : {"none", "start", "bound", "receive", "waiting", "ended"},
                   reading : Reading, swallowed : BOOLEAN]
    BY <1>18, <2>1 DEF ReceiveHead, Reading, Datagrams
  <2> QED
    BY <1>18, <2>1, <2>2 DEF ReceiveHead, Took
<1>19. CASE ReceivePart
  <2>1. Datagram \in Datagrams /\ Tail(socket.queue) \in Seq(Datagrams)
    BY <1>3, <1>19 DEF ReceivePart, Arrives
  <2> DEFINE got == Append(listener.reading.got, Datagram)
  <2>2. got \in Seq(Datagrams) /\ listener.reading.msg \in Nat
    BY <2>1 DEF Reading
  <2>3. received' = received \/ received' = Append(received, 0)
          \/ received' = Append(received, listener.reading.msg)
    BY <1>19 DEF ReceivePart
  <2>4. received' \in Seq(Nat)
    <3>1. CASE received' = received
      BY <3>1
    <3>2. CASE received' = Append(received, 0)
      BY <3>2
    <3>3. CASE received' = Append(received, listener.reading.msg)
      BY <2>2, <3>3
    <3> QED
      BY <2>3, <3>1, <3>2, <3>3
  <2>5. listener' = [listener EXCEPT !.at = "receive", !.reading = NoMessage, !.swallowed = @ \/ Datagram = Abort]
        \/ listener' = [listener EXCEPT !.at = "receive", !.reading.got = got, !.swallowed = @ \/ Datagram = Abort]
    BY <1>19 DEF ReceivePart
  <2> HIDE DEF got
  <2>6. listener' \in [at : {"none", "start", "bound", "receive", "waiting", "ended"},
                   reading : Reading, swallowed : BOOLEAN]
    <3>1. (listener.swallowed \/ Datagram = Abort) \in BOOLEAN
      OBVIOUS
    <3>2. [listener.reading EXCEPT !.got = got] \in Reading
      BY <2>2 DEF Reading
    <3>3. CASE listener' = [listener EXCEPT !.at = "receive", !.reading = NoMessage,
                                            !.swallowed = listener.swallowed \/ Datagram = Abort]
      BY <1>1, <3>1, <3>3
    <3>4. CASE listener' = [listener EXCEPT !.at = "receive", !.reading.got = got,
                                            !.swallowed = listener.swallowed \/ Datagram = Abort]
      BY <3>1, <3>2, <3>4
    <3> QED
      BY <2>5, <3>3, <3>4
  <2> QED
    BY <1>19, <2>1, <2>4, <2>6 DEF ReceivePart, Took
<1> QED
  BY <1>5, <1>6, <1>7, <1>8, <1>9, <1>10, <1>11, <1>12, <1>13, <1>14, <1>15, <1>16, <1>17, <1>18, <1>19 DEF IpcNext

-----------------------------------------------------------------------------
(* The listener, its owner and the message between them.                   *)

LEMMA ListenerKeeps ==
  ASSUME IpcTypeOK, ListenerInStep, IpcNext
  PROVE  ListenerInStep'
<1> USE DEF IpcTypeOK, ListenerInStep, Unstopped, Listens
<1>1. \A d : SendTo(d) => socket'.named = socket.named /\ (~socket.named => socket' = socket)
  BY DEF SendTo
<1>2. CASE StartListeningNonBlocking
  BY <1>2 DEF StartListeningNonBlocking
<1>3. CASE RequestStop
  BY <1>3 DEF RequestStop
<1>4. CASE SendAbort
  <2>1. socket'.named = socket.named
    BY <1>1, <1>4 DEF SendAbort
  <2> QED
    BY <1>4, <2>1 DEF SendAbort
<1>5. CASE CloseFd
  BY <1>5 DEF CloseFd
<1>6. CASE Unlink
  BY <1>6 DEF Unlink
<1>7. CASE SendMessage
  BY <1>7 DEF SendMessage
<1>8. CASE SendDatagram
  <2>1. socket'.named = socket.named /\ (~socket.named => socket' = socket)
    BY <1>1, <1>8 DEF SendDatagram
  <2> QED
    BY <1>8, <2>1 DEF SendDatagram
<1>9. CASE Bind
  BY <1>9 DEF Bind
<1>10. CASE Publish
  BY <1>10 DEF Publish
<1>11. CASE Recvfrom
  BY <1>11 DEF Recvfrom, EndListening
<1>12. CASE RecvfromFails
  BY <1>12 DEF RecvfromFails, EndListening
<1>13. CASE ReceiveAbort
  BY <1>13 DEF ReceiveAbort, EndListening, Arrives
<1>14. CASE ReceiveShort
  BY <1>14 DEF ReceiveShort, Arrives, Took
<1>15. CASE ReceiveHead
  BY <1>15 DEF ReceiveHead, Arrives, Took
<1>16. CASE ReceivePart
  <2>1. /\ listener.at = "waiting" /\ listener'.at = "receive" /\ socket'.named = socket.named
        /\ UNCHANGED <<ipc, owner>>
    BY <1>16 DEF ReceivePart, Arrives, Took
  <2> QED
    BY <2>1
<1> QED
  BY <1>2, <1>3, <1>4, <1>5, <1>6, <1>7, <1>8, <1>9, <1>10, <1>11, <1>12, <1>13, <1>14, <1>15, <1>16 DEF IpcNext

(* One more datagram, or the first one fewer when it is another.           *)
LEMMA AbortStays ==
  ASSUME NEW q \in Seq(Datagrams), NEW i \in 1 .. Len(q), q[i] = Abort
  PROVE  /\ \A d \in Datagrams : \E j \in 1 .. Len(Append(q, d)) : Append(q, d)[j] = Abort
         /\ q[1] # Abort => \E j \in 1 .. Len(Tail(q)) : Tail(q)[j] = Abort
<1>1. \A d \in Datagrams : i \in 1 .. Len(Append(q, d)) /\ Append(q, d)[i] = Abort
  OBVIOUS
<1>2. q # <<>> /\ Len(q) \in Nat
  BY EmptySeq
<1>3. Len(Tail(q)) = Len(q) - 1 /\ \A j \in 1 .. Len(Tail(q)) : Tail(q)[j] = q[j + 1]
  BY <1>2, HeadTailProperties
<1>4. ASSUME q[1] # Abort
      PROVE  i - 1 \in 1 .. Len(Tail(q)) /\ Tail(q)[i - 1] = Abort
  <2>1. i # 1
    BY <1>4
  <2>2. i - 1 \in 1 .. Len(Tail(q)) /\ (i - 1) + 1 = i
    BY <1>2, <1>3, <2>1
  <2> QED
    BY <1>3, <2>2
<1> QED
  BY <1>1, <1>4

LEMMA AbortKeeps ==
  ASSUME IpcTypeOK, ListenerInStep, AbortWaits, IpcNext
  PROVE  AbortWaits'
<1> USE DEF IpcTypeOK, Listens
<1> DEFINE Told == owner.at \in {"close", "unlink", "stopped"} /\ owner.sawReady /\ ~listener.swallowed /\ Listens
<1>1. (Told => \E i \in 1 .. Len(socket.queue) : socket.queue[i] = Abort)
  BY DEF AbortWaits
<1> SUFFICES ASSUME Told'
             PROVE  \E i \in 1 .. Len(socket'.queue) : socket'.queue[i] = Abort
  BY DEF AbortWaits
<1>2. socket.queue # <<>> => Datagram = socket.queue[1]
  BY DEF Datagram
<1>3. ASSUME Told, socket.queue # <<>>, Datagram # Abort, socket'.queue = Tail(socket.queue)
      PROVE  \E i \in 1 .. Len(socket'.queue) : socket'.queue[i] = Abort
  <2>1. PICK i \in 1 .. Len(socket.queue) : socket.queue[i] = Abort
    BY <1>1, <1>3
  <2>2. socket.queue \in Seq(Datagrams)
    OBVIOUS
  <2> QED
    BY <1>2, <1>3, <2>1, <2>2, AbortStays
<1>4. CASE StartListeningNonBlocking
  BY <1>4 DEF StartListeningNonBlocking
<1>5. CASE RequestStop
  BY <1>5 DEF RequestStop
<1>6. CASE SendAbort
  <2>1. owner.at = "abort" /\ owner.sawReady /\ Listens
    BY <1>6 DEF SendAbort
  <2>2. ipc.runnable /\ socket.named
    BY <2>1 DEF ListenerInStep
  <2>3. socket'.queue = Append(socket.queue, Abort)
    <3>1. ~NameIsGone
      BY <2>1 DEF NameIsGone
    <3> QED
      BY <1>6, <2>2, <3>1 DEF SendAbort, SendTo
  <2>4. socket.queue \in Seq(Datagrams) /\ Abort \in Datagrams
    BY DEF Abort, Datagrams
  <2>5. Len(socket'.queue) = Len(socket.queue) + 1 /\ socket'.queue[Len(socket.queue) + 1] = Abort
    BY <2>3, <2>4
  <2>6. Len(socket.queue) + 1 \in 1 .. Len(socket'.queue)
    BY <2>4, <2>5
  <2> QED
    BY <2>5, <2>6
<1>7. CASE CloseFd
  <2>1. Told /\ socket'.queue = socket.queue
    BY <1>7 DEF CloseFd, ListenerInStep
  <2> QED
    BY <1>1, <2>1
<1>8. CASE Unlink
  <2>1. Told /\ socket'.queue = socket.queue
    BY <1>8 DEF Unlink
  <2> QED
    BY <1>1, <2>1
<1>9. CASE SendMessage
  BY <1>1, <1>9 DEF SendMessage
<1>10. CASE SendDatagram
  <2>1. Told
    BY <1>10 DEF SendDatagram
  <2>2. PICK i \in 1 .. Len(socket.queue) : socket.queue[i] = Abort
    BY <1>1, <2>1
  <2>3. Head(sender.todo) \in Datagrams /\ socket.queue \in Seq(Datagrams)
    BY <1>10, HeadTailProperties DEF SendDatagram
  <2>4. socket'.queue = socket.queue \/ socket'.queue = Append(socket.queue, Head(sender.todo))
    BY <1>10 DEF SendDatagram, SendTo
  <2>5. CASE socket'.queue = socket.queue
    BY <2>2, <2>5
  <2>6. CASE socket'.queue = Append(socket.queue, Head(sender.todo))
    BY <2>2, <2>3, <2>6, AbortStays
  <2> QED
    BY <2>4, <2>5, <2>6
<1>11. CASE Bind
  BY <1>11 DEF Bind, ListenerInStep
<1>12. CASE Publish
  BY <1>12 DEF Publish, ListenerInStep
<1>13. CASE Recvfrom
  <2>1. Told /\ socket' = socket
    BY <1>13 DEF Recvfrom, EndListening
  <2> QED
    BY <1>1, <2>1
<1>14. CASE RecvfromFails
  BY <1>14 DEF RecvfromFails, EndListening
<1>15. CASE ReceiveAbort
  BY <1>15 DEF ReceiveAbort, EndListening
<1>16. CASE ReceiveShort
  <2>1. Told /\ socket.queue # <<>> /\ Datagram # Abort /\ socket'.queue = Tail(socket.queue)
    BY <1>16 DEF ReceiveShort, Arrives, Took, Abort
  <2> QED
    BY <1>3, <2>1
<1>17. CASE ReceiveHead
  <2>1. Told /\ socket.queue # <<>> /\ Datagram # Abort /\ socket'.queue = Tail(socket.queue)
    BY <1>17 DEF ReceiveHead, Arrives, Took, Abort
  <2> QED
    BY <1>3, <2>1
<1>18. CASE ReceivePart
  <2>1. listener'.swallowed <=> (listener.swallowed \/ Datagram = Abort)
    BY <1>18 DEF ReceivePart
  <2>2. socket.queue # <<>> /\ socket'.queue = Tail(socket.queue) /\ owner' = owner /\ listener.at = "waiting"
    BY <1>18 DEF ReceivePart, Arrives, Took
  <2>3. Told /\ Datagram # Abort
    BY <2>1, <2>2
  <2> QED
    BY <1>3, <2>2, <2>3
<1> QED
  BY <1>4, <1>5, <1>6, <1>7, <1>8, <1>9, <1>10, <1>11, <1>12, <1>13, <1>14, <1>15, <1>16, <1>17, <1>18 DEF IpcNext

-----------------------------------------------------------------------------
(* What is read, and what is handed over.                                  *)

LEMMA PiecesOfStream ==
  ASSUME NEW q \in Seq(Datagrams), NEW t \in Seq(Datagrams)
  PROVE  /\ q \o t \in Seq(Datagrams) /\ Len(q \o t) = Len(q) + Len(t)
         /\ \A i \in 1 .. Len(q) : i \in 1 .. Len(q \o t) /\ (q \o t)[i] = q[i]
         /\ \A i \in 1 .. Len(t) : Len(q) + i \in 1 .. Len(q \o t) /\ (q \o t)[Len(q) + i] = t[i]
<1> DEFINE c == q \o t
<1>1. Len(q) \in Nat /\ Len(t) \in Nat
  BY LenProperties
<1>2. /\ c \in Seq(Datagrams) /\ Len(c) = Len(q) + Len(t)
      /\ \A i \in 1 .. Len(q) + Len(t) : c[i] = IF i <= Len(q) THEN q[i] ELSE t[i - Len(q)]
  BY ConcatProperties
<1> HIDE DEF c
<1>3. ASSUME NEW i \in 1 .. Len(q)
      PROVE  i \in 1 .. Len(c) /\ c[i] = q[i]
  <2>1. i \in 1 .. Len(q) + Len(t) /\ i <= Len(q)
    BY <1>1
  <2> QED
    BY <1>2, <2>1
<1>4. ASSUME NEW i \in 1 .. Len(t)
      PROVE  Len(q) + i \in 1 .. Len(c) /\ c[Len(q) + i] = t[i]
  <2>1. Len(q) + i \in 1 .. Len(q) + Len(t) /\ ~(Len(q) + i <= Len(q)) /\ (Len(q) + i) - Len(q) = i
    BY <1>1
  <2> QED
    BY <1>2, <2>1
<1> QED
  BY <1>2, <1>3, <1>4 DEF c

LEMMA StreamTypes ==
  ASSUME IpcTypeOK
  PROVE  /\ socket.queue \in Seq(Datagrams) /\ sender.todo \in Seq(Datagrams) /\ sender.sent \in Nat
         /\ Stream \in Seq(Datagrams) /\ Len(Stream) = Len(socket.queue) + Len(sender.todo)
         /\ \A i \in 1 .. Len(socket.queue) : i \in 1 .. Len(Stream) /\ Stream[i] = socket.queue[i]
         /\ \A i \in 1 .. Len(sender.todo) :
              Len(socket.queue) + i \in 1 .. Len(Stream) /\ Stream[Len(socket.queue) + i] = sender.todo[i]
<1>1. socket.queue \in Seq(Datagrams) /\ sender.todo \in Seq(Datagrams) /\ sender.sent \in Nat
  BY DEF IpcTypeOK
<1> QED
  BY <1>1, PiecesOfStream DEF Stream

LEMMA StreamAfterReading ==
  ASSUME IpcTypeOK, StreamIsWhole, Unstopped, Arrives,
         socket'.queue = Tail(socket.queue), sender' = sender
  PROVE  /\ Datagram = socket.queue[1] /\ Datagram \in Datagrams /\ Proper(Datagram)
         /\ IF listener.reading = NoMessage THEN Starts(Datagram)
            ELSE IsPart(Datagram, listener.reading.msg, Len(listener.reading.got) + 1)
         /\ WellSent(Stream', sender'.sent)
         /\ IF Ends(Datagram) THEN Len(Stream') # 0 => Starts(Stream'[1])
            ELSE Len(Stream') # 0 /\ IsPart(Stream'[1], Datagram.msg, Datagram.part + 1)
<1>1. socket.queue # <<>> /\ listener.at = "waiting"
  BY DEF Arrives
<1>2. socket.queue \in Seq(Datagrams) /\ sender.todo \in Seq(Datagrams) /\ sender.sent \in Nat
      /\ Stream \in Seq(Datagrams)
  BY StreamTypes
<1>3. Datagram = socket.queue[1] /\ Datagram \in Datagrams
  BY <1>1, <1>2, HeadTailProperties DEF Datagram
<1>4. Tail(socket.queue) \o sender.todo = Tail(Stream) /\ Stream # <<>> /\ Stream[1] = socket.queue[1]
  BY <1>1, <1>2, ReadOfStream DEF Stream
<1>5. Stream' = Tail(Stream)
  BY <1>4 DEF Stream
<1>6. WellSent(Stream, sender.sent) /\ Expects(Stream, listener.reading)
  BY <1>1 DEF StreamIsWhole
<1>7. Len(Stream) \in Nat \ {0}
  BY <1>2, <1>4, EmptySeq
<1>8. Proper(Datagram)
  <2>1. 1 \in 1 .. Len(Stream)
    BY <1>7
  <2> QED
    BY <1>3, <1>4, <1>6, <2>1 DEF WellSent
<1>9. IF listener.reading = NoMessage THEN Starts(Datagram)
      ELSE IsPart(Datagram, listener.reading.msg, Len(listener.reading.got) + 1)
  BY <1>3, <1>4, <1>6, <1>7 DEF Expects
<1>10. /\ WellSent(Tail(Stream), sender.sent)
       /\ IF Ends(Stream[1]) THEN Len(Tail(Stream)) # 0 => Starts(Tail(Stream)[1])
          ELSE Len(Tail(Stream)) # 0 /\ IsPart(Tail(Stream)[1], Stream[1].msg, Stream[1].part + 1)
  BY <1>2, <1>4, <1>6, StreamWithoutFirst
<1> QED
  BY <1>3, <1>4, <1>5, <1>8, <1>9, <1>10

LEMMA TakenAfterReading ==
  ASSUME IpcTypeOK, StreamIsWhole, Unstopped, TakenInOrder, EndsAreTaken, Arrives,
         socket'.queue = Tail(socket.queue), sender' = sender,
         received' = IF Ends(socket.queue[1]) THEN Append(received, socket.queue[1].msg) ELSE received
  PROVE  TakenInOrder' /\ EndsAreTaken'
<1> DEFINE q == socket.queue
<1> DEFINE t == sender.taken
<1> DEFINE r == Len(received)
<1>1. q \in Seq(Datagrams) /\ t \in Seq(Nat) /\ received \in Seq(Nat) /\ q # <<>>
  BY DEF IpcTypeOK, Arrives
<1>2. Len(q) \in Nat \ {0} /\ Len(t) \in Nat /\ r \in Nat
  BY <1>1, EmptySeq, LenProperties
<1>3. Len(Tail(q)) = Len(q) - 1 /\ \A i \in 1 .. Len(Tail(q)) : Tail(q)[i] = q[i + 1]
  BY <1>1, HeadTailProperties
<1>4. \A i, j \in 1 .. Len(q) : i < j => q[i].msg <= q[j].msg /\ (Ends(q[i]) => q[i].msg < q[j].msg)
  <2> SUFFICES ASSUME NEW i \in 1 .. Len(q), NEW j \in 1 .. Len(q), i < j
               PROVE  q[i].msg <= q[j].msg /\ (Ends(q[i]) => q[i].msg < q[j].msg)
    OBVIOUS
  <2>1. i \in 1 .. Len(Stream) /\ j \in 1 .. Len(Stream) /\ Stream[i] = q[i] /\ Stream[j] = q[j]
    BY StreamTypes
  <2>2. WellSent(Stream, sender.sent)
    BY DEF StreamIsWhole
  <2> QED
    BY <2>1, <2>2 DEF WellSent
<1>5. \A i \in 1 .. Len(q) : q[i].msg \in Nat
  <2> TAKE i \in 1 .. Len(q)
  <2>1. q[i] \in Datagrams
    BY <1>1, ElementOfSeq
  <2> QED
    BY <2>1 DEF Datagrams
<1>6. /\ \A i, j \in 1 .. Len(t) : i < j => t[i] < t[j]
      /\ \A i \in 1 .. Len(t) : t[i] <= sender.sent /\ (sender.todo # <<>> => t[i] < sender.sent)
      /\ r <= Len(t)
      /\ \A i \in 1 .. r : received[i] = t[i]
  BY DEF TakenInOrder
<1>7. /\ \A k \in 1 .. Len(t) : r < k => \E i \in 1 .. Len(q) : Ends(q[i]) /\ q[i].msg = t[k]
      /\ \A i \in 1 .. Len(q) : Ends(q[i]) => \E k \in 1 .. Len(t) : r < k /\ t[k] = q[i].msg
  BY DEF EndsAreTaken, EndsAreBehind
<1>8. CASE ~Ends(q[1])
  <2>1. received' = received
    BY <1>8
  <2>2. TakenInOrder'
    BY <1>6, <2>1 DEF TakenInOrder
  <2>3. ASSUME NEW k \in 1 .. Len(t), r < k
        PROVE  \E i \in 1 .. Len(Tail(q)) : Ends(Tail(q)[i]) /\ Tail(q)[i].msg = t[k]
    <3>1. PICK i \in 1 .. Len(q) : Ends(q[i]) /\ q[i].msg = t[k]
      BY <1>7, <2>3
    <3>2. i # 1
      BY <1>8, <3>1
    <3>3. i - 1 \in 1 .. Len(Tail(q)) /\ (i - 1) + 1 = i
      BY <1>2, <1>3, <3>2
    <3>4. Tail(q)[i - 1] = q[i]
      BY <1>3, <3>3
    <3> QED
      BY <3>1, <3>3, <3>4
  <2>4. ASSUME NEW i \in 1 .. Len(Tail(q)), Ends(Tail(q)[i])
        PROVE  \E k \in 1 .. Len(t) : r < k /\ t[k] = Tail(q)[i].msg
    <3>1. i + 1 \in 1 .. Len(q) /\ Tail(q)[i] = q[i + 1]
      BY <1>2, <1>3
    <3> QED
      BY <1>7, <2>4, <3>1
  <2>5. EndsAreBehind(r, t, Tail(q))
    BY <2>3, <2>4 DEF EndsAreBehind
  <2>6. EndsAreTaken'
    BY <2>1, <2>5 DEF EndsAreTaken
  <2> QED
    BY <2>2, <2>6
<1>9. CASE Ends(q[1])
  <2>0. 1 \in 1 .. Len(q)
    BY <1>2
  <2>1. PICK n \in 1 .. Len(t) : r < n /\ t[n] = q[1].msg
    BY <1>7, <1>9, <2>0
  <2>2. n = r + 1
    <3> SUFFICES ASSUME n # r + 1 PROVE FALSE
      OBVIOUS
    <3>1. r + 1 \in 1 .. Len(t) /\ r < r + 1 /\ r + 1 < n
      BY <1>2, <2>1
    <3>2. PICK i \in 1 .. Len(q) : Ends(q[i]) /\ q[i].msg = t[r + 1]
      BY <1>7, <3>1
    <3>3. t[r + 1] < q[1].msg
      BY <1>6, <2>1, <3>1
    <3>4. q[i].msg < q[1].msg
      BY <3>2, <3>3
    <3>5. i = 1 \/ q[1].msg <= q[i].msg
      BY <1>4, <2>0
    <3> QED
      BY <1>5, <2>0, <3>4, <3>5
  <2>3. received' = Append(received, t[r + 1]) /\ r + 1 \in 1 .. Len(t) /\ t[r + 1] = q[1].msg
    BY <1>9, <2>1, <2>2
  <2>4. Len(received') = r + 1 /\ \A i \in 1 .. r + 1 : received'[i] = t[i]
    <3>1. t[r + 1] \in Nat
      BY <1>1, <2>3, ElementOfSeq
    <3>2. Len(received') = r + 1 /\ received'[r + 1] = t[r + 1] /\ \A i \in 1 .. r : received'[i] = received[i]
      BY <1>1, <2>3, <3>1
    <3> QED
      BY <1>2, <1>6, <3>2
  <2>5. TakenInOrder'
    <3>1. r + 1 <= Len(t)
      BY <1>2, <2>3
    <3> QED
      BY <1>6, <2>4, <3>1 DEF TakenInOrder
  <2>6. ASSUME NEW k \in 1 .. Len(t), r + 1 < k
        PROVE  \E i \in 1 .. Len(Tail(q)) : Ends(Tail(q)[i]) /\ Tail(q)[i].msg = t[k]
    <3>1. PICK i \in 1 .. Len(q) : Ends(q[i]) /\ q[i].msg = t[k]
      <4>1. r < k
        BY <1>2, <2>6
      <4> QED
        BY <1>7, <4>1
    <3>2. t[r + 1] < t[k]
      BY <1>6, <2>3, <2>6
    <3>3. i # 1
      BY <1>5, <2>0, <2>3, <3>1, <3>2
    <3>4. i - 1 \in 1 .. Len(Tail(q)) /\ (i - 1) + 1 = i
      BY <1>2, <1>3, <3>3
    <3>5. Tail(q)[i - 1] = q[i]
      BY <1>3, <3>4
    <3> QED
      BY <3>1, <3>4, <3>5
  <2>7. ASSUME NEW i \in 1 .. Len(Tail(q)), Ends(Tail(q)[i])
        PROVE  \E k \in 1 .. Len(t) : r + 1 < k /\ t[k] = Tail(q)[i].msg
    <3>1. i + 1 \in 1 .. Len(q) /\ Tail(q)[i] = q[i + 1] /\ 1 < i + 1
      BY <1>2, <1>3
    <3>2. PICK k \in 1 .. Len(t) : r < k /\ t[k] = q[i + 1].msg
      BY <1>7, <2>7, <3>1
    <3>3. q[1].msg < q[i + 1].msg
      BY <1>4, <1>9, <2>0, <3>1
    <3>4. k # r + 1
      BY <1>5, <2>0, <2>3, <3>1, <3>2, <3>3
    <3>5. r + 1 < k
      BY <1>2, <3>2, <3>4
    <3> QED
      BY <3>1, <3>2, <3>5
  <2>8. EndsAreBehind(r + 1, t, Tail(q))
    BY <2>6, <2>7 DEF EndsAreBehind
  <2>9. EndsAreTaken'
    BY <2>4, <2>8 DEF EndsAreTaken
  <2> QED
    BY <2>5, <2>9
<1> QED
  BY <1>8, <1>9

-----------------------------------------------------------------------------
(* Reading.                                                                *)

LEMMA ReceiveShortKeeps ==
  ASSUME IpcTypeOK, StreamIsWhole, Unstopped, TakenInOrder, EndsAreTaken, ReceiveShort
  PROVE  StreamIsWhole' /\ TakenInOrder' /\ EndsAreTaken'
<1>1. /\ Arrives /\ listener.reading = NoMessage /\ socket'.queue = Tail(socket.queue) /\ sender' = sender
      /\ Datagram.kind \in {"short", "part"}
      /\ received' = Append(received, IF Datagram.kind = "short" THEN Datagram.msg ELSE 0)
  BY DEF ReceiveShort, Took, IpcTypeOK
<1>2. listener'.reading = NoMessage
  BY <1>1 DEF ReceiveShort, IpcTypeOK
<1>3. Datagram = socket.queue[1] /\ Starts(Datagram)
  BY <1>1, StreamAfterReading
<1>4. Datagram.kind = "short" /\ Ends(Datagram)
  BY <1>1, <1>3 DEF Starts, Ends
<1>5. received' = IF Ends(socket.queue[1]) THEN Append(received, socket.queue[1].msg) ELSE received
  BY <1>1, <1>3, <1>4
<1>6. WellSent(Stream', sender'.sent) /\ (Len(Stream') # 0 => Starts(Stream'[1]))
  BY <1>1, <1>4, StreamAfterReading
<1>7. Expects(Stream', listener'.reading)
  BY <1>2, <1>6 DEF Expects
<1>8. \A i \in 1 .. Len(sender'.todo) : sender'.todo[i].msg = sender'.sent
  BY <1>1 DEF StreamIsWhole
<1>9. StreamIsWhole'
  BY <1>2, <1>6, <1>7, <1>8 DEF StreamIsWhole
<1> QED
  BY <1>1, <1>5, <1>9, TakenAfterReading

LEMMA ReceiveHeadKeeps ==
  ASSUME IpcTypeOK, StreamIsWhole, Unstopped, TakenInOrder, EndsAreTaken, ReceiveHead
  PROVE  StreamIsWhole' /\ TakenInOrder' /\ EndsAreTaken'
<1>1. /\ Arrives /\ listener.reading = NoMessage /\ socket'.queue = Tail(socket.queue) /\ sender' = sender
      /\ Datagram.kind = "head" /\ received' = received
  BY DEF ReceiveHead, Took, IpcTypeOK
<1>2. Datagram = socket.queue[1] /\ Starts(Datagram) /\ Proper(Datagram)
  BY <1>1, StreamAfterReading
<1>3. ~Ends(Datagram) /\ Datagram.part = 0 /\ Datagram.msg # 0
  BY <1>1, <1>2, PartsAssumption DEF Starts, Ends, Proper
<1>4. listener'.reading = [msg |-> Datagram.msg, got |-> <<>>]
  <2>1. listener' = [listener EXCEPT !.at = "receive", !.reading.msg = Datagram.msg]
    BY DEF ReceiveHead
  <2>2. listener'.reading = [listener.reading EXCEPT !.msg = Datagram.msg]
    BY <2>1 DEF IpcTypeOK
  <2>3. listener'.reading = [NoMessage EXCEPT !.msg = Datagram.msg]
    BY <1>1, <2>2
  <2> QED
    BY <2>3 DEF NoMessage
<1>5. listener'.reading # NoMessage /\ listener'.reading.msg = Datagram.msg /\ Len(listener'.reading.got) = 0
  BY <1>3, <1>4 DEF NoMessage
<1>6. WellSent(Stream', sender'.sent) /\ Len(Stream') # 0 /\ IsPart(Stream'[1], Datagram.msg, 0 + 1)
  BY <1>1, <1>3, StreamAfterReading
<1>7. Expects(Stream', listener'.reading)
  BY <1>5, <1>6 DEF Expects
<1>8. \A i \in 1 .. Len(sender'.todo) : sender'.todo[i].msg = sender'.sent
  BY <1>1 DEF StreamIsWhole
<1>9. \A i \in 1 .. Len(listener'.reading.got) : IsPart(listener'.reading.got[i], listener'.reading.msg, i)
  BY <1>5
<1>10. StreamIsWhole'
  BY <1>6, <1>7, <1>8, <1>9 DEF StreamIsWhole, IsPart
<1>11. received' = IF Ends(socket.queue[1]) THEN Append(received, socket.queue[1].msg) ELSE received
  BY <1>1, <1>2, <1>3
<1> QED
  BY <1>1, <1>10, <1>11, TakenAfterReading

LEMMA AllArePartsOfIt ==
  ASSUME NEW got \in Seq(Datagrams), NEW m \in Nat,
         \A i \in 1 .. Len(got) : IsPart(got[i], m, i)
  PROVE  /\ \A short \in BOOLEAN : IsWhole(got, short) <=> Len(got) = Parts
         /\ ~ \E i \in DOMAIN got : got[i] # Part(m, i)
<1>1. DOMAIN got = 1 .. Len(got) /\ Len(got) \in Nat
  BY LenProperties
<1>2. \A i \in 1 .. Len(got) : got[i] = Part(m, i) /\ got[i] # Abort
  <2> TAKE i \in 1 .. Len(got)
  <2>1. got[i] \in Datagrams /\ i \in Nat
    BY ElementOfSeq
  <2> QED
    BY <2>1, PartIsPart
<1>3. {i \in DOMAIN got : got[i] # Abort} = 1 .. Len(got)
  BY <1>1, <1>2
<1>4. Cardinality(1 .. Len(got)) = Len(got)
  BY <1>1, FS_Interval
<1> QED
  BY <1>1, <1>2, <1>3, <1>4 DEF IsWhole

LEMMA ReceivePartKeeps ==
  ASSUME IpcTypeOK, StreamIsWhole, Unstopped, TakenInOrder, EndsAreTaken, ReceivePart
  PROVE  StreamIsWhole' /\ TakenInOrder' /\ EndsAreTaken'
<1> DEFINE m == listener.reading.msg
<1> DEFINE before == listener.reading.got
<1> DEFINE got == Append(before, Datagram)
<1>1. /\ Arrives /\ listener.reading # NoMessage /\ socket'.queue = Tail(socket.queue) /\ sender' = sender
  BY DEF ReceivePart, Took, IpcTypeOK
<1>2. Datagram = socket.queue[1] /\ Datagram \in Datagrams /\ Proper(Datagram) /\ IsPart(Datagram, m, Len(before) + 1)
  BY <1>1, StreamAfterReading
<1>3. m \in Nat /\ before \in Seq(Datagrams) /\ \A i \in 1 .. Len(before) : IsPart(before[i], m, i)
  BY <1>1 DEF IpcTypeOK, Reading, StreamIsWhole
<1>4. /\ got \in Seq(Datagrams) /\ Len(got) = Len(before) + 1 /\ Len(before) \in Nat
      /\ got[Len(before) + 1] = Datagram /\ \A i \in 1 .. Len(before) : got[i] = before[i]
  BY <1>2, <1>3
<1>5. \A i \in 1 .. Len(got) : IsPart(got[i], m, i)
  <2> TAKE i \in 1 .. Len(got)
  <2>1. i = Len(before) + 1 \/ i \in 1 .. Len(before)
    BY <1>4
  <2>2. CASE i = Len(before) + 1
    BY <1>2, <1>4, <2>2
  <2>3. CASE i \in 1 .. Len(before)
    BY <1>3, <1>4, <2>3
  <2> QED
    BY <2>1, <2>2, <2>3
<1>6. /\ \A short \in BOOLEAN : IsWhole(got, short) <=> Len(got) = Parts
      /\ ~ \E i \in DOMAIN got : got[i] # Part(m, i)
  BY <1>3, <1>4, <1>5, AllArePartsOfIt
<1>7. Ends(Datagram) <=> Len(got) = Parts
  BY <1>2, <1>4 DEF IsPart, Ends
<1>8. Datagram.msg = m /\ Datagram.part = Len(got)
  BY <1>2, <1>4 DEF IsPart
<1> DEFINE whole == Len(got) = Parts
<1>9. /\ whole => /\ received' = Append(received, m)
                  /\ listener' = [listener EXCEPT !.at = "receive", !.reading = NoMessage,
                                    !.swallowed = @ \/ Datagram = Abort]
      /\ ~whole => /\ received' = received
                   /\ listener' = [listener EXCEPT !.at = "receive", !.reading.got = got,
                                     !.swallowed = @ \/ Datagram = Abort]
  BY <1>6 DEF ReceivePart
<1>10. \A i \in 1 .. Len(sender'.todo) : sender'.todo[i].msg = sender'.sent
  BY <1>1 DEF StreamIsWhole
<1>11. /\ WellSent(Stream', sender'.sent)
       /\ IF Ends(Datagram) THEN Len(Stream') # 0 => Starts(Stream'[1])
          ELSE Len(Stream') # 0 /\ IsPart(Stream'[1], Datagram.msg, Datagram.part + 1)
  BY <1>1, StreamAfterReading
<1>12. received' = IF Ends(socket.queue[1]) THEN Append(received, socket.queue[1].msg) ELSE received
  BY <1>2, <1>6, <1>7, <1>8, <1>9
<1>13. TakenInOrder' /\ EndsAreTaken'
  BY <1>1, <1>12, TakenAfterReading
<1> HIDE DEF got
<1>14. CASE whole
  <2>1. listener'.reading = NoMessage
    BY <1>9, <1>14 DEF IpcTypeOK
  <2>2. Expects(Stream', listener'.reading)
    BY <1>6, <1>7, <1>11, <1>14, <2>1 DEF Expects
  <2> QED
    BY <1>10, <1>11, <1>13, <2>1, <2>2 DEF StreamIsWhole
<1>15. CASE ~whole
  <2>1. listener'.reading = [listener.reading EXCEPT !.got = got]
    BY <1>9, <1>15 DEF IpcTypeOK
  <2>2. listener'.reading.msg = m /\ listener'.reading.got = got
    BY <2>1 DEF IpcTypeOK, Reading
  <2>3. Len(got) # 0
    BY <1>4
  <2>4. listener'.reading # NoMessage
    <3> SUFFICES ASSUME listener'.reading = NoMessage PROVE FALSE
      OBVIOUS
    <3>1. got = <<>>
      BY <2>2 DEF NoMessage
    <3> QED
      BY <2>3, <3>1
  <2>5. Expects(Stream', listener'.reading)
    BY <1>6, <1>7, <1>8, <1>11, <1>15, <2>2, <2>4 DEF Expects
  <2>6. \A i \in 1 .. Len(listener'.reading.got) : IsPart(listener'.reading.got[i], listener'.reading.msg, i)
    BY <1>5, <2>2
  <2>7. StreamIsWhole'
    BY <1>10, <1>11, <2>5, <2>6 DEF StreamIsWhole, IsPart
  <2> QED
    BY <1>13, <2>7
<1> QED
  BY <1>14, <1>15

-----------------------------------------------------------------------------
(* Sending.                                                                *)

LEMMA SendMessageKeeps ==
  ASSUME IpcTypeOK, StreamIsWhole, Unstopped, TakenInOrder, SendMessage
  PROVE  /\ StreamIsWhole' /\ TakenInOrder'
         /\ EndsAreTaken => EndsAreTaken'
<1> DEFINE m == sender.sent + 1
<1>1. m \in Nat \ {0} /\ sender.sent < m
  BY DEF IpcTypeOK
<1>2. PICK s \in {Short(m), Long(m)} : sender' = [sender EXCEPT !.sent = m, !.todo = s]
  BY DEF SendMessage
<1>3. /\ s \in Seq(Datagrams) /\ Len(s) # 0 /\ Starts(s[1]) /\ WellSent(s, m)
      /\ \A i \in 1 .. Len(s) : s[i].msg = m
  BY <1>1, MessageIsWellSent
<1> HIDE DEF m
<1>4. /\ sender.todo = <<>> /\ sender'.sent = m /\ sender'.todo = s /\ sender'.taken = sender.taken
      /\ UNCHANGED <<socket, listener, received, owner>>
  BY <1>2 DEF SendMessage, IpcTypeOK
<1>5. Stream = socket.queue /\ Stream \in Seq(Datagrams) /\ Stream' = socket.queue \o s /\ sender.sent \in Nat
  BY <1>4, StreamTypes, ConcatEmptySeq DEF Stream
<1>6. WellSent(Stream, sender.sent) /\ (listener.at # "ended" => Expects(Stream, listener.reading))
      /\ (listener.reading # NoMessage =>
            \A i \in 1 .. Len(listener.reading.got) :
              IsPart(listener.reading.got[i], listener.reading.msg, i))
  BY DEF StreamIsWhole
<1>7. WellSent(Stream', m) /\ \A reading : Expects(Stream, reading) => Expects(Stream', reading)
  BY <1>1, <1>3, <1>5, <1>6, StreamWithMessage
<1>8. listener.at # "ended" => Expects(Stream', listener.reading)
  BY <1>6, <1>7
<1>9. StreamIsWhole'
  BY <1>3, <1>4, <1>6, <1>7, <1>8 DEF StreamIsWhole
<1>10. TakenInOrder'
  <2>1. \A i \in 1 .. Len(sender.taken) : sender.taken[i] \in Nat /\ sender.taken[i] <= sender.sent
    <3> TAKE i \in 1 .. Len(sender.taken)
    <3>1. sender.taken \in Seq(Nat)
      BY DEF IpcTypeOK
    <3> QED
      BY <3>1, ElementOfSeq DEF TakenInOrder
  <2>2. \A i \in 1 .. Len(sender.taken) : sender.taken[i] < m /\ sender.taken[i] <= m
    BY <1>1, <1>5, <2>1
  <2> QED
    BY <1>4, <2>2 DEF TakenInOrder
<1>11. EndsAreTaken => EndsAreTaken'
  BY <1>4 DEF EndsAreTaken
<1> QED
  BY <1>9, <1>10, <1>11

(* A stream of which nothing is left.                                      *)
LEMMA NothingIsWellSent ==
  ASSUME NEW n
  PROVE  WellSent(<<>>, n) /\ Len(<<>>) = 0
<1>1. Len(<<>>) = 0
  BY EmptySeq
<1>2. 1 .. Len(<<>>) = {}
  BY <1>1
<1> QED
  BY <1>1, <1>2 DEF WellSent

LEMMA SendDatagramKeeps ==
  ASSUME IpcTypeOK, ListenerInStep, StreamIsWhole, Unstopped, TakenInOrder, SendDatagram
  PROVE  /\ StreamIsWhole' /\ TakenInOrder'
         /\ listener.at # "ended" /\ EndsAreTaken => EndsAreTaken'
<1> DEFINE q == socket.queue
<1> DEFINE todo == sender.todo
<1> DEFINE d == Head(todo)
<1>1. /\ todo # <<>> /\ UNCHANGED <<ipc, listener, owner, received>>
      /\ socket' = IF socket.named THEN [socket EXCEPT !.queue = Append(q, d)] ELSE socket
      /\ sender' = [sender EXCEPT !.todo = IF socket.named THEN Tail(todo) ELSE <<>>,
                                  !.taken = IF socket.named /\ Len(todo) = 1
                                            THEN Append(sender.taken, sender.sent) ELSE sender.taken]
  BY DEF SendDatagram, SendTo
<1>2. /\ q \in Seq(Datagrams) /\ todo \in Seq(Datagrams) /\ sender.sent \in Nat /\ sender.taken \in Seq(Nat)
      /\ Len(todo) \in Nat \ {0} /\ d = todo[1] /\ d \in Datagrams
      /\ Tail(todo) \in Seq(Datagrams) /\ Len(Tail(todo)) = Len(todo) - 1
      /\ \A i \in 1 .. Len(Tail(todo)) : Tail(todo)[i] = todo[i + 1]
  BY <1>1, EmptySeq, HeadTailProperties DEF IpcTypeOK
<1>3. /\ WellSent(Stream, sender.sent)
      /\ \A i \in 1 .. Len(todo) : todo[i].msg = sender.sent
      /\ listener.at # "ended" => Expects(Stream, listener.reading)
      /\ listener.reading # NoMessage =>
           \A i \in 1 .. Len(listener.reading.got) :
             IsPart(listener.reading.got[i], listener.reading.msg, i)
  BY DEF StreamIsWhole
<1>4. sender'.sent = sender.sent
  BY <1>1 DEF IpcTypeOK
<1>5. /\ \A i, j \in 1 .. Len(sender.taken) : i < j => sender.taken[i] < sender.taken[j]
      /\ \A i \in 1 .. Len(sender.taken) :
           sender.taken[i] \in Nat /\ sender.taken[i] <= sender.sent /\ sender.taken[i] < sender.sent
      /\ Len(received) <= Len(sender.taken)
      /\ \A i \in 1 .. Len(received) : received[i] = sender.taken[i]
      /\ Len(received) \in Nat /\ Len(sender.taken) \in Nat
  <2>1. \A i \in 1 .. Len(sender.taken) : sender.taken[i] \in Nat
    BY <1>2, ElementOfSeq
  <2>2. Len(received) \in Nat /\ Len(sender.taken) \in Nat
    BY <1>2, LenProperties DEF IpcTypeOK
  <2> QED
    BY <1>1, <2>1, <2>2 DEF TakenInOrder
<1>6. CASE ~socket.named
  <2>1. socket' = socket /\ sender'.todo = <<>> /\ sender'.taken = sender.taken /\ q = <<>>
    BY <1>1, <1>6 DEF IpcTypeOK, ListenerInStep
  <2>2. Stream' = <<>>
    <3>1. <<>> \in Seq(Datagrams)
      BY EmptySeq
    <3> QED
      BY <2>1, <3>1, ConcatEmptySeq DEF Stream
  <2>3. listener.at # "ended" => listener.reading = NoMessage
    BY <1>6 DEF ListenerInStep, IpcTypeOK, Listens, Unstopped
  <2>4. WellSent(Stream', sender'.sent) /\ (listener.at # "ended" => Expects(Stream', listener.reading))
    BY <2>2, <2>3, NothingIsWellSent DEF Expects
  <2>5. \A i \in 1 .. Len(sender'.todo) : sender'.todo[i].msg = sender'.sent
    BY <2>1, NothingIsWellSent
  <2>6. StreamIsWhole'
    BY <1>1, <1>3, <2>4, <2>5 DEF StreamIsWhole
  <2>7. TakenInOrder'
    BY <1>1, <1>4, <1>5, <2>1 DEF TakenInOrder
  <2>8. EndsAreTaken => EndsAreTaken'
    <3>1. socket'.queue = q /\ sender'.taken = sender.taken /\ received' = received
      BY <1>1, <2>1
    <3> QED
      BY <3>1 DEF EndsAreTaken
  <2> QED
    BY <2>6, <2>7, <2>8
<1>7. CASE socket.named
  <2>1. socket'.queue = Append(q, d) /\ sender'.todo = Tail(todo)
        /\ sender'.taken = IF Len(todo) = 1 THEN Append(sender.taken, sender.sent) ELSE sender.taken
    BY <1>1, <1>7 DEF IpcTypeOK
  <2>2. Stream' = Stream
    BY <1>1, <1>2, <2>1, SentOfStream DEF Stream
  <2>3. \A i \in 1 .. Len(Tail(todo)) : Tail(todo)[i].msg = sender.sent
    <3> TAKE i \in 1 .. Len(Tail(todo))
    <3>1. i + 1 \in 1 .. Len(todo) /\ Tail(todo)[i] = todo[i + 1]
      BY <1>2
    <3> QED
      BY <1>3, <3>1
  <2>4. StreamIsWhole'
    BY <1>1, <1>3, <1>4, <2>1, <2>2, <2>3 DEF StreamIsWhole
  (* The last datagram of a message is its end, and no other is. *)
  <2>5. Ends(d) <=> Len(todo) = 1
    <3>1. /\ \A i \in 1 .. Len(todo) : Len(q) + i \in 1 .. Len(Stream) /\ Stream[Len(q) + i] = todo[i]
          /\ Len(Stream) = Len(q) + Len(todo) /\ Len(q) \in Nat
      BY <1>2, StreamTypes, LenProperties
    <3>2. CASE Len(todo) = 1
      <4>1. Stream[Len(Stream)] = d /\ Len(Stream) # 0
        BY <1>2, <3>1, <3>2
      <4> QED
        BY <1>3, <3>2, <4>1 DEF WellSent
    <3>3. CASE Len(todo) # 1
      <4>0. Len(todo) \in Nat \ {0, 1} /\ Len(q) \in Nat
        BY <1>2, <3>1, <3>3
      <4>1. 1 \in 1 .. Len(todo) /\ 2 \in 1 .. Len(todo) /\ Len(q) + 1 < Len(q) + 2
        <5>1. \A n \in Nat \ {0, 1} : 1 \in 1 .. n /\ 2 \in 1 .. n
          OBVIOUS
        <5>2. \A n \in Nat : n + 1 < n + 2
          OBVIOUS
        <5> QED
          BY <4>0, <5>1, <5>2
      <4>2. /\ Len(q) + 1 \in 1 .. Len(Stream) /\ Stream[Len(q) + 1] = d
            /\ Len(q) + 2 \in 1 .. Len(Stream) /\ Stream[Len(q) + 2] = todo[2]
        BY <1>2, <3>1, <4>1
      <4>3. Ends(d) => d.msg < todo[2].msg
        BY <1>3, <4>1, <4>2 DEF WellSent
      <4>4. d.msg = sender.sent /\ todo[2].msg = sender.sent
        BY <1>2, <1>3, <4>1
      <4> QED
        BY <1>2, <3>3, <4>3, <4>4
    <3> QED
      BY <3>2, <3>3
  <2>6. d.msg = sender.sent
    <3>1. 1 \in 1 .. Len(todo)
      BY <1>2
    <3> QED
      BY <1>2, <1>3, <3>1
  <2> DEFINE after == Append(q, d)
  <2>7. /\ Len(after) = Len(q) + 1 /\ Len(q) \in Nat /\ after[Len(q) + 1] = d
        /\ \A i \in 1 .. Len(q) : after[i] = q[i]
    BY <1>2
  <2>10. socket'.queue = after
    BY <2>1
  <2> HIDE DEF after
  <2>8. CASE Len(todo) # 1
    <3>1. sender'.taken = sender.taken /\ ~Ends(d) /\ received' = received
      BY <1>1, <2>1, <2>5, <2>8
    <3>2. TakenInOrder'
      BY <1>4, <1>5, <3>1 DEF TakenInOrder
    <3>3. ASSUME EndsAreTaken
          PROVE  EndsAreTaken'
      <4>1. ASSUME NEW k \in 1 .. Len(sender.taken), Len(received) < k
            PROVE  \E i \in 1 .. Len(after) : Ends(after[i]) /\ after[i].msg = sender.taken[k]
        <5>1. PICK i \in 1 .. Len(q) : Ends(q[i]) /\ q[i].msg = sender.taken[k]
          BY <3>3, <4>1 DEF EndsAreTaken, EndsAreBehind
        <5>2. i \in 1 .. Len(after) /\ after[i] = q[i]
          BY <2>7
        <5> QED
          BY <5>1, <5>2
      <4>2. ASSUME NEW i \in 1 .. Len(after), Ends(after[i])
            PROVE  \E k \in 1 .. Len(sender.taken) : Len(received) < k /\ sender.taken[k] = after[i].msg
        <5>1. i \in 1 .. Len(q) /\ after[i] = q[i]
          BY <2>7, <3>1, <4>2
        <5> QED
          BY <3>3, <4>2, <5>1 DEF EndsAreTaken, EndsAreBehind
      <4>3. EndsAreBehind(Len(received), sender.taken, after)
        BY <4>1, <4>2 DEF EndsAreBehind
      <4> QED
        BY <2>10, <3>1, <4>3 DEF EndsAreTaken
    <3> QED
      BY <2>4, <3>2, <3>3
  <2>9. CASE Len(todo) = 1
    <3> DEFINE taken == Append(sender.taken, sender.sent)
    <3>1. sender'.taken = taken /\ Ends(d) /\ received' = received /\ sender'.todo = <<>>
      <4>1. Len(Tail(todo)) = 0
        BY <1>2, <2>9
      <4>2. Tail(todo) = <<>>
        BY <1>2, <4>1, EmptySeq
      <4> QED
        BY <1>1, <2>1, <2>5, <2>9, <4>2
    <3>2. /\ Len(taken) = Len(sender.taken) + 1 /\ taken[Len(sender.taken) + 1] = sender.sent
          /\ \A i \in 1 .. Len(sender.taken) : taken[i] = sender.taken[i]
      BY <1>2
    <3> HIDE DEF taken
    <3>3. TakenInOrder'
      <4>1. \A i, j \in 1 .. Len(taken) : i < j => taken[i] < taken[j]
        <5> SUFFICES ASSUME NEW i \in 1 .. Len(taken), NEW j \in 1 .. Len(taken), i < j
                     PROVE  taken[i] < taken[j]
          OBVIOUS
        <5>1. i \in 1 .. Len(sender.taken) /\ (j \in 1 .. Len(sender.taken) \/ j = Len(sender.taken) + 1)
          BY <1>5, <3>2
        <5> QED
          BY <1>5, <3>2, <5>1
      <4>2. \A i \in 1 .. Len(taken) : taken[i] <= sender.sent
        <5> TAKE i \in 1 .. Len(taken)
        <5>1. i \in 1 .. Len(sender.taken) \/ i = Len(sender.taken) + 1
          BY <1>5, <3>2
        <5> QED
          BY <1>2, <1>5, <3>2, <5>1
      <4>3. Len(received) <= Len(taken) /\ \A i \in 1 .. Len(received) : received[i] = taken[i]
        BY <1>5, <3>2
      <4> QED
        BY <1>4, <3>1, <4>1, <4>2, <4>3 DEF TakenInOrder
    <3>4. ASSUME EndsAreTaken
          PROVE  EndsAreTaken'
      <4>1. ASSUME NEW k \in 1 .. Len(taken), Len(received) < k
            PROVE  \E i \in 1 .. Len(after) : Ends(after[i]) /\ after[i].msg = taken[k]
        <5>1. CASE k \in 1 .. Len(sender.taken)
          <6>1. PICK i \in 1 .. Len(q) : Ends(q[i]) /\ q[i].msg = sender.taken[k]
            BY <3>4, <4>1, <5>1 DEF EndsAreTaken, EndsAreBehind
          <6>2. i \in 1 .. Len(after) /\ after[i] = q[i] /\ taken[k] = sender.taken[k]
            BY <2>7, <3>2, <5>1
          <6> QED
            BY <6>1, <6>2
        <5>2. CASE k = Len(sender.taken) + 1
          <6>1. Len(q) + 1 \in 1 .. Len(after)
            BY <2>7
          <6> QED
            BY <2>6, <2>7, <3>1, <3>2, <5>2, <6>1
        <5> QED
          BY <1>5, <3>2, <5>1, <5>2
      <4>2. ASSUME NEW i \in 1 .. Len(after), Ends(after[i])
            PROVE  \E k \in 1 .. Len(taken) : Len(received) < k /\ taken[k] = after[i].msg
        <5>1. CASE i \in 1 .. Len(q)
          <6>1. PICK k \in 1 .. Len(sender.taken) : Len(received) < k /\ sender.taken[k] = q[i].msg
            BY <2>7, <3>4, <4>2, <5>1 DEF EndsAreTaken, EndsAreBehind
          <6>2. k \in 1 .. Len(taken) /\ taken[k] = sender.taken[k]
            BY <1>5, <3>2
          <6> QED
            BY <2>7, <5>1, <6>1, <6>2
        <5>2. CASE i = Len(q) + 1
          <6>1. Len(sender.taken) + 1 \in 1 .. Len(taken) /\ Len(received) < Len(sender.taken) + 1
            BY <1>5, <3>2
          <6> QED
            BY <2>6, <2>7, <3>2, <5>2, <6>1
        <5> QED
          BY <2>7, <5>1, <5>2
      <4>3. EndsAreBehind(Len(received), taken, after)
        BY <4>1, <4>2 DEF EndsAreBehind
      <4> QED
        BY <2>10, <3>1, <4>3 DEF EndsAreTaken
    <3> QED
      BY <2>4, <3>3, <3>4
  <2> QED
    BY <2>8, <2>9
<1> QED
  BY <1>6, <1>7

-----------------------------------------------------------------------------
(* Every step.                                                             *)

(* Neither the socket nor what was read changes, or the listener ends.     *)
LEMMA QuietSocketKeeps ==
  ASSUME StreamIsWhole, Unstopped, TakenInOrder, listener.at # "ended" => EndsAreTaken,
         sender' = sender, received' = received, socket'.queue = socket.queue,
         \/ listener'.reading = listener.reading /\ listener.at # "ended"
         \/ listener'.reading = NoMessage /\ listener'.at = "ended"
  PROVE  StreamIsWhole' /\ TakenInOrder' /\ (listener'.at # "ended" => EndsAreTaken')
<1>1. Stream' = Stream
  BY DEF Stream
<1>2. TakenInOrder'
  BY DEF TakenInOrder
<1>3. EndsAreTaken => EndsAreTaken'
  BY DEF EndsAreTaken
<1>4. /\ WellSent(Stream, sender.sent)
      /\ \A i \in 1 .. Len(sender.todo) : sender.todo[i].msg = sender.sent
      /\ listener.at # "ended" => Expects(Stream, listener.reading)
      /\ listener.reading # NoMessage =>
           \A i \in 1 .. Len(listener.reading.got) :
             IsPart(listener.reading.got[i], listener.reading.msg, i)
  BY DEF StreamIsWhole
<1>5. CASE listener'.reading = listener.reading /\ listener.at # "ended"
  <2>1. /\ WellSent(Stream', sender'.sent)
        /\ \A i \in 1 .. Len(sender'.todo) : sender'.todo[i].msg = sender'.sent
        /\ listener'.at # "ended" => Expects(Stream', listener'.reading)
        /\ listener'.reading # NoMessage =>
             \A i \in 1 .. Len(listener'.reading.got) :
               IsPart(listener'.reading.got[i], listener'.reading.msg, i)
    BY <1>1, <1>4, <1>5
  <2>2. StreamIsWhole'
    BY <2>1 DEF StreamIsWhole, IsPart
  <2> QED
    BY <1>2, <1>3, <1>5, <2>2
<1>6. CASE listener'.reading = NoMessage /\ listener'.at = "ended"
  <2>1. StreamIsWhole'
    BY <1>1, <1>4, <1>6 DEF StreamIsWhole
  <2> QED
    BY <1>2, <1>6, <2>1
<1> QED
  BY <1>5, <1>6

LEMMA EndingKeepsQueue ==
  ASSUME IpcTypeOK, NEW queue, EndListening(queue)
  PROVE  /\ socket'.queue = queue
         /\ listener'.reading = NoMessage /\ listener'.at = "ended"
BY DEF EndListening, IpcTypeOK

LEMMA StreamKeeps ==
  ASSUME IpcInv, IpcNext, Unstopped'
  PROVE  StreamIsWhole' /\ TakenInOrder' /\ (listener'.at # "ended" => EndsAreTaken')
<1>1. IpcTypeOK /\ ListenerInStep /\ StreamIsWhole
  BY DEF IpcInv
<1>2. CASE StartListeningNonBlocking
  <2>1. Unstopped /\ listener.at = "none"
    BY <1>1, <1>2 DEF StartListeningNonBlocking, Unstopped, ListenerInStep
  <2>2. /\ sender' = sender /\ received' = received /\ socket'.queue = socket.queue
        /\ listener'.reading = listener.reading
    BY <1>1, <1>2 DEF StartListeningNonBlocking, IpcTypeOK
  <2> QED
    BY <1>1, <2>1, <2>2, QuietSocketKeeps DEF IpcInv
<1>3. CASE RequestStop
  BY <1>1, <1>3 DEF RequestStop, Unstopped, IpcTypeOK
<1>4. CASE SendAbort
  BY <1>1, <1>4 DEF SendAbort, Unstopped, IpcTypeOK
<1>5. CASE CloseFd
  BY <1>1, <1>5 DEF CloseFd, Unstopped, IpcTypeOK
<1>6. CASE Unlink
  BY <1>1, <1>6 DEF Unlink, Unstopped, IpcTypeOK
<1>7. CASE SendMessage
  <2>1. Unstopped /\ listener' = listener
    BY <1>7 DEF SendMessage, Unstopped
  <2> QED
    BY <1>1, <1>7, <2>1, SendMessageKeeps DEF IpcInv
<1>8. CASE SendDatagram
  <2>1. Unstopped /\ listener' = listener
    BY <1>8 DEF SendDatagram, Unstopped
  <2> QED
    BY <1>1, <1>8, <2>1, SendDatagramKeeps DEF IpcInv
<1>9. CASE Bind
  <2>1. Unstopped /\ listener.at = "start" /\ sender' = sender /\ received' = received
    BY <1>9 DEF Bind, Unstopped
  <2>2. ~socket.named /\ socket.queue = <<>> /\ listener.reading = NoMessage
    BY <1>1, <2>1 DEF ListenerInStep
  <2>3. socket'.queue = socket.queue
    BY <1>9, <2>2 DEF Bind
  <2>4. listener'.reading = listener.reading
    BY <1>1, <1>9 DEF Bind, IpcTypeOK
  <2> QED
    BY <1>1, <2>1, <2>3, <2>4, QuietSocketKeeps DEF IpcInv
<1>10. CASE Publish
  <2>1. Unstopped /\ listener.at = "bound" /\ sender' = sender /\ received' = received /\ socket' = socket
    BY <1>10 DEF Publish, Unstopped
  <2>2. listener'.reading = listener.reading
    BY <1>1, <1>10 DEF Publish, IpcTypeOK
  <2> QED
    BY <1>1, <2>1, <2>2, QuietSocketKeeps DEF IpcInv
<1>11. CASE Recvfrom
  <2>1. Unstopped /\ listener.at = "receive" /\ sender' = sender /\ received' = received
    BY <1>11 DEF Recvfrom, Unstopped
  <2>2. \/ listener'.reading = listener.reading /\ socket' = socket
        \/ EndListening(socket.queue)
    BY <1>1, <1>11 DEF Recvfrom, IpcTypeOK
  <2>3. \/ listener'.reading = listener.reading /\ socket'.queue = socket.queue
        \/ listener'.reading = NoMessage /\ listener'.at = "ended" /\ socket'.queue = socket.queue
    BY <1>1, <2>2, EndingKeepsQueue
  <2> QED
    BY <1>1, <2>1, <2>3, QuietSocketKeeps DEF IpcInv
<1>12. CASE RecvfromFails
  <2>1. Unstopped /\ sender' = sender /\ received' = received /\ EndListening(socket.queue)
    BY <1>12 DEF RecvfromFails, Unstopped
  <2>2. listener'.reading = NoMessage /\ listener'.at = "ended" /\ socket'.queue = socket.queue
    BY <1>1, <2>1, EndingKeepsQueue
  <2> QED
    BY <1>1, <2>1, <2>2, QuietSocketKeeps DEF IpcInv
<1>13. CASE ReceiveAbort
  <2>1. /\ Unstopped /\ listener.at = "waiting" /\ socket.queue # <<>> /\ Datagram = Abort
    BY <1>13 DEF ReceiveAbort, Unstopped, Arrives
  <2>2. socket.queue \in Seq(Datagrams)
    BY <1>1, StreamTypes
  <2>3. Len(socket.queue) \in Nat \ {0} /\ Datagram = socket.queue[1]
    BY <2>1, <2>2, EmptySeq DEF Datagram
  <2>4. 1 \in 1 .. Len(Stream) /\ Stream[1] = Abort
    <3>1. 1 \in 1 .. Len(socket.queue)
      BY <2>3
    <3> QED
      BY <1>1, <2>1, <2>3, <3>1, StreamTypes
  <2>5. Proper(Abort)
    BY <1>1, <2>1, <2>4 DEF StreamIsWhole, WellSent
  <2>6. ~Proper(Abort)
    BY DEF Proper, Abort
  <2> QED
    BY <2>5, <2>6
<1>14. CASE ReceiveShort
  <2>1. Unstopped /\ listener.at # "ended"
    BY <1>14 DEF ReceiveShort, Unstopped, Arrives
  <2> QED
    BY <1>1, <1>14, <2>1, ReceiveShortKeeps DEF IpcInv
<1>15. CASE ReceiveHead
  <2>1. Unstopped /\ listener.at # "ended"
    BY <1>15 DEF ReceiveHead, Unstopped, Arrives
  <2> QED
    BY <1>1, <1>15, <2>1, ReceiveHeadKeeps DEF IpcInv
<1>16. CASE ReceivePart
  <2>1. Unstopped /\ listener.at # "ended"
    BY <1>16 DEF ReceivePart, Unstopped, Arrives
  <2> QED
    BY <1>1, <1>16, <2>1, ReceivePartKeeps DEF IpcInv
<1> QED
  BY <1>2, <1>3, <1>4, <1>5, <1>6, <1>7, <1>8, <1>9, <1>10, <1>11, <1>12, <1>13, <1>14, <1>15, <1>16 DEF IpcNext

LEMMA IpcInitHolds == IpcInit => IpcInv
<1> SUFFICES ASSUME IpcInit PROVE IpcInv
  OBVIOUS
<1> USE DEF IpcInit
<1>1. <<>> \in Seq(Datagrams) /\ <<>> \in Seq(Nat) /\ Len(<<>>) = 0
  BY EmptySeq
<1>2. IpcTypeOK
  BY <1>1 DEF IpcTypeOK, NoMessage, Reading
<1>3. ListenerInStep
  BY DEF ListenerInStep, Unstopped, Listens
<1>4. AbortWaits
  BY DEF AbortWaits
<1>5. StreamIsWhole
  <2>1. Stream = <<>>
    BY <1>1, ConcatEmptySeq DEF Stream
  <2>2. WellSent(Stream, sender.sent) /\ Len(Stream) = 0
    BY <2>1, NothingIsWellSent
  <2>3. Expects(Stream, listener.reading)
    BY <2>2 DEF Expects
  <2>4. \A i \in 1 .. Len(sender.todo) : sender.todo[i].msg = sender.sent
    BY <1>1
  <2> QED
    BY <2>2, <2>3, <2>4 DEF StreamIsWhole
<1>6. TakenInOrder /\ EndsAreTaken
  BY <1>1 DEF TakenInOrder, EndsAreTaken, EndsAreBehind
<1> QED
  BY <1>2, <1>3, <1>4, <1>5, <1>6 DEF IpcInv

LEMMA IpcUnchangedHolds ==
  ASSUME IpcInv, UNCHANGED ipcVars
  PROVE  IpcInv'
BY DEF IpcInv, ipcVars, IpcTypeOK, ListenerInStep, AbortWaits, StreamIsWhole, TakenInOrder, EndsAreTaken,
       Unstopped, Listens, Stream

(* The state of socket, listener, owner and sender, in every step.         *)
THEOREM IpcHolds == IpcSpec => []IpcInv
<1>1. IpcInit => IpcInv
  BY IpcInitHolds
<1>2. IpcInv /\ [IpcNext]_ipcVars => IpcInv'
  <2>1. ASSUME IpcInv, IpcNext
        PROVE  IpcInv'
    <3>1. IpcTypeOK /\ ListenerInStep /\ AbortWaits
      BY <2>1 DEF IpcInv
    <3>2. IpcTypeOK' /\ ListenerInStep' /\ AbortWaits'
      BY <2>1, <3>1, IpcTypeKeeps, ListenerKeeps, AbortKeeps
    <3>3. Unstopped' => StreamIsWhole' /\ TakenInOrder' /\ (listener'.at # "ended" => EndsAreTaken')
      BY <2>1, StreamKeeps
    <3>4. StreamIsWhole'
      BY <3>3 DEF StreamIsWhole
    <3> QED
      BY <3>2, <3>3, <3>4 DEF IpcInv
  <2> QED
    BY <2>1, IpcUnchangedHolds
<1> QED
  BY <1>1, <1>2, PTL DEF IpcSpec

(* Until it is stopped a listener hands over what the socket took whole,   *)
(* in order and each message once, however long messages are cut and       *)
(* whatever is behind them.                                                *)
THEOREM MessagesWhole == IpcSpec => []MessagesArriveWhole
<1>1. ASSUME IpcInv
      PROVE  MessagesArriveWhole
  <2> SUFFICES ASSUME Unstopped
               PROVE  /\ \A i \in DOMAIN received : received[i] = sender.taken[i]
                      /\ listener.at = "waiting" /\ socket.queue = <<>> /\ sender.todo = <<>>
                            => received = sender.taken
    BY DEF MessagesArriveWhole, Unstopped
  <2>1. TakenInOrder /\ received \in Seq(Nat) /\ sender.taken \in Seq(Nat)
    BY <1>1 DEF IpcInv, IpcTypeOK
  <2>2. DOMAIN received = 1 .. Len(received) /\ Len(received) \in Nat /\ Len(sender.taken) \in Nat
    BY <2>1, LenProperties
  <2>3. Len(received) <= Len(sender.taken) /\ \A i \in 1 .. Len(received) : received[i] = sender.taken[i]
    BY <2>1 DEF TakenInOrder
  <2>4. ASSUME listener.at = "waiting", socket.queue = <<>>
        PROVE  received = sender.taken
    <3>1. EndsAreTaken
      BY <1>1, <2>4 DEF IpcInv
    <3>2. 1 .. Len(socket.queue) = {}
      BY <2>4, EmptySeq
    <3>3. ~ \E k \in 1 .. Len(sender.taken) : Len(received) < k
      BY <3>1, <3>2 DEF EndsAreTaken, EndsAreBehind
    <3>4. Len(received) = Len(sender.taken)
      <4> SUFFICES ASSUME Len(received) # Len(sender.taken) PROVE FALSE
        OBVIOUS
      <4>1. Len(sender.taken) \in 1 .. Len(sender.taken) /\ Len(received) < Len(sender.taken)
        BY <2>2, <2>3
      <4> QED
        BY <3>3, <4>1
    <3> QED
      BY <2>1, <2>3, <3>4, SeqEqual
  <2> QED
    BY <2>2, <2>3, <2>4
<1> QED
  BY <1>1, IpcHolds, PTL

(* A listener that was ready when it was stopped has in its socket the     *)
(* message that ends it, unless it has read that in the middle of another. *)
THEOREM StopsAreHeard == IpcSpec => []StopIsHeard
<1>1. ASSUME IpcInv
      PROVE  StopIsHeard
  <2>1. AbortWaits /\ socket.queue \in Seq(Datagrams)
    BY <1>1 DEF IpcInv, IpcTypeOK
  <2>2. DOMAIN socket.queue = 1 .. Len(socket.queue)
    BY <2>1, LenProperties
  <2> QED
    BY <2>1, <2>2 DEF AbortWaits, StopIsHeard, StoppedWaiting, Listens
<1> QED
  BY <1>1, IpcHolds, PTL
=============================================================================
