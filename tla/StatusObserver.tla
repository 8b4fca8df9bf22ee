--------------------------- MODULE StatusObserver ---------------------------
(***************************************************************************)
(* SystemStatusOsObserver, the part of SystemStatus that records what it   *)
(* is told, and XtraSystemStatusObserver, the client inside the location   *)
(* service.  Clients subscribe to data items; the framework and the HIDL   *)
(* service notify values; the XTRA daemon on the other side of a socket is *)
(* told the network, the cell and the lock.  Every call is a message on    *)
(* the one queue of the adapter, handled by its thread.                    *)
(*                                                                         *)
(* Outside this repository: the daemon, the framework behind               *)
(* IDataItemSubscription and IFrameworkActionReq, and the other clients.   *)
(***************************************************************************)
EXTENDS Naturals, Sequences, Functions, SetMap, Maps

CONSTANTS
    Others,         \* observers other than XtraSystemStatusObserver
    OtherItems,     \* the items those observers ask for
    NetworkTypes,   \* the bits of NetworkInfoDataItemBase.mAllTypes
    Cells,          \* the values of the other data items
    Locks,          \* the locks the adapter sets
    MaxObserverMail,\* bound: messages in the queue when a new one is sent
    MaxUses         \* bound: unbalanced turnOn calls

Xtra == "xtra"
ASSUME OthersAssumption == Xtra \notin Others

Observers == Others \cup {Xtra}
XtraItems == {"network", "mccmnc"}
Items == XtraItems \cup {"tac"} \cup OtherItems

\* A data item on its way in.  For the network, types is the bit of its type
\* (none for TYPE_UNKNOWN); for the rest it holds the value.
NetworkNews == [connected : BOOLEAN, types : {{}} \cup {{t} : t \in NetworkTypes}]
PlainNews == [connected : {TRUE}, types : {{v} : v \in Cells}]
News(item) == IF item = "network" THEN NetworkNews ELSE PlainNews

\* The list that one notify takes: news of some items, an item once.
NewsLists == UNION {{list \in [items -> NetworkNews \cup PlainNews] :
                    \A i \in items : list[i] \in News(i)} : items \in (SUBSET Items) \ {{}}}

VARIABLES
    clientToItems,  \* mClientToDataItems
    itemToClients,  \* mDataItemToClients
    cache,          \* mDataItemCache, and the newest reports of SystemStatus
    attached,       \* mContext.mSubscriptionObj is set
    framework,      \* the items the framework is subscribed to
    refs,           \* mActiveRequestCount of one framework module
    module,         \* that module: is it on, how many callers want it on
    mail,           \* the queue of the adapter's MsgTask
    xtra,           \* the fields of XtraSystemStatusObserver
    daemon,         \* the XTRA daemon
    history         \* what the properties compare with

observerVars == <<clientToItems, itemToClients>>
moduleVars == <<refs, module>>
xtraVars == <<xtra, daemon>>
statusVars == <<clientToItems, itemToClients, cache, attached, framework, refs, module,
                mail, xtra, daemon, history>>

CanSend == Len(mail) < MaxObserverMail
Send(message) == mail' = Append(mail, message)

Subscribing(items, client, request) ==
    [op |-> "subscribe", items |-> items, client |-> client, request |-> request]

\* SystemStatus and the adapter have just been built: the constructor of
\* XtraSystemStatusObserver has sent its two subscriptions.
StatusInit ==
    /\ clientToItems = EmptyMap(Observers)
    /\ itemToClients = EmptyMap(Items)
    /\ cache = <<>>
    /\ attached = FALSE
    /\ framework = {}
    /\ refs = 0
    /\ module = [attached |-> FALSE, on |-> FALSE, wanted |-> 0]
    /\ mail = <<Subscribing(XtraItems, Xtra, FALSE), Subscribing({"tac"}, Xtra, TRUE)>>
    /\ xtra = [listening |-> FALSE, asked |-> FALSE, lock |-> {}, known |-> <<>>]
    /\ \E up \in BOOLEAN : daemon = [up |-> up, waiting |-> FALSE, view |-> <<>>]
    /\ history = [told |-> [c \in Others |-> <<>>], live |-> {}, misread |-> {},
                  updated |-> {}, onlyRequested |-> {}, wish |-> [c \in Others |-> {}]]

-----------------------------------------------------------------------------
(* Calls from any thread: each one sends a message.                        *)

SetSubscriptionObj ==
    /\ CanSend
    /\ ~attached
    /\ \A k \in DOMAIN mail : mail[k].op # "attach"
    /\ Send([op |-> "attach"])
    /\ UNCHANGED <<observerVars, cache, attached, framework, moduleVars, xtraVars, history>>

Wishes(c, items) == history' = [history EXCEPT !.wish[c] = items]

\* subscribe and requestData
Subscribe(c, items, request) ==
    /\ CanSend
    /\ Send(Subscribing(items, c, request))
    /\ Wishes(c, history.wish[c] \cup items)
    /\ UNCHANGED <<observerVars, cache, attached, framework, moduleVars, xtraVars>>

UpdateSubscription(c, items) ==
    /\ CanSend
    /\ Send([op |-> "update", items |-> items, client |-> c])
    /\ Wishes(c, items)
    /\ UNCHANGED <<observerVars, cache, attached, framework, moduleVars, xtraVars>>

Unsubscribe(c, items) ==
    /\ CanSend
    /\ Send([op |-> "unsubscribe", items |-> items, client |-> c])
    /\ Wishes(c, history.wish[c] \ items)
    /\ UNCHANGED <<observerVars, cache, attached, framework, moduleVars, xtraVars>>

UnsubscribeAll(c) ==
    /\ CanSend
    /\ Send([op |-> "unsubscribeAll", client |-> c])
    /\ Wishes(c, {})
    /\ UNCHANGED <<observerVars, cache, attached, framework, moduleVars, xtraVars>>

\* notify: from the framework, or with one item from eventConnectionStatus.
Notify(list) ==
    /\ CanSend
    /\ Send([op |-> "notify", list |-> list])
    /\ UNCHANGED <<observerVars, cache, attached, framework, moduleVars, xtraVars, history>>

-----------------------------------------------------------------------------
(* The messages.  Tell is sendCachedDataItems for every client of notices: *)
(* XtraSystemStatusObserver copies what it hears into a message of its     *)
(* own, the other observers are called at once.                            *)

Cached(items) == Restrict(cache', items \cap DOMAIN cache')

HeardBy(notices) ==
    [c \in Others |-> IF c \in DOMAIN notices THEN Over(Cached(notices[c]), history.told[c])
                                              ELSE history.told[c]]

Tell(notices) ==
    mail' = Tail(mail) \o IF Xtra \in DOMAIN notices /\ Cached(notices[Xtra]) # <<>>
                          THEN <<[op |-> "news", values |-> Cached(notices[Xtra])]>>
                          ELSE <<>>

\* Mutant: only for the items that nobody was subscribed to.
FirstResponseToNew(m) == [c \in {m.client} |-> NewKeys(itemToClients, m.items)]

\* The first response to a subscription is for all its items, known or not.
FirstResponse(m) == [c \in {m.client} |-> m.items]

Handles(op) == mail # <<>> /\ Head(mail).op = op

\* SetSubsObj::proc
Attach ==
    /\ Handles("attach")
    /\ attached' = TRUE
    /\ framework' = framework \cup Entries(itemToClients)
    /\ mail' = Tail(mail)
    /\ UNCHANGED <<observerVars, cache, moduleVars, xtraVars, history>>

\* HandleSubscribeReq::proc.  Only the items new to the map go to the
\* framework, subscribed or merely requested as this first caller wishes.
HandleSubscribe ==
    /\ Handles("subscribe")
    /\ LET m == Head(mail)
           fresh == IF attached THEN NewKeys(itemToClients, m.items) ELSE {}
           notices == FirstResponse(m)
       IN  /\ itemToClients' = AddVals(itemToClients, m.items, {m.client})
           /\ clientToItems' = AddVals(clientToItems, {m.client}, m.items)
           /\ framework' = IF m.request THEN framework ELSE framework \cup fresh
           /\ UNCHANGED cache
           /\ Tell(notices)
           /\ history' = [history EXCEPT
                !.told = HeardBy(notices),
                !.onlyRequested = IF m.request THEN @ \cup fresh ELSE @ \ fresh]
    /\ UNCHANGED <<attached, moduleVars, xtraVars>>

\* The keys that a trimOrRemove of the item map reports gone.  Each is read from
\* an entry just erased: it is the key, or freed memory that names no item.
Reported(gone) == SUBSET gone

\* What removeAndReturnInterset finds of the shared values: it goes on from an
\* element it has erased, so that any number of those after the first are missed.
Found(shared) == {some \in SUBSET shared : shared # {} => some # {}}

\* HandleUpdateSubscriptionReq::proc
HandleUpdate ==
    /\ Handles("update")
    /\ \E kept \in Found(Interset(clientToItems, Head(mail).client, Head(mail).items)) :
       LET m == Head(mail)
           others == m.items \ kept
           trimmed == TrimOrRemove(itemToClients, kept, {m.client})
           fresh == NewKeys(trimmed, others)
           notices == [c \in {m.client} |-> others]
       IN  /\ clientToItems' = Update(clientToItems, m.client, m.items)
           /\ itemToClients' = AddVals(trimmed, others, {m.client})
           /\ \E gone \in Reported(GoneKeys(itemToClients, kept, {m.client})) :
                framework' = IF attached THEN (framework \cup fresh) \ gone ELSE framework
           /\ UNCHANGED cache
           /\ Tell(notices)
           /\ history' = [history EXCEPT !.told = HeardBy(notices),
                                         !.onlyRequested = @ \ (IF attached THEN fresh ELSE {}),
                                         !.updated = @ \cup {m.client}]
    /\ UNCHANGED <<attached, moduleVars, xtraVars>>

\* What HandleUnsubscribeReq and HandleUnsubscribeAllReq share: the client
\* leaves the entries of these items, and the framework hears of those that
\* are left without one.
Leave(c, items) ==
    /\ itemToClients' = TrimOrRemove(itemToClients, items, {c})
    /\ \E gone \in Reported(GoneKeys(itemToClients, items, {c})) :
         framework' = IF attached THEN framework \ gone ELSE framework
    /\ history' = [history EXCEPT !.told[c] = Restrict(@, DOMAIN @ \ items)]

HandleUnsubscribe ==
    /\ Handles("unsubscribe")
    /\ LET m == Head(mail) IN
         /\ clientToItems' = TrimOrRemove(clientToItems, {m.client}, m.items)
         /\ Leave(m.client, GoneVals(clientToItems, {m.client}, m.items))
    /\ mail' = Tail(mail)
    /\ UNCHANGED <<cache, attached, moduleVars, xtraVars>>

HandleUnsubscribeAll ==
    /\ Handles("unsubscribeAll")
    /\ LET c == Head(mail).client IN
         /\ clientToItems' = TrimOrRemove(clientToItems, {c}, Items)
         /\ Leave(c, clientToItems[c])
    /\ mail' = Tail(mail)
    /\ UNCHANGED <<cache, attached, moduleVars, xtraVars>>

\* SystemStatusNetworkInfo::collate: the network types are gathered over the
\* events, a disconnection of no type in particular ends them all.
Collate(item, old, news) ==
    IF item # "network" THEN news.types
    ELSE IF news.connected THEN old \cup news.types
    ELSE IF news.types # {} THEN old \ news.types
    ELSE {}

\* setIteminReport: the first report of an item is taken as it is.
Recorded(item, news) ==
    IF item \in DOMAIN cache THEN Collate(item, cache[item], news) ELSE news.types

\* The networks that are really connected after these news.
Live(before, news) ==
    IF news.connected THEN before \cup news.types
    ELSE {t \in before : news.types # {} /\ t \notin news.types}

\* A first report that says a type is gone leaves that type recorded as
\* connected, until news of it, or of the end of all, correct that.
Lives(news) ==
    [history EXCEPT
        !.live = Live(@, news),
        !.misread = IF news.connected THEN @
                    ELSE IF "network" \notin DOMAIN cache THEN news.types
                    ELSE Live(@, news)]

\* HandleNotify::proc with eventDataItemNotify and updateCache: all the items
\* are recorded, then each client hears once of those that have changed.
HandleNotify ==
    /\ Handles("notify")
    /\ LET list == Head(mail).list
           value == [i \in DOMAIN list |-> Recorded(i, list[i])]
           changed == {i \in DOMAIN list : i \notin DOMAIN cache \/ cache[i] # value[i]}
           listeners == UNION {itemToClients[i] : i \in changed}
           notices == [c \in listeners |-> clientToItems[c] \cap changed]
           lives == IF "network" \in DOMAIN list THEN Lives(list["network"]) ELSE history
       IN  /\ cache' = Over(value, cache)
           /\ Tell(notices)
           /\ history' = [lives EXCEPT !.told = HeardBy(notices)]
    /\ UNCHANGED <<observerVars, attached, framework, moduleVars, xtraVars>>

-----------------------------------------------------------------------------
(* turnOn and turnOff: references counted by the callers, the framework    *)
(* asked by message.                                                       *)

SetFrameworkActionReqObj ==
    /\ ~module.attached
    /\ module' = [module EXCEPT !.attached = TRUE]
    /\ UNCHANGED <<observerVars, cache, attached, framework, refs, mail, xtraVars, history>>

\* SystemStatusOsObserver::turnOn; its message calls turnOn of this very object.
CountUse(rest) ==
    /\ refs' = refs + 1
    /\ mail' = IF refs = 0 THEN Append(rest, [op |-> "turnOn"]) ELSE rest

TurnOn ==
    /\ CanSend
    /\ module.attached
    /\ module.wanted < MaxUses
    /\ CountUse(mail)
    /\ module' = [module EXCEPT !.wanted = @ + 1]
    /\ UNCHANGED <<observerVars, cache, attached, framework, xtraVars, history>>

HandleTurnOn ==
    /\ Handles("turnOn")
    /\ CountUse(Tail(mail))
    /\ UNCHANGED <<observerVars, cache, attached, framework, module, xtraVars, history>>

TurnOff ==
    /\ CanSend
    /\ module.wanted > 0
    /\ module' = [module EXCEPT !.wanted = @ - 1]
    /\ refs' = IF refs = 0 THEN 0 ELSE refs - 1
    /\ mail' = IF refs = 1 THEN Append(mail, [op |-> "turnOff"]) ELSE mail
    /\ UNCHANGED <<observerVars, cache, attached, framework, xtraVars, history>>

\* HandleTurnOffMsg::proc: this one calls the framework.
HandleTurnOff ==
    /\ Handles("turnOff")
    /\ module' = [module EXCEPT !.on = FALSE]
    /\ mail' = Tail(mail)
    /\ UNCHANGED <<observerVars, cache, attached, framework, refs, xtraVars, history>>

-----------------------------------------------------------------------------
(* XtraSystemStatusObserver and the daemon.                                *)

\* send(LOC_IPC_XTRA, ...): lost when the daemon is not there.
SendXtra(view) == IF daemon.up THEN [daemon EXCEPT !.view = Over(view, @)] ELSE daemon

\* Mutant: nothing is kept before the daemon has asked.
KeepWhenAsked(values) ==
    /\ xtra' = IF xtra.asked THEN [xtra EXCEPT !.known = Over(values, @)] ELSE xtra
    /\ daemon' = IF xtra.asked THEN SendXtra(values) ELSE daemon

\* updateLockStatus, updateConnections, updateTac, updateMccMnc: the value is
\* kept, and sent on once the daemon has asked.
Keep(values) ==
    /\ xtra' = [xtra EXCEPT !.known = Over(values, @)]
    /\ daemon' = IF xtra.asked THEN SendXtra(values) ELSE daemon

HandleNews ==
    /\ Handles("news")
    /\ Keep(Head(mail).values)
    /\ mail' = Tail(mail)
    /\ UNCHANGED <<observerVars, cache, attached, framework, moduleVars, history>>

\* MsgEnableGnss and MsgDisableGnss tell the lock; gnssUpdateXtraThrottleCommand
\* the throttle.
TellLock(item, value) ==
    /\ CanSend
    /\ Send([op |-> "lock", values |-> [i \in {item} |-> {value}]])
    /\ UNCHANGED <<observerVars, cache, attached, framework, moduleVars, xtraVars, history>>

HandleLock ==
    /\ Handles("lock")
    /\ Keep(Head(mail).values)
    /\ mail' = Tail(mail)
    /\ UNCHANGED <<observerVars, cache, attached, framework, moduleVars, history>>

\* LocIpc's thread has bound the socket.
StartListening ==
    /\ ~xtra.listening
    /\ xtra' = [xtra EXCEPT !.listening = TRUE]
    /\ UNCHANGED <<observerVars, cache, attached, framework, moduleVars, mail, daemon, history>>

\* onReceive of "requestStatus": a message for the queue.
Requested(updated) ==
    IF xtra.listening THEN Send([op |-> "status", updated |-> updated]) ELSE UNCHANGED mail

\* DelayLocTimer::timeOutCallback sends "halinit"; a daemon that runs asks at once.
HalInit ==
    /\ CanSend
    /\ ~daemon.waiting
    /\ daemon.up
    /\ Requested(FALSE)
    /\ daemon' = [daemon EXCEPT !.waiting = TRUE]
    /\ UNCHANGED <<observerVars, cache, attached, framework, moduleVars, xtra, history>>

\* The daemon starts, asks, asks again although it has been told, or dies.
DaemonStarts ==
    /\ CanSend
    /\ ~daemon.up
    /\ Requested(FALSE)
    /\ daemon' = [up |-> TRUE, waiting |-> TRUE, view |-> <<>>]
    /\ UNCHANGED <<observerVars, cache, attached, framework, moduleVars, xtra, history>>

DaemonAsksAgain ==
    /\ CanSend
    /\ daemon.up
    /\ "known" \in DOMAIN daemon.view
    /\ Requested(TRUE)
    /\ UNCHANGED <<observerVars, cache, attached, framework, moduleVars, xtraVars, history>>

DaemonDies ==
    /\ daemon.up
    /\ daemon' = [up |-> FALSE, waiting |-> FALSE, view |-> <<>>]
    /\ UNCHANGED <<observerVars, cache, attached, framework, moduleVars, mail, xtra, history>>

\* onStatusRequested: everything but the throttle is answered.
Status == [i \in {"lock", "network", "tac", "mccmnc", "known"} |->
             IF i = "known" THEN {"network" \in DOMAIN xtra.known}
             ELSE IF i \in DOMAIN xtra.known THEN xtra.known[i] ELSE {}]

OnStatusRequested ==
    /\ Handles("status")
    /\ xtra' = [xtra EXCEPT !.asked = TRUE]
    /\ daemon' = IF Head(mail).updated THEN daemon ELSE SendXtra(Status)
    /\ mail' = Tail(mail)
    /\ UNCHANGED <<observerVars, cache, attached, framework, moduleVars, history>>

-----------------------------------------------------------------------------
ObserverCall ==
    \E c \in Others, items \in (SUBSET OtherItems) \ {{}} :
        \/ \E request \in BOOLEAN : Subscribe(c, items, request)
        \/ UpdateSubscription(c, items)
        \/ Unsubscribe(c, items)
        \/ UnsubscribeAll(c)

NotifyAny == \E list \in NewsLists : Notify(list)

ModuleCall == SetFrameworkActionReqObj \/ TurnOn \/ TurnOff

TellLockAny == \E item \in {"lock", "throttle"}, value \in Locks : TellLock(item, value)

SystemCall == SetSubscriptionObj \/ NotifyAny \/ ModuleCall \/ TellLockAny

DaemonStep == StartListening \/ HalInit \/ DaemonStarts \/ DaemonAsksAgain \/ DaemonDies

HandleStatus ==
    \/ Attach
    \/ HandleSubscribe
    \/ HandleUpdate
    \/ HandleUnsubscribe
    \/ HandleUnsubscribeAll
    \/ HandleNotify
    \/ HandleTurnOn
    \/ HandleTurnOff
    \/ HandleNews
    \/ HandleLock
    \/ OnStatusRequested

StatusNext == ObserverCall \/ SystemCall \/ DaemonStep \/ HandleStatus

StatusSpec == StatusInit /\ [][StatusNext]_statusVars

-----------------------------------------------------------------------------
(* Properties.                                                             *)

Idle == mail = <<>>

\* The framework keeps every item subscribed that has such a client, whatever
\* the order in which clients came and went and the object was set; all but an
\* item whose first client only asked for it once.
FrameworkFeeds ==
    attached =>
        \A i \in Items :
            (itemToClients[i] \ history.updated # {} /\ i \notin history.onlyRequested)
                => i \in framework

\* A registered client has last heard the newest value recorded, although the
\* value may have come before it, or between its subscription and the framework's.
SubscribersHear ==
    \A c \in Others \ history.updated : \A i \in clientToItems[c] \cap DOMAIN cache :
        i \in DOMAIN history.told[c] /\ history.told[c][i] = cache[i]

\* With nothing left in the queue, the daemon that has been answered knows the
\* lock, the cell, and the networks connected: through subscription, recording,
\* two messages and the answer, in every order, and after it was restarted.
DaemonIsInformed ==
    (Idle /\ daemon.up /\ "known" \in DOMAIN daemon.view) =>
        /\ \A i \in {"tac", "mccmnc"} \cap DOMAIN cache : daemon.view[i] = cache[i]
        /\ "network" \in DOMAIN cache => daemon.view["network"] = history.live \cup history.misread
        /\ "lock" \in DOMAIN xtra.known => daemon.view["lock"] = xtra.known["lock"]

\* IDataItemSubscription.h: updateSubscription({1,2,3}), updateSubscription({2,3,4,5})
\* leave the client subscribed to 2, 3, 4 and 5 only.
ListsAreReplaced ==
    Idle => \A c \in Others : \A i \in Items : c \in itemToClients[i] <=> i \in history.wish[c]

=============================================================================
