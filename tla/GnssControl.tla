---------------------------- MODULE GnssControl ----------------------------
(***************************************************************************)
(* The control path: the HIDL Gnss service with the configuration it keeps *)
(* until its client exists, LocationAPIControlClient with its queues of    *)
(* requests, and the adapter's enable, disable, configuration and aiding   *)
(* data commands, handled one after the other by the adapter's thread,     *)
(* with a positioning engine that restarts and refuses.                    *)
(*                                                                         *)
(* The engine behind LocApiBase is outside this repository: a setting is   *)
(* taken or refused, and what was set is gone after a restart.  Items that *)
(* only change what the adapter keeps (SUPL ES, its PDN, SUPL mode) are    *)
(* left out.                                                               *)
(***************************************************************************)
EXTENDS Naturals, Sequences, FiniteSets, Maps

CONSTANTS
    Settings,           \* the values a setting can have
    Default,            \* the one that a code nobody knows stands for
    NoLock,             \* the setting of the GPS lock that enable() chooses
    MaxControlMail      \* bound: messages in the queue when a call is made

ASSUME SettingsAssumption == Default \in Settings /\ "unknown" \notin Settings

\* The kinds of GnssConfig items: those sent to the engine only when
\* AGPS_CONFIG_INJECT allows (SUPL version, LPP profile, A-GLONASS), those always
\* sent (LPPe), the SUPL server and the GPS lock.
Injected == "suplVersion"
Always == "lppe"
ConfigItems == {Injected, Always, "server", "lock"}
Unset == "unset"
NoHost == "none"

\* The configuration file and mGps_conf have codes of their own for the settings;
\* a code of the file that is none of them reads as the default.
UnknownCode == <<"unknown">>
ToCode(s) == <<s>>
FromCode(c) == IF c \in {ToCode(s) : s \in Settings} THEN c[1] ELSE Default

Kinds == {"CONTROL", "DELETEAIDINGDATA", "CONFIG"}
ConfigSession == 1000           \* CONFIG_SESSION_ID: above any session of the model

VARIABLES
    gnss,       \* Gnss: whether mApi exists, mPendingConfig
    control,    \* LocationAPIControlClient: mEnabled, mConfig, mRequestQueues
    adapter,    \* GnssAdapter: its callbacks, mPowerVoteId, mServerUrl; SUPL_HOST, mGps_conf
    engine,     \* the engine: whether it is up, and what it was set to
    orders,     \* the adapter's message queue
    asked       \* what was asked for last, what the engine missed, answers gone astray

controlVars == <<gnss, control, adapter, engine, orders, asked>>

NoRequests == [session |-> 0, requests |-> <<>>]

ControlInit ==
    /\ gnss = [api |-> FALSE, pending |-> <<>>]
    /\ control = [enabled |-> FALSE, last |-> <<>>, queues |-> [k \in Kinds |-> NoRequests]]
    /\ \E inject \in BOOLEAN, file \in {ToCode(Default), UnknownCode} :
         adapter = [callbacks |-> FALSE, power |-> 0, inject |-> inject, url |-> NoHost,
                    host |-> Default,
                    conf |-> [i \in {Injected, Always, "lock"} |-> file]]
    /\ engine = [up |-> TRUE, set |-> [i \in ConfigItems |-> Unset]]
    /\ orders = <<[op |-> "setConfig"]>>
    /\ asked = [wish |-> [i \in ConfigItems |-> Default], missed |-> ConfigItems,
                crossed |-> FALSE, refused |-> FALSE]

CanOrder == Len(orders) < MaxControlMail

\* generateSessionId: a number that nothing in the model refers to any more.
InUse == {control.queues[k].session : k \in {"CONTROL", "DELETEAIDINGDATA"}} \cup {adapter.power}
            \cup {orders[i].id : i \in {j \in DOMAIN orders : "id" \in DOMAIN orders[j]}}
NewId == CHOOSE n \in 1 .. Cardinality(InUse) + 1 : n \notin InUse

\* RequestQueue::reset and push, and push alone
Restarted(c, kind, session, request) ==
    [c EXCEPT !.queues[kind] = [session |-> session, requests |-> <<request>>]]

Pushed(c, kind, request) == [c EXCEPT !.queues[kind].requests = Append(@, request)]

-----------------------------------------------------------------------------
(* The calls of the services.                                              *)

\* locAPIGnssUpdateConfig: a configuration equal to the last one is not sent.  A
\* server never equals the last: its host name is compared by its address.
Updates(c, config) == config # c.last \/ "server" \in DOMAIN config

Queued(c, config) ==
    LET request == [kind |-> "config", config |-> config]
        d == [c EXCEPT !.last = config]
    IN  IF c.queues["CONFIG"].session # ConfigSession
        THEN Restarted(d, "CONFIG", ConfigSession, request)
        ELSE Pushed(d, "CONFIG", request)

\* Mutant: the session of the queue is not renewed.
EnablingOld(c, id) == Pushed([c EXCEPT !.enabled = TRUE], "CONTROL", [kind |-> "enable", id |-> id])

\* locAPIEnable: marked enabled before the adapter has answered.
Enabling(c, id) ==
    Restarted([c EXCEPT !.enabled = TRUE], "CONTROL", id, [kind |-> "enable", id |-> id])

\* getApi: the first callback creates the client and its control client, which is
\* handed the pending configuration.
Created(c) == IF gnss.pending = <<>> THEN c ELSE Queued(c, gnss.pending)
CreateOrders ==
    <<[op |-> "callbacks"]>>
        \o IF gnss.pending = <<>> THEN <<>> ELSE <<[op |-> "config", config |-> gnss.pending]>>

\* Gnss::setCallback, and setGnssNiCb, which enables nothing.
SetCallback(enable) ==
    /\ CanOrder
    /\ LET c == IF gnss.api THEN control ELSE Created(control)
           before == IF gnss.api THEN <<>> ELSE CreateOrders
           start == enable /\ ~c.enabled
       IN  /\ control' = IF start THEN Enabling(c, NewId) ELSE c
           /\ orders' = orders \o before
                           \o IF start THEN <<[op |-> "enable", id |-> NewId]>> ELSE <<>>
    /\ gnss' = [api |-> TRUE, pending |-> <<>>]
    /\ UNCHANGED <<adapter, engine, asked>>

\* Gnss::cleanup, also called when the framework dies: locAPIDisable
Cleanup ==
    /\ CanOrder
    /\ gnss.api
    /\ control.enabled
    /\ control.queues["CONTROL"].session # 0
    /\ LET id == control.queues["CONTROL"].session IN
         /\ control' = [Pushed(control, "CONTROL", [kind |-> "disable", id |-> id])
                           EXCEPT !.enabled = FALSE]
         /\ orders' = Append(orders, [op |-> "disable", id |-> id])
    /\ UNCHANGED <<gnss, adapter, engine, asked>>

\* Gnss::updateConfiguration.  Before the client exists the items are gathered; of
\* an assistance server the host name is left behind.
Kept(config) == [i \in DOMAIN config |-> IF i = "server" THEN NoHost ELSE config[i]]

\* Mutant: what is pending is not overwritten.
GatheredOnce(pending, config) == Over(pending, Kept(config))

Gathered(pending, config) == Over(Kept(config), pending)

UpdateConfiguration(config) ==
    /\ CanOrder
    /\ IF ~gnss.api
       THEN gnss' = [gnss EXCEPT !.pending = Gathered(@, config)] /\ UNCHANGED <<control, orders>>
       ELSE IF Updates(control, config)
       THEN /\ control' = Queued(control, config)
            /\ orders' = Append(orders, [op |-> "config", config |-> config])
            /\ UNCHANGED gnss
       ELSE UNCHANGED <<gnss, control, orders>>
    /\ asked' = [asked EXCEPT !.wish = Over(config, @)]
    /\ UNCHANGED <<adapter, engine>>

\* Gnss::deleteAidingData
DeleteAidingData ==
    /\ CanOrder
    /\ gnss.api
    /\ control' = Restarted(control, "DELETEAIDINGDATA", NewId, [kind |-> "delete", id |-> NewId])
    /\ orders' = Append(orders, [op |-> "delete", id |-> NewId])
    /\ UNCHANGED <<gnss, adapter, engine, asked>>

-----------------------------------------------------------------------------
(* The adapter's thread: it handles the orders one after the other and     *)
(* answers by calling the control client.                                  *)

\* getRequestBySession pops the first queue of this session;
\* onCtrlCollectiveResponseCb pops the configuration queue.
QueueFor(answer) ==
    IF answer.kind = "config"
    THEN {k \in {"CONFIG"} : control.queues[k].session = ConfigSession}
    ELSE {k \in {"CONTROL", "DELETEAIDINGDATA"} : control.queues[k].session = answer.id}

Answer(answer, refused, missed) ==
    LET waiting == {k \in QueueFor(answer) : control.queues[k].requests # <<>>} IN
    IF ~adapter.callbacks \/ waiting = {}
    THEN /\ asked' = [asked EXCEPT !.refused = @ \/ refused, !.missed = missed]
         /\ UNCHANGED control
    ELSE LET k == CHOOSE q \in waiting : TRUE IN
         /\ control' = [control EXCEPT !.queues[k].requests = Tail(@)]
         /\ asked' = [asked EXCEPT !.crossed = @ \/ Head(control.queues[k].requests) # answer,
                                   !.refused = @ \/ refused, !.missed = missed]

Handling(op) == orders # <<>> /\ Head(orders).op = op /\ orders' = Tail(orders)

\* Of the items sent, those that the engine takes: none when it is down.
Taken(items) == IF engine.up THEN SUBSET items ELSE {{}}

Set(items, value) == [engine EXCEPT !.set = Over([i \in items |-> value[i]], @)]
StillMissed(sent, taken) == (asked.missed \cup sent) \ taken

\* setControlCallbacksCommand
SetControlCallbacks ==
    /\ Handling("callbacks")
    /\ adapter' = [adapter EXCEPT !.callbacks = TRUE]
    /\ UNCHANGED <<gnss, control, engine, asked>>

\* setGpsLock with a vote for the modem's power, and what is answered.
Vote(kind, id, power, lock) ==
    \E taken \in Taken({"lock"}) :
        /\ engine' = Set(taken, [i \in taken |-> lock])
        /\ adapter' = [adapter EXCEPT !.power = power]
        /\ Answer([kind |-> kind, id |-> id], FALSE, StillMissed({"lock"}, taken))

Refuse(kind, id) ==
    Answer([kind |-> kind, id |-> id], TRUE, asked.missed) /\ UNCHANGED <<adapter, engine>>

\* MsgEnableGnss
Enable ==
    /\ Handling("enable")
    /\ LET id == Head(orders).id IN
         IF adapter.power > 0 THEN Refuse("enable", id) ELSE Vote("enable", id, id, NoLock)
    /\ UNCHANGED gnss

\* MsgDisableGnss
Disable ==
    /\ Handling("disable")
    /\ LET id == Head(orders).id IN
         IF adapter.power # id THEN Refuse("disable", id)
         ELSE Vote("disable", id, 0, FromCode(adapter.conf["lock"]))
    /\ UNCHANGED gnss

\* MsgGnssUpdateConfig: the items of a configuration that are sent to the engine.
Sends(config) ==
    {i \in DOMAIN config :
        \/ i = "lock" /\ adapter.power = 0
        \/ i = Injected /\ adapter.inject /\ ToCode(config[i]) # adapter.conf[i]
        \/ i = Always /\ ToCode(config[i]) # adapter.conf[i]
        \/ i = "server" /\ adapter.inject /\ config[i] # adapter.url}

\* What mGps_conf keeps of it: not the server, and the injected only when sent.
Keeps(config) ==
    {i \in DOMAIN config : i \in {"lock", Always} \/ (i = Injected /\ adapter.inject)}

Url(config, sent) == IF "server" \in sent THEN config["server"] ELSE adapter.url

HandleConfig ==
    /\ Handling("config")
    /\ LET config == Head(orders).config
           sent == Sends(config)
       IN  /\ adapter' = [adapter EXCEPT !.url = Url(config, sent),
                              !.conf = Over([i \in Keeps(config) |-> ToCode(config[i])], @)]
           /\ \E taken \in Taken(sent) :
                /\ engine' = Set(taken, config)
                /\ Answer([kind |-> "config", config |-> config], FALSE, StillMissed(sent, taken))
    /\ UNCHANGED gnss

\* MsgDeleteAidingData
HandleDelete ==
    /\ Handling("delete")
    /\ Answer([kind |-> "delete", id |-> Head(orders).id], FALSE, asked.missed)
    /\ UNCHANGED <<gnss, adapter, engine>>

\* setConfigCommand: everything but the GPS lock, the server as the file has it.
ConfigSent ==
    {Always} \cup IF ~adapter.inject THEN {}
                 ELSE {Injected} \cup {i \in {"server"} : adapter.host # adapter.url}
OwnConfig == [i \in ConfigItems |->
                 IF i = "server" THEN adapter.host ELSE FromCode(adapter.conf[i])]

SetConfig ==
    /\ Handling("setConfig")
    /\ adapter' = [adapter EXCEPT !.url = Url(OwnConfig, ConfigSent)]
    /\ \E taken \in Taken(ConfigSent) :
         /\ engine' = Set(taken, OwnConfig)
         /\ asked' = [asked EXCEPT !.missed = StillMissed(ConfigSent, taken)]
    /\ UNCHANGED <<gnss, control>>

\* The engine goes down, and comes up again: handleEngineUpEvent
EngineDown ==
    /\ engine.up
    /\ engine' = [up |-> FALSE, set |-> [i \in ConfigItems |-> Unset]]
    /\ asked' = [asked EXCEPT !.missed = ConfigItems]
    /\ UNCHANGED <<gnss, control, adapter, orders>>

EngineUp ==
    /\ CanOrder
    /\ ~engine.up
    /\ engine' = [engine EXCEPT !.up = TRUE]
    /\ orders' = Append(orders, [op |-> "setConfig"])
    /\ UNCHANGED <<gnss, control, adapter, asked>>

ServiceCall(items) ==
    \/ \E enable \in BOOLEAN : SetCallback(enable)
    \/ Cleanup
    \/ \E i \in items, v \in Settings : UpdateConfiguration([j \in {i} |-> v])

HandleOrder ==
    \/ SetControlCallbacks \/ Enable \/ Disable
    \/ HandleConfig \/ HandleDelete \/ SetConfig

ControlNext ==
    ServiceCall(ConfigItems) \/ DeleteAidingData \/ HandleOrder \/ EngineDown \/ EngineUp

ControlSpec == ControlInit /\ [][ControlNext]_controlVars

-----------------------------------------------------------------------------
Quiet == orders = <<>>

\* The adapter's vote for the modem's power follows the service: with no message
\* waiting, it is held exactly while the client is enabled, under the session that
\* the next disable will name; no enable or disable was ever refused, and no answer
\* was taken for that of another session.  The client marks itself enabled before it
\* is answered and forgets earlier requests.
PowerFollowsClient ==
    /\ ~asked.refused /\ ~asked.crossed
    /\ Quiet => adapter.power = IF control.enabled THEN control.queues["CONTROL"].session ELSE 0

\* Every setting the engine has not missed (refused, or lost in a restart) is the
\* last one asked for, whatever the order of configurations, enabling, disabling
\* and restarts, and whether it was asked for before the client existed; the lock
\* is off while a client is enabled.
EngineObeys ==
    Quiet /\ gnss.api =>
        \A i \in ConfigItems \ ({"server"} \cup asked.missed) :
            engine.set[i] = IF i = "lock" /\ adapter.power > 0 THEN NoLock ELSE asked.wish[i]

=============================================================================
