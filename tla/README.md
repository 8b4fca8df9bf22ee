# The GNSS HAL of the c7ltechn device tree, in TLA+

The repository is the LineageOS device tree of the Samsung C7 LTE. Nearly all
of its own program logic is the GNSS hardware abstraction layer under
`device/samsung/c7ltechn/gps/`: some 18,000 lines of C++ and C that stand
between Android's location services, the users, the connectivity framework and
the modem. The rest is board configuration, overlays, lists of vendor blobs,
kernel patches, build scripts and vendored libraries. This directory models the
HAL. Paths below are relative to `device/samsung/c7ltechn/gps/` unless they say
otherwise.

1. [The system](#1-the-system)
2. [Modules](#2-modules)
3. [Runs](#3-runs)
4. [Proofs](#4-proofs)
5. [Disagreements found](#5-disagreements-found)
6. [What is not modelled](#6-what-is-not-modelled)
7. [Plan](#7-plan)

To check something: `tlc -config agps.cfg MCAgps.tla`, `tlapm AgpsProofs.tla`.


## 1. The system

### How it fits together

    Android services (HIDL)                         android/, android/location_api/
       |  calls                    ^ callbacks
    client library                 |                location/LocationAPIClientBase
       |  one mutex per client     |
    dispatcher (one mutex)         |                location/LocationAPI
       |  sends messages           |
    +--v---------------------------+-------------+
    | GNSS adapter: one message thread           |  gnss/GnssAdapter
    |   tracking | NI | AGPS | ODCPI | config    |  gnss/Agps
    +--+--------+--------+---------+-------------+
       |        |        |         ^ events (posted by the modem's thread)
    threads  timers   system    modem interface     core/LocApiBase
    of NI             status                        core/SystemStatus*
       |        |        |
    LocThread LocTimer LocIpc, MsgTask, heaps, lists utils/

Everything of consequence happens on *message threads* (`MsgTask`): a call from
above or an event from the modem becomes a message, whose `proc()` runs to its
end before the next begins. The adapter's state is therefore safe from data
races, but nothing it reads stays true between the moment a message is sent and
the moment it is handled. The exceptions, where state is shared without that
discipline, are the ones that deserve a model most: the threads of network
initiated requests, the timers, the threads themselves, the socket listener.

### Components

| component | state it keeps | operations | what makes it correct |
|---|---|---|---|
| **AGPS manager** `gnss/Agps` | three state machines (RELEASED, PENDING, ACQUIRED, RELEASING), each with a list of subscribers; a retry counter and timer for the data service | requestATL, releaseATL, reports that the framework granted, denied or closed a connection, DS events, retry | each request of the modem is answered once; machine, list and connection agree; nothing is left open |
| **Timers** `utils/LocTimer` | a heap of delegates and one kernel timer per container; a lock per timer | start, stop, push, remove, expire; a poll thread | the kernel timer is armed for the top of the heap; a stopped timer is silent, another goes off |
| **Threads** `utils/LocThread` | a delegate shared by owner and thread, with a reference count | start, stop, destruction, the thread's loop | the last to leave deletes; no deleted runnable runs; join means over |
| **Message tasks** `utils/MsgTask`, `utils/msg_q` | a queue with lock, condition and an unblocked flag, and a thread | sendMsg, run, destroy | messages handled once each, in order, and never after the end |
| **Tracking** `gnss/GnssAdapter` | clients, sessions with their options, the engine's one fix session | start, update, stop, client removal, restart after a reset | the engine runs for the most demanding session, whatever it refused |
| **Network initiated requests** `gnss/GnssAdapter` | two sessions, each with a request, an id, an answer, a lock and a thread | notification, user's answer, timeout, informing the modem | each request is owned once and answered once, by its user |
| **Adapter control** `gnss/GnssAdapter` | power vote, configuration, ODCPI request and its timer, XTRA observer | enable, disable, update config, ODCPI start / stop / expiry | one session of control; requests for a position neither lost nor repeated too soon |
| **Client library** `location/LocationAPIClientBase` | per kind of request a queue; maps of sessions; a tracking flag | start, stop, update, batching, geofences, control | each request meets its own response; the flag follows the session |
| **Dispatcher** `location/LocationAPI` | clients with their callbacks; engines loaded lazily | create, destroy, updateCallbacks, forwarding | a client is removed from every engine it was added to |
| **System status** `core/SystemStatus*` | a cache of reports; two maps, client to items and item to clients; reference counts of items turned on | subscribe, update, unsubscribe, notify | the maps are inverse to each other; the framework is subscribed to what clients are |
| **Modem interface** `core/LocApiBase`, `core/LocAdapterBase` | registered adapters, event masks, a counter of session ids | add/remove adapter, fan-out of events, engine up / down | every adapter sees every event it registered for; ids are unique |
| **Local sockets** `utils/LocIpc` | a socket, a stop flag, a listening thread | listen, stop, send, split into long messages | a message arrives whole; stop stops |
| **Containers** `utils/LocHeap`, `linked_list`, `LocUnorderedSetMap` | trees and lists | push, pop, remove; add, search, flush | a priority bag, a sequence, a map of sets |
| **PPS** `gnsspps/` | one time stamp under a mutex, a thread | init, deinit, get | no use after deinit |
| **Reports** `gnss/GnssAdapter`, `utils/loc_nmea`, `core/SystemStatus` | masks of the satellites used, bounded histories of reports | positions, satellites, sentences, deletion, debug report, gain of a measurement | what is told is of the report it names, and the newest |
| **Configuration** `utils/loc_cfg` | one record that every block of the file is read into | reading a file of processes | each process is launched by its own lines |
| **HIDL services** `android/` | a client object each, a cached capability mask, a pending configuration | the calls of the framework, one or more library calls each | whoever is set, started or told before its counterpart exists is not forgotten |
| **logging** | none | text | no protocol of its own |

How they interact: HIDL objects call the client library, which calls the
dispatcher under its mutex; the dispatcher calls the adapter, which only posts
a message and returns a session id; responses come back on the message thread.
The modem's thread posts events the same way. The adapter's AGPS manager calls
the framework through callbacks and is answered by further messages. NI threads
and timers post messages to get back onto the message thread.

### What is hard in it

* **answers that carry no identity**: the framework's reports name only the type of
  connection, the user's answers to a request name an id that may be 0;
* **rounds that overlap**: release and re-request, timeout and answer, stop and
  expiry, reset and stop are all asynchronous on both sides;
* **locks around half of the state**: NI sessions, timer delegates and thread
  delegates are read outside the lock under which they are written;
* **objects that two threads delete**: delegates, tasks, request data;
* **refusals**: any modem call can fail, in the middle of a sequence of two or three;
* **one engine for many sessions**: the multiplexing compares options pairwise and
  must not leave the engine with those of a session that is gone;
* **answers matched by position or by number**: the client library guesses from a session
  number, or from the order of calls, which request an answer is for;
* **state that is kept twice**: the library's geofences and the interface's, the client's
  enabled flag and the adapter's power vote, the two maps of subscriptions and the framework's;
* **objects that restart or come late**: the engine, the XTRA daemon, the framework's
  subscription object, the callbacks of a service;
* **reports carried from one handler to the next**: used satellites, time and gain, the last report of
  a kind after a deletion.

The file `PROJECT.json` lists each hazard at its line, with the property
that watches it or the reason why none does.


## 2. Modules

| module | models | with |
|---|---|---|
| `Agps` | the AGPS manager, its retry timer and the adapter's queue; the framework and the data service as environment | `MCAgps`, `AgpsProofs` |
| `AtlLifecycle` | what the manager promises the modem about one handle: the abstract specification that `Agps` implements | checked as a property of `Agps` |
| `LocTimer` | clients, message thread and poll thread of the timer service, and the kernel timers | `MCLocTimer`, `LocTimerProofs` |
| `LocHeap`, `RankedSet` | the heap of the timers as a tree, and the ranked set it **implements** | `MCLocTimer` |
| `LocThread` | one owner and the threads it spawns | `MCServices`, `LocThreadProofs` |
| `MsgTask` | a task and its queue, **composed with** `LocThread` (`Thread == INSTANCE LocThread WITH Delegate <- {Task}`) | `MCAgps`, `EngineProofs` |
| `LinkedList`, `DataSequence` | the cells of the list under the queues, and the sequence with owned data it **implements** | `MCLocTimer` |
| `GnssTracking` | clients and tracking sessions of the adapter | `MCGnssTracking`, `GnssTrackingProofs` |
| `Odcpi` | position injection on request, with its timer between two threads | `MCGnssTracking` |
| `LocApi` | the adapters' array under the modem interface, the event mask, reports passed on | `MCGnssTracking`, `EngineProofs` |
| `GnssReports`, `Nmea` | positions and satellites told to clients, and the sentences made of them | `MCGnssTracking`, `GnssTrackingProofs` |
| `GnssNi` | the two NI sessions, the message thread, one thread per request, users | `MCGnssNi`, `GnssNiProofs` |
| `LocationClient`, `BiDict` | client library and dispatcher over three interfaces | `HalClients` |
| `HalClients` | the HIDL services (and a free owner) that use a client, **composed with** `LocationClient` | `MCClients`, `ClientProofs` |
| `GeofenceClient` | a client's geofences, and `GnssGeofencing` | `MCClients`, `GnssTrackingProofs` |
| `GnssControl` | Gnss service, control client and adapter commands over an engine that refuses and restarts | `MCServices`, `EngineProofs` |
| `StatusObserver`, `SetMap` | subscriptions to data items, the cache, the XTRA observer and its daemon | `MCServices`, `StatusProofs` |
| `Maps` | one map laid over another, as `StatusObserver`, `SetMap`, `BiDict` and the modules of clients do with what is new over what was known | |
| `StatusReports` | the histories of reports, the debug report, the gain | `MCServices`, `StatusProofs` |
| `LocIpc` | listener, owner and sender of a local socket | `MCServices`, `StatusProofs` |
| `LocConfig` | the launcher's list of processes read from a file | `MCServices`, `GnssTrackingProofs` |

Most MC modules host parts that share no state: `MCGnssTracking` and `MCServices` several, `MCAgps` the message task,
`MCLocTimer` the two containers, `MCClients` the geofences. The initial state chooses the part
and a behaviour is one of that part, so the parts are explored side by side and not multiplied.

Conventions: a variable has the name of the field it stands for (`mState`,
`mRefCount`, `respRecvd`); an action has the name of the function or of the
branch of it that it models; a definition that exists only as the erroneous
variant of the one after it is placed right before it (`WithdrawKeeps`, then
`Withdraw`) and says so. `PROJECT.json` maps each definition to its lines.
What the outside may do at any time (a modem, a user, a client) has no fairness.

### Agps

One message of the FIFO `queue` is one action of `MsgTask`. `onRsrcEvent` of the
source dispatches an event by the state of the machine; the module has one
action per event and state (`SubscribeReleased`, `UnsubscribeInUse`, `Denied`,
...), with the early return as a guard. The three machines share one set of
variables indexed by `Nif`; `mDsNif` says whether the emergency PDN is configured and its
machine exists (every case is an initial state); the DS machine overrides some of the handlers as the
subclass does. A subscriber list is a set of records with a position, since
the code appends, erases and scans in order. Posting side: `ModemRequest`,
`ModemRelease`, `FwServe` (the framework answers in the order it was asked),
`FwLose`, `DsServe`, `DsLose`, and `RetryCallback` of the timer.
Abstracted: APN, bearer and IP type; a handle serves one request (the modem numbers
them); `handleModemSSR` is called by nothing in the tree; `closeDataCall` has an
empty body in it; the return of `loc_timer_start` is only logged. A step of a machine is taken whole: `deleteSubscriber`
compares the rest of its list with a subscriber it has just deleted (section 5), and the model takes the comparison
for what it was before.
Assumed of the framework, which is outside the tree: a request fails only when
there is no connection, a release only when there is none to release.

`FollowsLifecycle` is the refinement: `atl` and `released`, what the modem was told
and what it released, are exactly the variables of `AtlLifecycle`, and every
other step stutters.

### LocTimer

`Start` and `Stop` are the client's calls under the timer's lock. The message thread
is split where others can see the difference: the system call that arms the
kernel timer, the `epoll_ctl`, and, in the expiry, between reading the
delegate's client (which the source reads without the lock), stopping it and
calling it back. The poll thread sees the expiry, disarms, stops polling and
posts, in separate steps. The heap is a set whose top is any one of the soonest, from which an element is removed
by its identity, as the code does; what its header says instead is a property of a run of its own (`heap_remove`).

### LocThread and MsgTask

`LocThread` has one action per access to the shared delegate: `Create`, the check
after it, the locked decrement of `destroy()` and the deletion that follows it
are separate. The owner starts one delegate after the other, so that earlier
threads, detached, are still running. `MsgTask` adds the queue: `run()` enters,
waits, is woken by a message or by the unblocking, takes and handles; `destroy()`
unblocks, flushes, forgets and lets go of the thread, in steps. Spawned
threads call `MsgTask::run` exactly where `LocThread` says a runnable runs.

### GnssTracking

Every message of a client is one action, the whole of it: `startTrackingCommand`
with its multiplexing, and any call of the engine may be refused. The engine is
an environment of one variable: the options it runs with. A reset forgets them
and posts a restart. Removal of a client stops its sessions one after the other,
as the loop does; `removing` says which are left. The messages may come in
any order, more than the queue allows: what holds here holds of the queue's
order. No position calculation proxy is installed (`libulp` is not in the tree).

### GnssNi

The message thread's handlers are split at each access to a session that is not
under the lock (`Save`, then `Tell`; lookup, then answer). A request's thread
begins, waits, is woken or times out, decides what to send under the lock,
forgets the id after it released the lock, and sends. Creating the thread may
fail. A timeout may happen whenever a thread waits, even when the answer is
there already, since the clock and the wake-up are not synchronised.
`outcome` and `answers` are history: what became of a request, what its user said.


### LocationClient, HalClients, GeofenceClient

A call of the owner is one action: it holds `mMutex` throughout, and the dispatcher's mutex
inside it. The interfaces have a queue each (`mail`) and a message thread; the answer of
a message is handled at once on that thread, which is what the code does. Two steps are
split because the code gives the mutex up in between: the removal of a session from the
dictionary (`RemoveSession`, without the mutex) and the stop or update of a session that
goes on after it was looked up (`Read`, `Resume`; an update first takes the number, then changes the dictionary, and
`Overtaken` says what became of the entry in between). `use` says which service, or which
free owner, the client belongs to; `todo` is the library call a service has yet to make, so that answers
may come in between. `generation` numbers the clients one after the other, for an interface may still
hold the last one when the next is created. A request carries its session, which the code's does not:
the properties compare it with the answer's. The framework's number of a network initiated request may be that of a session,
of one that runs or of one that starts while the request is under way (`Collides`); the code then cannot tell the answers apart,
and the property excuses it by name (`seen.collided`). `GnssAdapter` is the interface `gnss`; `libflp` and `libgeofence` are
taken to serve in order and to answer everything but a stop of something unknown.

### Odcpi, LocApi, GnssReports, Nmea

`Odcpi` splits the timer's expiry from the message it posts (`OdcpiTimerDue`, `OdcpiTimerCalls`, the
message) since a restart may come between. `LocApi` has one action per access to the array: a removal reads, moves and
clears in steps, a report walks it one adapter at a time, and the message thread reads the masks one at a time before
it opens the engine. `GnssReports` handles whole reports on one thread: what could go wrong is what is
left from one to the next. A mask is a set of ids; `Width` is the number of bits of an int, beyond which the shift of the
source is undefined, and the module lets it be anything. A satellite comes from the modem with the
mark of one that is used or without it (`MarkedAt`: where in a report such marks may stand), and `Marked` adds to the marks as the code does:
it sets the bit and never clears it. `Nmea` keeps of a sentence its talker,
its satellites and its numbers; `NthOf` stands for the loops that go through a mask, or a report, from its first entry on.

### GnssControl, StatusObserver, StatusReports, LocIpc, LocConfig

`GnssControl` follows a setting from the HIDL call, through the configuration that the service keeps while there is no client,
the queues of the control client and the adapter's messages, to the engine; `asked` is history, what was wished and
what the engine missed. `StatusObserver` has one action per message of the observer and one per notification of
the framework; the daemon is told by messages, may restart and ask again. A notification carries a list, of which
each item is compared with the cache in turn, and what is news goes to each subscriber as one report of those it asked for. Where
the maps erase an element and go on with its iterator (section 5) what is read is a choice: `Found` of an intersection, `Reported` of
the keys that became empty. `StatusReports` keeps a bounded history per kind of
report and two readers on other threads, each of which takes the mutex once. `LocIpc` splits listening into creation,
unlinking, binding, reading and the reading of a long message, against a stop and a sender at any moment.
The name by which a stop aborts and unlinks belongs to the runnable: once the thread may have deleted it (`NameIsGone`) the
abort and the unlinking reach the socket or nothing. A last part may be no longer than the abort message, which is then
tested for before the part is added (`IsWhole`). `LocConfig` is a pure
reader over a sequence of lines, one action per call of `loc_read_conf_r`. Splitting a list cuts it in place
(`AfterSplitting`), so what a block leaves to the next one is the first word of each list; and the file, opened a second time
for the processes, may not open.

### The containers

`LocHeap` and `LinkedList` are shown to implement `RankedSet` and `DataSequence` (`INSTANCE ... WITH`, the abstract
specification as property): `LocTimer` uses the heap, and `MsgTask` the list, as just that. Both record what was asked along
with what was returned, so a search that gives up early is not taken for one of something absent.

## 3. Runs

All configurations turn the deadlock check off: modem, users and clients may stop
at any time, and every counter is bounded, so a quiet state is normal. Liveness
says what must happen nevertheless.

| run | instance | shows |
|---|---|---|
| `agps` | 2 handles, all three types, with and without the emergency PDN, 1 retry, fair; 1 task, 3 messages, both kinds of thread | `ListMatchesState`, `AnswerIsOwed`, `AcquiredIsBacked`, `DsCallIsKnown`; implements `AtlLifecycle` (`FollowsLifecycle`); `EveryoneIsAnswered`; `HandledInOrder`, `EveryMessageHandled` |
| `timer` | 2 timers, 3 starts, 1 container, delays 1 and 2, clock to 2; a heap of 5 objects of 2 ranks; a list of 3 cells and 3 data | `StopIsFinal`; `GoesOff`; `HeapIsRankedSet`; `ListIsSequence` |
| `tracking` | 2 clients, 3 sessions, 3 intervals, 2 resets; 2 ODCPI messages; 3 adapters for 2 places; 3 systems of satellites with ids to 3, the second of a report marked or not | `EngineAtShortest`, `SessionsAreServed`; `OdcpiIsRepeated`; `EngineKnowsAdapters`, `ReportsArrive`; `UsedAreOfTheFix`, `SentencesNameTheirSvs` |
| `ni` | 2 plain requests and 1 emergency request | `EachTakesItsOwn`, `AnswerIsAUsers`; `Resolved` |
| `client` | 2 generations of a client, session numbers to 3, 3 interfaces, 2 messages under way, fair; 2 geofences, lists of one or both, 2 calls under way | `AnswersReachTheirRequests`, `NothingIsLeftBehind`; `CapabilitiesAreTold`; `FencesAreOwned`, `BreachesAreReported`, `AnswersNameTheirFences` |
| `services` | 1 client beside the daemon, 2 items; 2 settings of each configuration item; 3 messages over a socket; histories of 2; files of 3 processes; 2 threads of one owner, joinable and detached | `FrameworkFeeds`, `SubscribersHear`, `DaemonIsInformed`; `PowerFollowsClient`, `EngineObeys`; `MessagesArriveWhole`, `StopIsHeard`; `DebugShowsLatest`, `AgcIsOfItsTime`; `LaunchedAsConfigured`; `DelegateOutlivesUsers`, `RunsLiveRunnable` |
| `agps_orphan`, `geofence_shift`, `observer_update`, `nmea_swap`, `heap_remove`, `used_kept` | the same or smaller instances | section 5 |

### Why these bounds

* **agps**: a machine distinguishes nobody, the subscriber concerned, and another;
  two handles give that, and a second round of the first machine. Three types put the
  two handles on one machine or on two. One retry passes through refused, retried and given
  up. The proofs cover any number of handles, types and retries. Of the message task, three messages are enough for one
  handled, one in hand and one waiting.
* **timer**: two timers running at once and a third start that reuses one of them,
  which is where a stale message can meet a new delegate; delays 1 and 2 make the later
  start the sooner and let them tie. One container suffices: containers share
  nothing but the queue. A clock of 2 lets every delegate of the
  first starts become due. Five objects make a heap of three levels, unbalanced after
  removals, and two ranks give equal ones, which the search must not miss. Three cells of a list
  are a first, a middle and a last.
* **tracking**: three intervals give a session shorter, between and longer than
  the others; three sessions give two others; the mode, of which the properties say
  nothing, has one value. The proofs cover any number. Three adapters for two places let one be refused and one
  move into a hole. Satellite ids beyond `Width` (2) stand for those beyond the int; five satellites need two GSV
  sentences, and a GSA of one (`MaxInGsa`) has to leave some out. Only the
  second satellite of a report comes marked (`MarkedAt`), marked and unmarked satellites that the last position used or not; the proof covers any places.
* **ni**: two requests compete for one session, the third has the emergency session
  and pre-empts them. `MaxQueue` bounds only what the outside may post on top of
  waiting messages; the HAL's own messages are never held back.
* **client**: one session running or starting while another is started or stopped; two
  clients, so that a message of the first meets the second; `MaxMail` and `MaxPending` bound what the owner may
  leave unanswered, and two waiting calls are what it takes to match them wrongly. Two geofences in one call, in
  either place and with either unknown, give a list that is compacted and one that is not, and two such calls under way
  an answer to the wrong one. The proofs cover any number of each.
* **services**: a second subscriber of the same item is the daemon's observer; two settings tell an old from a new
  one; a long message has two parts and a short one follows it; a history of two loses its oldest at the third report. Where clients come and go a notification
  carries any list of what they can ask for (`OtherItems`), where the daemon does of any items. Two threads, so
  that the owner can forget a detached one for the next. Of the files,
  21 kinds of process stand first or between others, under four sets of features.

### Fairness

* Message threads, poll threads and spawned threads are ordinary threads that are
  scheduled as long as they can run: weak fairness of each (`MsgTask`, `PollTask`,
  `WorkerProceeds`, `OwnerProceeds`, `NiThread(r)`, `HandleOdcpi`). No action of these is ever
  disabled and enabled again by another thread for ever.
* A timed wait ends: `NiThread(r)` includes the timeout (`pthread_cond_timedwait`).
* Time passes (`Tick`), an armed retry timer goes off (`RetryCallback`).
* The framework and the data service answer what they were asked (`FwServe(n)`,
  `DsServe`): without that no manager could answer anybody. They are not obliged
  to answer *favourably*.
* The interfaces serve their messages (`Serve(i)`), and a service goes on with the library calls of one of its
  methods (`Continues`): both are running threads.
* The ODCPI timer goes off when it is armed, and its expiry is called and handled.
* The modem never has to do anything. `ReleaseAnswered` (of `EveryoneIsAnswered`) alone has a hypothesis: a
  subscriber that waits for the close stays listed, inactive, as long as others use
  the connection, so it is told only if these release it too
  (`WF_vars(ModemRelease(h))` for every handle).
* Liveness of message tasks is stated for detached threads only: with a joinable one
  `destroy()` may overtake the first step of the thread (section 5).

Each property of a passing run has a mutant in `PROJECT.json`: a definition of the
model with a plausible error of the code (a dropped guard, a missing reset, a wake-up
without its loop), under which the run reports that property violated.


## 4. Proofs

TLAPS proves the following for every value of the constants that satisfies the
named assumptions (which TLC evaluates in the runs). Each is `Spec => []Inv`, but for `ImplementsLifecycle`, which is a
refinement.

| theorem | establishes |
|---|---|
| `AgpsProofs!TypeCorrect` | types; the retry counter never passes its limit |
| `AgpsProofs!ReleasedEmpty` | `ReleasedIsEmpty` for any number of handles |
| `AgpsProofs!ListsMatch` | `ListMatchesState` |
| `AgpsProofs!NoAnswerIsLost` | `AnswerIsOwed`: somebody always owes a pending or releasing machine its answer |
| `AgpsProofs!AcquiredHasConnection` | `AcquiredIsBacked` |
| `AgpsProofs!DsCallKnown` | `DsCallIsKnown`: the call of the data service, the DS machine and the reports still in the queue fit |
| `AgpsProofs!ImplementsLifecycle` | `FollowsLifecycle`: every behaviour of the manager without a DS machine is one of `AtlLifecycle` |
| `LocThreadProofs!TypeCorrect`, `SharedSafely`, `RunsSafely`, `JoinedFirst` | types, `DelegateOutlivesUsers`, `RunsLiveRunnable`, `JoinedIsOver` for any number of threads |
| `GnssTrackingProofs!TypeCorrect`, `ShortestInterval`, `NoSessionForgotten` | types, `EngineAtShortest`, `SessionsAreServed` for any clients, sessions and intervals |
| `GnssTrackingProofs!MarksHold`, `MarksAreOfTheFix` | types and invariant of the reports, `UsedAreOfTheFix` for any constellations, satellites, marks that come from the modem and width of the masks |
| `GnssTrackingProofs!SentencesAreMade`, `SentencesNameThem` | invariant of what clients are told, `SentencesNameTheirSvs` for any constellations, satellites, ids and width of the masks |
| `GnssTrackingProofs!FencesHold`, `NoFenceIsOrphaned`, `FenceAnswersMatch`, `BreachesGoToTheirOwner` | types and invariant of the geofences, `FencesAreOwned`, `AnswersNameTheirFences`, `BreachesAreReported` for any ids, masks, lists of ids and calls under way |
| `GnssTrackingProofs!ConfigHolds`, `LaunchedByTheirLines` | invariant of the reader, `LaunchedAsConfigured` for any file whose processes have all their lines |
| `GnssNiProofs!TypeCorrect`, `TakesItsOwn`, `OneOwnerAtATime`, `ConsentIsGiven` | types, `EachTakesItsOwn`, `OneOwner`, `AnswerIsAUsers` for any requests |
| `StatusProofs!StatusHolds`, `FrameworkIsSubscribed`, `ClientsAreSubscribed`, `SubscribersHaveHeard`, `DaemonHasBeenInformed` | types and invariant, `FrameworkFeeds`, `ClientsAreFed`, `SubscribersHear`, `DaemonIsInformed` for any observers, items and values |
| `StatusProofs!KeptHolds`, `DebugReportIsLatest`, `GainIsMatched` | types and invariant, `DebugShowsLatest`, `AgcIsOfItsTime` for any kinds of sentence in use and any bounds |
| `StatusProofs!IpcHolds`, `MessagesWhole`, `StopsAreHeard` | types and invariant, `MessagesArriveWhole`, `StopIsHeard` for any number of messages, of parts and of datagrams that fit in a socket |
| `LocTimerProofs!TimersHold`, `StoppedStaySilent`, `WakeUpsAreNotLost`, `DeletedAreLetGo` | types and invariant, `StopIsFinal`, `TimersAreWatched`, `NoneHeldIsDeleted` for any timers, containers, delays and clock |
| `EngineProofs!ApiHolds`, `EngineKnowsItsAdapters`, `ReportsReachAdapters` | types and invariant, `EngineKnowsAdapters`, `ReportsArrive` for any adapters, events and size of the array |
| `EngineProofs!TaskHolds`, `MessagesInOrder` | types and invariant, `HandledInOrder` for any senders and messages |
| `EngineProofs!ControlHolds`, `VotesFollowClients`, `SettingsAreObeyed` | types and invariant, `PowerFollowsClient`, `EngineObeys` for any settings |
| `ClientProofs!ClientHolds`, `ClientLeavesNothing`, `TrackingHolds`, `AnswersMatch` | types and the two layers of the invariant, `NothingIsLeftBehind`, `AnswersReachTheirRequests` for any ids, sessions, clients and messages under way |

### The arguments

**Agps.** `ListsFit` says of each machine what its state allows on its list: besides
`ReleasedIsEmpty` and `ListMatchesState`, that a subscriber is inactive only if it waits
for the close, so that withdrawing one that does not wait never takes the last inactive
subscriber of a releasing machine. It is
inductive with `TypeOK`; lemma `OneMachine` reduces a step to the one machine it
changes. The
framework's answers are a second layer on top, `FwInStep`: `AnswerIsOwed`,
`AcquiredIsBacked`, and the strengthening both need, `OpenIsBacked` (an open report
that is still in the queue has its connection up, or the report of its loss
behind it). Taking the head of the queue and appending to it are treated once, in
lemmas about what is in the queue and in which order; a step of a machine then only
has to show that it asks the framework whenever it begins to wait.

`DsInStep` is the third layer. A table (`DsTable`) lists which states of the call, of the DS machine and of the
reports in the queue occur together; it is inductive only with `DsReportsInOrder` (an opened report never stands
behind the closed one of its call, so that taking the head cannot leave the wrong one behind) and
`DsSubscribersWait` (the subscriber of a pending DS machine is still there to be dropped when its call fails).

The refinement rests on `PlainInv`: a handle in a request that is still in the queue was told nothing yet
(`RequestsAreFresh`), a release in the queue is of a handle that was asked for (`ReleasesAreKnown`), each subscriber on a
list was told exactly what its machine's state says (`SubscribersAreTold`) and stands on one list, once. Each message
is then one step of `AtlLifecycle` or none. With a DS machine the lists are shared between two machines and the
promise is not kept (section 5), so `FollowsLifecycle` is stated for behaviours in which `mDsNif` is not `"created"`.

**LocThread.** `IInv` is the conjunction of `OwnerInStep` (the owner's place and
`mThread` fit), `Shared` (the reference count is the number of the two threads
that have not left, and the delegate lives exactly as long: `Counted`, `Outlived`),
`JoinInv` (`Marked`: the mark that makes `stop()` join stays until it gets there)
and `RunInv` (a thread inside its loop has a live runnable). `DelegateOutlivesUsers`
needs `Shared` only, `JoinedIsOver` needs `Marked`, `RunsLiveRunnable` needs that
nobody but the thread itself deletes a runnable once it began.

**GnssTracking.** The invariant is `EngineAtShortest` itself, with `SessionsKnown` (every session has an id that was generated, so a
new one replaces none, and a removal stops only sessions that exist) and
`SessionsAreServed` (an engine that is stopped while sessions exist is between a
reset and its restart, or refused the last one). The rest is
the order of the intervals: each branch of the multiplexing is one case of
*shorter than all others*, *the only one*, *neither*.

**GnssReports.** `UsedAreOfTheFix` compares a report with what the last position named, a ghost; `FixIsNamed` ties the ghost to
the adapter: it is what the adapter has kept while `avail` is set, and nothing when it is not. That needs the flag to be set and cleared
in the same steps as the masks are used. Below `Width` the shift is exact (`MarksAreOfTheMasks`); above it nothing is said.
`SentencesNameTheirSvs` is a statement about the operators of `Nmea`: the invariant, `ToldIsMade`, only says which report the sentences were
made of. The *n*th of a set of numbers exists and grows with *n* (`NthIs`, from `NthOfNumbers`), so the first twelve are the lowest
(`LowestFirst`), and four to a sentence leave no satellite out and none twice (`EnoughSentences`, `GsvNames`). The five systems' sentences stand
one behind the other; `FivePlaced` finds those of one system in the whole, as a run of places, which is what the numbering rests
on (`PlacesInARow`). The count is of pairs of a system and an id (`PairsCounted`); that the masks of QZSS and BeiDou are taken from each
other (section 5) changes neither the count nor whether systems are combined (`SwappedCombine`), which is why both are proved in
spite of it, and why `GsaNamesUsed` speaks of three systems.

**GeofenceClient.** The requests that wait for an answer are the calls under way, in their order, so the response is
always that of the first (`FenceTypeOK`). `DictAgrees` says that no two ids have one session, `CallsNameFences` that a
session which is known has the id it was called by: then a response names ids or 0 (`AnswersNameTheirFences`). `AddedAreOwned`
looks ahead of `FencesAreOwned`: a session that is about to be added is known, or its removal is under way behind
the addition. `MasksAgree` is `BreachesAreReported` before the queue is empty: the mask that the library keeps is the one of the
last call under way that sets it, or else the interface's. Resumed, shifted and refused sessions are excused by name. The
ids that the library knows among those of a call are compacted in their order; that each is the *n*th of some place needs induction, which
`SetInduction` derives from the fact that no finite set is injected into a smaller one (`NthOfNumbers`). `FenceAssumption` says that ids
are numbers and that the ids of one call are distinct, which `GnssGeofencing`, with one id a call, guarantees.

**LocConfig.** Nothing is said of a file whose processes lack lines (section 5) or that has 256 of them: this is `WellFormed`, which is
what `LaunchedAsConfigured` supposes. While names are counted, `procCount` is the number of names up to the line read; then
`Followed` says that the processes made are those names, and that a name comes before any further line of a process. So the next call begins
at a name's first line, and stops at its last: from there to the next name there is one line for each key (`LinesAre`), and as the keys
are as many, `LastRead` counts just these (`StopsAt`, `ReadsNext`). What a process becomes is a function of its keys only
(`SameProcess`), so what the variable held before does not matter.

**GnssNi.** Three layers. `Inv` (`TypeOK`, `InPlace`, `EachTakesItsOwn`, `SentIsAnswer`)
ties each session to the one thread that waits for it. `Own` says where the
data of a request is at each place of its life: in a message, in the session, in
its thread (`InSlot`, `InThread`, `Queued`, `Single`), from which `OneOwner` follows.
`Consent` says that an answer in a session, a thread or a message was given by a user
who was asked for that session, or was shown the id 0 (`Given`, `Backed`). Beneath it
are `Once` (a request is shown to the user once) and `Ids` (an id other than 0 names
one session at most). Most steps change few of the variables: the frame lemmas `Stays` and
`Moves` carry the layers over the rest.

**StatusObserver.** `MapsAgree`: the two maps are inverse to each other, except for clients that updated their
subscription (the divergence of `observer_update`). `EntriesAreFed` ties the entries of the second map to the framework's
registrations, except for items first only requested. `XtraSubscribes` says that the daemon's observer is registered, or that its
message is still in the queue; `NetworksAreRecorded` that the cached networks are those connected and those a first
report of a disconnection left; `XtraWillKnow` that the last news in the queue about an item, or what the
observer knows when there is none, is the cached value; `DaemonKnows` that an answered daemon has all
of that. `DaemonIsInformed` is what is left of the last three when the queue is empty. The only assumption is that
the daemon's observer is not one of the others.

**StatusReports.** `NewestIsLast`: the newest report of each kind is the one that was recorded last, or the default that a
deletion put on top. It is not enough for the gain, which is kept in a list of its own: `TimedTogether` says that the
newest time and the newest gain were said by one sentence, or are both defaults. What a reader answers is
then a function of the newest reports.

**LocIpc.** While nobody stops the listener, the datagrams in the socket and those still to be sent are one stream, which a
datagram that is sent leaves as it is and one that is read shortens by its first. `StreamIsWhole` says what the stream
is: whole messages, in the order of their numbers, each part behind the one before it, and at its head what
the listener expects (`Expects`: the beginning of a message, or the next part of the one it reads). `EndsAreTaken` says
that the ends in the socket are just the messages that were taken and not yet received; as their numbers increase, the first one
read is the next one to be received. `AbortWaits` is about the time after: from `SendAbort` on, the abort message of a
stop that saw the listener ready is in the socket until it is read. `PartsAssumption` says that a long message has a part.

**LocTimer.** A timer and its delegate name each other (`TimersArePaired`); the message that removes a delegate comes
after its client let go of it and is the last about it (`RemoveIsLast`), so that nothing deleted is named by a
message, a heap (`HeapsAreHome`) or the message thread (`TaskHoldsLive`, from which `NoneHeldIsDeleted`). `StopIsFinal` is inductive
with these: the message thread calls back only for a delegate it has itself taken from its timer. `TimersAreWatched` says
that a waiting delegate's time is covered by the kernel timer, by an expiry on its way, or by the message thread that is
about to arm it (`ArmingIsInTime`), with the heap's top anywhere in the order of ties. It is the safety half of `GoesOff`.

**LocApi.** `NoHoles` says, step by step of a removal, where the one hole of the array is; `EachOnce` that
the only adapter listed twice is the one that is being moved. `MasksAreFresh` is about the message thread in the middle of its
walk: with nothing posted and nobody leaving, what it has read is what the adapters read so far want.
`ReportIsOnItsWay` is the same for a report that no addition or removal disturbed: it has reached the
adapters of the slots behind it, in their order. Both goals are what these say at the end of the walk.

**MsgTask.** What was begun (`handled`, and the message in hand) is the first part of what was sent (`BegunAreFirst`), no message is
sent twice (`SentOnce`), and the rest is the queue (`RestIsQueued`), or was dropped with it (`RestIsDropped`), after
which the runnable is deleted and nothing can be sent. The steps of `LocThread` enter only by what they do
to the runnable (`RunnableStays`).

**GnssControl.** The client acts on what it believes, the adapter on what has reached it: the invariant is about the queue
of orders between them. `VotesFit` reads the queue as a fold without recursion: just before each enable nothing is voted for, just
before each disable its own session is, and after the last order what the client believes. It needs the numbers
to be told apart: no two orders of a kind have one number (`NumberedOnce`), and those of deletions are never those of votes
(`NumbersApart`), although `generateSessionId` may hand out a number again as soon as nothing holds it.
`RequestsAreAwaited` pairs every waiting request of the client with the order that will answer it (for
configurations by a strictly increasing function from requests to orders), so no answer goes astray. For the
settings, `EngineIsSet` ties the engine to `mGps_conf` except where it missed something, and
`WishesAreKept` says that the last order about an item, or `mGps_conf` when there is none, or
the pending configuration while there is no client, is what was asked for last. `SettingsAssumption` says that
the default is a setting and that `"unknown"`, which stands for a code of the file that no setting has, is none.

**LocationClient and HalClients.** The owner adds to the ends of the interfaces' queues, an interface takes from the
head of its own, and at most one batching request waits (or the behaviour is excused). `Places` says that a session number is that of one
session, which starts or runs in one interface; without it nothing else is inductive. `Membership` says which interfaces keep
which clients: those that the live client joined (`JoinedKnown`), and of others only those with a removal under way
(`MembersLeave`); a session is that of a client which the interface knows (`RunnersRegistered`). `RunsAreKept` and `StartsAreKept`
are `NothingIsLeftBehind` looked at along the queue: a session that runs, or will once its start is
handled, is one that the library still knows, or its end stands *behind* its start. They need `StoppedFirst` (a
tracking session whose flag is down has its stop under way, so the next one may forget it) and `RemovedEnd` (an answer that takes a
session out of the dictionary is about one that is nowhere any more). `WellKept` says that ids and sessions of the dictionary are
one to one, with entries without a number (section 5) left out, from which a known session is one that a stop of its id
names. `BatchPairs` says that of the messages under way only one may still be answered, and that the
request that waits is its own; `BatchHomes` that batching sessions are only at `flp`, so that nobody else answers.
`NiAssumption` says that the framework's numbers are numbers.

`AnswersReachTheirRequests` has a second layer, `TrackInv`, for the client that tracks, of which any number of requests may wait at
once. An interface answers a request about a session only while the session starts or runs there (`UnderWay`), and drops the others without
a word. So where the session of the tracking queue is under way, the messages about it are those of the requests that wait: there is a strictly
increasing function from the places of the queue onto theirs (`TrackPairs`). Posting appends to both (`PairingGrows`); the first message taken is
the first request's (`PairingMet`); and a message taken while the session is not under way yet cannot be one of its own, for the start
is the first of them (`StartIsFirst`). `NiWaits`, `NiApart` and `OneAsked` keep the answers of network initiated requests, which carry a
number of the framework, away from those of sessions; where the framework's number is that of a session, `seen.collided` says so.

### Only model-checked

All liveness, and what rests on fairness: TLAPS has no reasoning about it here. What recursive definitions compute
for all inputs: `LocHeap` is recursive over its tree, and a cell of
`LinkedList` is found by a walk of any length. So the implementations of `RankedSet` and `DataSequence` stay with TLC. `Odcpi` has only a liveness property.

The type theorems and the invariants of `JoinedFirst`, `OneOwnerAtATime`, `ClientsAreSubscribed`, `WakeUpsAreNotLost`
and `DeletedAreLetGo` are on no run's list: TLC has nothing to add to them.



## 5. Disagreements found

Six have a run that finds the counterexample; `PROJECT.json` quotes both sides.

* `agps_orphan`: a release and a new request overlap in the framework. The answers of
  the first round are taken for those of the second, the second connection is
  granted to a machine in RELEASED, which ignores it, and stays up with no
  subscriber, against `gnss/Agps.cpp:140`.
* `geofence_shift`: `locAPIModifyGeofences` compacts the sessions of the ids it knows and not their
  options, so after an unknown id each geofence gets another's, against `location/LocationAPI.h`.
* `observer_update`: `LocUnorderedSetMap::update` returns what the old and the new list share, so
  `updateSubscription` takes the client off what it keeps, against
  `core/observer/IDataItemSubscription.h:74`.
* `nmea_swap`: the masks of QZSS and BeiDou are exchanged in `loc_nmea_generate_pos`, against
  the comments above each sentence.
* `used_kept`: a satellite that the modem marked as used stays marked although the last position did not use it, for the
  code only sets the bit, against `gnss/GnssAdapter.cpp:2228`, which says it is cleared. `UsedAreOfTheFix` says what does hold: a satellite is told
  as used exactly if the modem marked it or the last position named it.
* `heap_remove`: the heap removes the very object it is given (`utils/LocHeap.cpp:173`), against `utils/LocHeap.h:84`, by which it
  removes the one that ranks the same. An object that is not in the heap is not found though its rank is there. `RankedSet` promises what
  the code does, which is what the timers rely on; of an object that is in the heap both remove the rank.

The rest was seen while modelling, or as counterexamples of stronger forms of the properties. Each is
described as the code has it, the models include it, and the properties excuse it by name where they must.

**AGPS.** In RELEASED a release tells the modem closed but leaves the subscriber listed (`gnss/Agps.cpp:120`,
against `gnss/Agps.h:135`); a refused emergency call leaves its subscriber in the list of a released machine (`:616`, against
the comment at `:208`). The DS machine can be pending for a call that was refused (`:233`). The fallback asks again only
for the first subscriber (`:618-626`), the others are forgotten, which is why the promises of `AtlLifecycle` and
`EveryoneIsAnswered` end where a DS machine exists. `deleteSubscriber`
(`:424-435`) goes on comparing with the subscriber that it has just deleted. A modem that is not capable of AGPS leaves the machines out
(`:715`): requests are then dropped, which the model includes as types without a machine.

**Timers and threads.**
* The expiry pops the first delegate without comparing its time (`utils/LocTimer.cpp:370`, against `:368`): when the soonest timer
  is stopped just as it fires, the next one goes off early. Stopping the last timer leaves the kernel timer armed (`:345`), whose
  expiry meets an empty heap; a timer restarted inside the window at `:530` is called back at once, so `StopIsFinal`
  is stated of the delegate, not of the timer.
* `LocThread::start` takes a thread that ran to its end at once for one that could not be created (`utils/LocThread.cpp:117`, against
  `LocThread.h:75-77`): it reports a failure with the runnable already deleted. `stop()` before the thread's first step leaks
  the runnable (`:181`), and a joinable thread that ends before `start()` looks is never joined (`:118`).
* `MsgTask::destroy` writes a field of a task its thread may just have deleted (`utils/MsgTask.cpp:69`); `sendMsg` ignores a
  refusal and leaks the message (`:78`).

**Tracking.** Of two sessions with one interval, stopping or updating the one that runs leaves the engine with the mode of
the one that is gone (`gnss/GnssAdapter.cpp:1747`, `:1674`, against `:1505`): only the interval is guaranteed. A stop that
the engine refuses during removal leaves the session of an erased client for good (`:1148`); a refused restart is not tried again
(`:1244`), which `SessionsAreServed` allows explicitly.

**NI.** `gnssNiResponseCommand` looks the session up without its lock (`:1884`): an answer that meets the timeout of its request is left
for the next one, against `:2379`. The id is cleared after the lock is released (`:2402`) and may wipe the next
request's: the user is shown id 0, or the answer is rejected. With both sessions at id 0 an answer to a plain request can
accept an emergency request, which is why `AnswerIsAUsers` says *a* user's answer. With no listener a request is neither answered
nor freed (`:2423`), and with no thread its session is blocked for good (`:2466`); `Resolved` and `EachTakesItsOwn` name both.

**Client library.** Session requests that overlap are answered in any order and shift the queue. `removeSession` runs without the
mutex (`location/LocationAPIClientBase.cpp:887`): between `hasId` and `getExtById` of another call it leaves a session that
exists by its id and has no number, and can then neither be stopped nor started. `stopTracking` or an update of an unknown session
is never answered, against `LocationAPI.h:664`. Adding and at once removing a geofence makes the answer to the
addition name id 0; a removal or addition that the interface refuses is not reflected in the dictionary; a mask given with
resume stays in the library whatever the interface says; `locAPIRemoveAllGeofences`, which nothing calls, passes session numbers
for ids. `updateCallbacks` with callbacks that no longer want an interface leaves the client there when it is destroyed, and never asks for
capabilities. The pending configuration of `Gnss` drops the host's name (`android/Gnss.cpp:164-168`), so a pending
server clears the server. `GnssBatching.start` always returns true.

**Control.** A setting that the engine refused is never tried again; the server's address is compared as a pointer to a fresh copy, so
it is never equal, and after an engine restart it is lost; the same server again is answered INVALID_PARAMETER; the lock is not
restored after a restart, and the XTRA daemon is not told of a configured one.

**ODCPI.** A plain START during an emergency overwrites the stored request; an expiry that was under way when an emergency request
restarts the timer asks the framework twice in a row.

**System status.** The message of `turnOn` calls `turnOn` of the observer itself: the framework is never asked, and the count is one too many. An item that was first only
requested is never subscribed (`core/SystemStatusOsObserver.cpp:114`). The first report of a disconnection is recorded as a
connection. A throttle set before the daemon's first request is never told it, and the XTRA observer never unsubscribes
its cell. `trimOrRemove` reads an iterator it has erased (`utils/LocUnorderedSetMap.h:136`) and
`removeAndReturnInterset` advances one (`:59-66`): the model takes any of the keys that became empty for the first, and an intersection
that may miss elements for the second. After `updateSubscription`, `unsubscribeAll` leaves pointers to a client that is gone.

**Modem interface.** If the last adapter leaves while its mask is being read, the engine is opened after it was closed.
A report that a removal overlaps may be lost or told twice. A full array drops an adapter silently.

**Reports and sentences.** Masks are cut to 32 bits (Galileo has 36 ids, BeiDou 37), and a shift of an int by the id
is undefined beyond them (`gnss/GnssAdapter.cpp:2230`). A shadowed
variable keeps the magnetic deviation out of VTG. A solution of QZSS and BeiDou alone has the talker GP; the two share
PQ for their GSV sentences. A short debug sentence is recorded with members that nothing initialised, and may be shown as a valid
place. Two positions in one place compare equal whatever their speed and accuracy, so the debug report shows the old
ones; the same for a position with the zeros of a default after a deletion. After a deletion a default time of 0 matches
measurements of the first two seconds of the week. Repeated deletions push the history out.

**LocIpc.** A stop before the socket is bound is lost, and the listener waits for ever, against `utils/LocIpc.h`; one between the binding and the
assignment of the descriptor leaks it; a long message that is being read swallows the abort. `stopListening`
reads the socket's name through a runnable that its thread may just have deleted (`utils/LocIpc.cpp:158-172`). Two senders of long
messages mix their parts; the model has one.

**Configuration.** The reader counts lines: a process that lacks one takes the first line of the next, everything after it
shifts, and a process may be launched twice, once with another's settings, though the code means to skip the one with the missing line
(`utils/loc_cfg.cpp:808`). A list of nothing but blanks keeps its newline; an unknown group leaves a gid 0 in its place
and cuts the list by one; the number of processes is a byte. A list that is read is cut in place (`:833`, `:846`,
`:874`, `:910`), so a process without that line has the first word of the list before it.


## 6. What is not modelled

Within the modelled parts: failing allocations and system calls, logging, APN and position
data, destruction of `LocTimer` objects and the C wrapper around them, tracking through
a position proxy, the numbers inside reports and sentences that nothing compares, the unlocking of `mMutex` between the
lookup of a geofence call and the reading of the dictionary for its response (both are one step of `GeofenceClient`; a call that came in between could only
make the response name id 0 for a geofence it removed, which the property allows anyway), the free of a client whose
callbacks still run (what is read then depends on the allocator), the death of the framework's process, the wrap of the
session counter (2^32 calls), and two senders on one socket.

Not planned: AGnss and AGnssRil, which forward a call; the PPS thread (`deInitPPS` destroys its mutex without waiting for the
thread; a model would only restate that); logging; and the device tree outside `gps/`.
`libflp`, `libgeofence`, `libulp`, the modem library, the XTRA daemon and the framework are not in the
repository and appear only as environments.


## 7. Plan

Done: every module of section 2 with its runs; the proofs of `Agps` and its refinement of `AtlLifecycle`, `LocThread`,
`GnssTracking`, `GnssReports`, `GeofenceClient`, `LocConfig`, `GnssNi`, `StatusObserver`, `StatusReports`, `LocIpc`, `LocTimer`, `LocApi`,
`MsgTask`, `GnssControl`, `LocationClient` and `HalClients`.

Open: nothing that the provers are expected to reach; what stays with TLC is named in section 4.
