-------------------------------- MODULE LocApi --------------------------------
(***************************************************************************)
(* The interface to the modem and the adapters above it (LocApiBase,       *)
(* LocAdapterBase).  Adapters enter an array without holes when they are   *)
(* constructed and leave it when they are destroyed, both by their owner's *)
(* thread.  The message thread opens the engine for the events that the    *)
(* adapters want; the modem's thread reports to every adapter, and takes   *)
(* requests to the first that handles them.  Nothing locks the array.      *)
(***************************************************************************)
EXTENDS Naturals, FiniteSets, Sequences, SequencesExt

CONSTANTS
    Adapters,       \* adapters; each is constructed and destroyed at most once
    Handlers,       \* those that handle the modem's requests
    Events,         \* bits of an event mask
    Excluded,       \* mExcludedMask
    MAX_ADAPTERS,
    NoAdapter,      \* NULL
    MaxApiMail      \* bound: messages in the queue when one is posted

ASSUME AdaptersAssumption == Handlers \subseteq Adapters /\ NoAdapter \notin Adapters
ASSUME SlotsAssumption == MAX_ADAPTERS \in Nat \ {0}

Slots == 1 .. MAX_ADAPTERS
Masks == SUBSET Events

VARIABLES
    mLocAdapters,   \* the array
    mEvtMask,       \* each adapter's mask
    alive,          \* each adapter: not yet constructed, constructed, or destroyed
    leaving,        \* the owner's thread in removeAdapter: where, which slots
    apiMail,        \* the queue of the message thread
    reading,        \* the message thread in getEvtMask: where, the mask so far
    modem,          \* the modem: whether it runs, and the mask it was opened with
    report          \* the modem's thread: what it reports, where, whom it has reached

apiVars == <<mLocAdapters, mEvtMask, alive, leaving, apiMail, reading, modem, report>>

NotLeaving == [at |-> "no", hole |-> 0, last |-> 0]
NotReading == [slot |-> 0, mask |-> {}]
NoReport == [kind |-> "none", slot |-> 0, reached |-> <<>>, present |-> {}, disturbed |-> FALSE]

ApiInit ==
    /\ mLocAdapters = [i \in Slots |-> NoAdapter]
    /\ mEvtMask = [a \in Adapters |-> {}]
    /\ alive = [a \in Adapters |-> "unborn"]
    /\ leaving = NotLeaving
    /\ apiMail = <<>>
    /\ reading = NotReading
    /\ modem = [up |-> TRUE, mask |-> {}]
    /\ report = NoReport

Post(message) == apiMail' = Append(apiMail, message)
LocOpenMsg == [kind |-> "open"]
LocSsrMsg == [kind |-> "ssr"]
UpdateMsg(a, mask) == [kind |-> "update", adapter |-> a, mask |-> mask]

\* The loops over the array end at its end or at the first empty slot.
Ends(slot) == ~(slot \in Slots /\ mLocAdapters[slot] # NoAdapter)
FirstFree == SelectInSeq(mLocAdapters, LAMBDA a : a = NoAdapter)
SlotOf(a) == SelectInSeq(mLocAdapters, LAMBDA b : b = a)

-----------------------------------------------------------------------------
(* The owner's thread.                                                     *)

\* addAdapter, from the constructor.  One adapter too many is left out.
AddAdapter(a) ==
    /\ alive[a] = "unborn" /\ leaving = NotLeaving
    /\ Len(apiMail) < MaxApiMail
    /\ \E mask \in Masks : mEvtMask' = [mEvtMask EXCEPT ![a] = mask]
    /\ alive' = [alive EXCEPT ![a] = "constructed"]
    /\ IF FirstFree = 0 THEN UNCHANGED <<mLocAdapters, apiMail>>
       ELSE mLocAdapters' = [mLocAdapters EXCEPT ![FirstFree] = a] /\ Post(LocOpenMsg)
    /\ UNCHANGED <<leaving, reading, modem, report>>

\* removeAdapter, from the destructor: the adapter's slot is emptied,
RemoveAdapter(a) ==
    /\ alive[a] = "constructed" /\ leaving = NotLeaving
    /\ alive' = [alive EXCEPT ![a] = "destroyed"]
    /\ IF SlotOf(a) = 0 THEN UNCHANGED <<mLocAdapters, leaving>>
       ELSE /\ mLocAdapters' = [mLocAdapters EXCEPT ![SlotOf(a)] = NoAdapter]
            /\ leaving' = [at |-> "hole", hole |-> SlotOf(a), last |-> 0]
    /\ report' = [report EXCEPT !.disturbed = @ \/ SlotOf(a) # 0]
    /\ UNCHANGED <<mEvtMask, apiMail, reading, modem>>

\* the last adapter of the array copied into it,
LastSlot(hole) ==
    CHOOSE i \in hole .. MAX_ADAPTERS :
        /\ \A j \in hole + 1 .. i : mLocAdapters[j] # NoAdapter
        /\ i = MAX_ADAPTERS \/ mLocAdapters[i + 1] = NoAdapter

\* Mutant: the hole stays.
LeaveHole ==
    /\ leaving.at = "hole"
    /\ leaving' = [leaving EXCEPT !.at = "moved", !.last = leaving.hole]
    /\ UNCHANGED <<mLocAdapters, mEvtMask, alive, apiMail, reading, modem, report>>

FillHole ==
    /\ leaving.at = "hole"
    /\ LET last == LastSlot(leaving.hole)
       IN  /\ mLocAdapters' = [mLocAdapters EXCEPT ![leaving.hole] = mLocAdapters[last]]
           /\ leaving' = [leaving EXCEPT !.at = "moved", !.last = last]
    /\ UNCHANGED <<mEvtMask, alive, apiMail, reading, modem, report>>

\* its old slot emptied,
EmptyLast ==
    /\ leaving.at = "moved"
    /\ mLocAdapters' = [mLocAdapters EXCEPT ![leaving.last] = NoAdapter]
    /\ leaving' = [leaving EXCEPT !.at = "shifted"]
    /\ UNCHANGED <<mEvtMask, alive, apiMail, reading, modem, report>>

\* Mutant: the engine keeps reporting what only the adapter that left wanted.
CloseOnly ==
    /\ leaving.at = "shifted"
    /\ IF leaving.last = 1 THEN modem' = [modem EXCEPT !.mask = {}] ELSE UNCHANGED modem
    /\ leaving' = NotLeaving
    /\ UNCHANGED <<mLocAdapters, mEvtMask, alive, apiMail, reading, report>>

\* and the engine closed if none is left, otherwise opened anew.
CloseOrOpen ==
    /\ leaving.at = "shifted"
    /\ IF leaving.last = 1 THEN modem' = [modem EXCEPT !.mask = {}] /\ UNCHANGED apiMail
       ELSE Post(LocOpenMsg) /\ UNCHANGED modem
    /\ leaving' = NotLeaving
    /\ UNCHANGED <<mLocAdapters, mEvtMask, alive, reading, report>>

-----------------------------------------------------------------------------
(* The message thread.                                                     *)

\* A client makes an adapter change its mask.
ChangeMask(a) ==
    /\ alive[a] = "constructed"
    /\ Len(apiMail) < MaxApiMail
    /\ \E mask \in Masks \ {mEvtMask[a]} : Post(UpdateMsg(a, mask))
    /\ UNCHANGED <<mLocAdapters, mEvtMask, alive, leaving, reading, modem, report>>

\* LocOpenMsg, LocSsrMsg (which closes first) and LocAdapterBase::updateEvtMask.
\* No message comes from an adapter that was destroyed.
HandleApi ==
    /\ reading = NotReading /\ apiMail # <<>>
    /\ LET m == Head(apiMail) IN
       /\ modem' = IF m = LocSsrMsg THEN [modem EXCEPT !.mask = {}] ELSE modem
       /\ mEvtMask' = IF m.kind = "update" THEN [mEvtMask EXCEPT ![m.adapter] = m.mask]
                      ELSE mEvtMask
    /\ apiMail' = Tail(apiMail)
    /\ reading' = [slot |-> 1, mask |-> {}]
    /\ UNCHANGED <<mLocAdapters, alive, leaving, report>>

\* getEvtMask
GetEvtMask ==
    /\ reading # NotReading /\ ~Ends(reading.slot)
    /\ reading' = [slot |-> reading.slot + 1,
                   mask |-> reading.mask \cup mEvtMask[mLocAdapters[reading.slot]]]
    /\ UNCHANGED <<mLocAdapters, mEvtMask, alive, leaving, apiMail, modem, report>>

\* open; a modem that is down takes nothing in.
OpenEngine ==
    /\ reading # NotReading /\ Ends(reading.slot)
    /\ modem' = IF modem.up THEN [modem EXCEPT !.mask = reading.mask \ Excluded] ELSE modem
    /\ reading' = NotReading
    /\ UNCHANGED <<mLocAdapters, mEvtMask, alive, leaving, apiMail, report>>

-----------------------------------------------------------------------------
(* The modem's thread.                                                     *)

HandleEngineDownEvent ==
    /\ modem.up /\ report.kind = "none"
    /\ modem' = [up |-> FALSE, mask |-> {}]
    /\ UNCHANGED <<mLocAdapters, mEvtMask, alive, leaving, apiMail, reading, report>>

HandleEngineUpEvent ==
    /\ ~modem.up
    /\ Len(apiMail) < MaxApiMail
    /\ modem' = [modem EXCEPT !.up = TRUE]
    /\ Post(LocSsrMsg)
    /\ UNCHANGED <<mLocAdapters, mEvtMask, alive, leaving, reading, report>>

\* TO_ALL_LOCADAPTERS for a report, TO_1ST_HANDLING_LOCADAPTERS for a request.
BeginReport(kind) ==
    /\ modem.up /\ report.kind = "none"
    /\ report' = [kind |-> kind, slot |-> 1, reached |-> <<>>,
                  present |-> Range(mLocAdapters) \ {NoAdapter},
                  disturbed |-> leaving # NotLeaving]
    /\ UNCHANGED <<mLocAdapters, mEvtMask, alive, leaving, apiMail, reading, modem>>

Handled == report.kind = "first" /\ report.reached # <<>> /\ Last(report.reached) \in Handlers

CallAdapter ==
    /\ report.kind # "none" /\ ~Ends(report.slot) /\ ~Handled
    /\ report' = [report EXCEPT !.slot = @ + 1,
                                !.reached = Append(@, mLocAdapters[report.slot])]
    /\ UNCHANGED <<mLocAdapters, mEvtMask, alive, leaving, apiMail, reading, modem>>

ReportEnds == report.kind # "none" /\ (Ends(report.slot) \/ Handled)

EndReport ==
    /\ ReportEnds
    /\ report' = NoReport
    /\ UNCHANGED <<mLocAdapters, mEvtMask, alive, leaving, apiMail, reading, modem>>

AdaptersComeAndGo ==
    \/ \E a \in Adapters : AddAdapter(a) \/ RemoveAdapter(a)
    \/ FillHole \/ EmptyLast \/ CloseOrOpen

ReadEvents == HandleApi \/ GetEvtMask \/ OpenEngine

EventsChange ==
    \/ \E a \in Adapters : ChangeMask(a)
    \/ ReadEvents
    \/ HandleEngineDownEvent \/ HandleEngineUpEvent

ModemReports ==
    BeginReport("all") \/ BeginReport("first") \/ CallAdapter \/ EndReport

ApiNext == AdaptersComeAndGo \/ EventsChange \/ ModemReports

ApiSpec == ApiInit /\ [][ApiNext]_apiVars

-----------------------------------------------------------------------------
(* Properties.                                                             *)

Registered == Range(mLocAdapters) \ {NoAdapter}
AtRest == leaving = NotLeaving /\ apiMail = <<>> /\ reading = NotReading /\ modem.up

\* Once nothing is under way the engine reports just what some adapter wants, after
\* any mixture of adapters that come, change and go and of restarts of the modem.
\* (When the last adapter goes while its events are being read, the engine may be
\* opened for them after it was closed.)
EngineKnowsAdapters ==
    AtRest /\ Registered # {} =>
        modem.mask = (UNION {mEvtMask[a] : a \in Registered}) \ Excluded

\* A report that no removal overlaps reaches each adapter that was there once, and a
\* request ends at an adapter that handles it whenever there is one.
ReportsArrive ==
    ReportEnds /\ ~report.disturbed =>
        /\ IsInjective(report.reached)
        /\ report.kind = "all" => report.present \subseteq Range(report.reached)
        /\ report.kind = "first" /\ report.present \cap Handlers # {} => Handled
=============================================================================
