-------------------------------- MODULE Odcpi --------------------------------
(***************************************************************************)
(* Position injection on demand: the modem asks for a position and stops   *)
(* asking, the adapter asks the framework and asks again every ten seconds *)
(* for as long as the request stands.  The adapter's thread handles the    *)
(* messages; the timer thread stops a timer that is due and then posts its *)
(* expiry, so that a restart can come between the two.                     *)
(***************************************************************************)
EXTENDS Naturals, Sequences

CONSTANT MaxOdcpiMail   \* bound: messages in the queue when one is posted

VARIABLES
    odcpi,      \* mOdcpiRequestCb set, mOdcpiRequestActive, mOdcpiRequest's emergency, mActive
    odcpiTimer, \* the LocTimer: armed, or stopped and about to call back
    odcpiMail,  \* the adapter's message queue
    odcpiAsks   \* whether the last step asked the framework

odcpiVars == <<odcpi, odcpiTimer, odcpiMail, odcpiAsks>>

OdcpiInit ==
    /\ odcpi = [callback |-> FALSE, active |-> FALSE, emergency |-> FALSE, timerActive |-> FALSE]
    /\ odcpiTimer = [armed |-> FALSE, calling |-> FALSE]
    /\ odcpiMail = <<>>
    /\ odcpiAsks = FALSE

-----------------------------------------------------------------------------
(* What is posted: initOdcpiCommand by a service, the modem's requests     *)
(* (reportOdcpiRequestEvent), its restart (handleEngineUpEvent).           *)

OdcpiRequests == [kind : {"start"}, emergency : BOOLEAN] \cup {[kind |-> "stop"]}

PostOdcpi ==
    /\ Len(odcpiMail) < MaxOdcpiMail
    /\ \E m \in OdcpiRequests \cup {[kind |-> "init"], [kind |-> "restart"]} :
         odcpiMail' = Append(odcpiMail, m)
    /\ odcpiAsks' = FALSE
    /\ UNCHANGED <<odcpi, odcpiTimer>>

\* The timer is due: LocTimerDelegate::expire stops it, without mActive's notice,
OdcpiTimerDue ==
    /\ odcpiTimer.armed
    /\ ~odcpiTimer.calling
    /\ odcpiTimer' = [armed |-> FALSE, calling |-> TRUE]
    /\ odcpiAsks' = FALSE
    /\ UNCHANGED <<odcpi, odcpiMail>>

\* and calls timeOutCallback, which posts the expiry.
OdcpiTimerCalls ==
    /\ odcpiTimer.calling
    /\ odcpiTimer' = [odcpiTimer EXCEPT !.calling = FALSE]
    /\ odcpiMail' = Append(odcpiMail, [kind |-> "expire"])
    /\ odcpiAsks' = FALSE
    /\ UNCHANGED odcpi

-----------------------------------------------------------------------------
(* The adapter's thread.                                                   *)

HandlesOdcpi(kind) ==
    odcpiMail # <<>> /\ Head(odcpiMail).kind = kind /\ odcpiMail' = Tail(odcpiMail)

\* OdcpiTimer::start, stop and restart.  LocTimer::start does nothing to a timer
\* that is running.
Start(o) == [o EXCEPT !.timerActive = TRUE]
Stop(o) == [o EXCEPT !.timerActive = FALSE]
Running == [odcpiTimer EXCEPT !.armed = TRUE]
Stopped == [odcpiTimer EXCEPT !.armed = FALSE]

\* The framework is asked, and the timer started or restarted.
AskFramework(emergency) ==
    /\ odcpi' = Start([odcpi EXCEPT !.active = TRUE, !.emergency = emergency])
    /\ odcpiTimer' = Running
    /\ odcpiAsks' = TRUE

OdcpiInitiated ==
    /\ HandlesOdcpi("init")
    /\ odcpi' = [odcpi EXCEPT !.callback = TRUE]
    /\ odcpiAsks' = FALSE
    /\ UNCHANGED odcpiTimer

\* reportOdcpiRequest
OdcpiStarts ==
    /\ HandlesOdcpi("start")
    /\ LET emergency == Head(odcpiMail).emergency
           fresh == ~odcpi.active /\ ~odcpi.timerActive
           upgrade == ~odcpi.emergency /\ emergency
       IN  IF ~odcpi.callback
           THEN odcpiAsks' = FALSE /\ UNCHANGED <<odcpi, odcpiTimer>>
           ELSE IF fresh \/ upgrade
           THEN AskFramework(emergency)
           ELSE /\ odcpi' = [odcpi EXCEPT !.active = @ \/ odcpi.timerActive,
                                          !.emergency = emergency]
                /\ odcpiAsks' = FALSE
                /\ UNCHANGED odcpiTimer

OdcpiStops ==
    /\ HandlesOdcpi("stop")
    /\ odcpi' = [odcpi EXCEPT !.active = @ /\ ~odcpi.callback]
    /\ odcpiAsks' = FALSE
    /\ UNCHANGED odcpiTimer

\* restartSessions: the request is over, its timer goes on.
OdcpiRestarts ==
    /\ HandlesOdcpi("restart")
    /\ odcpi' = [odcpi EXCEPT !.active = FALSE]
    /\ odcpiAsks' = FALSE
    /\ UNCHANGED odcpiTimer

\* Mutant: the expiry of a request that stands asks the framework and no more.
ExpireAsksOnce ==
    odcpiAsks' = TRUE /\ UNCHANGED <<odcpi, odcpiTimer>>

ExpireAsks == AskFramework(odcpi.emergency)

\* odcpiTimerExpire
OdcpiExpires ==
    /\ HandlesOdcpi("expire")
    /\ IF odcpi.active THEN ExpireAsks
       ELSE odcpi' = Stop(odcpi) /\ odcpiTimer' = Stopped /\ odcpiAsks' = FALSE

HandleOdcpi ==
    \/ OdcpiInitiated \/ OdcpiStarts \/ OdcpiStops \/ OdcpiRestarts \/ OdcpiExpires

OdcpiTimerSteps == OdcpiTimerDue \/ OdcpiTimerCalls

OdcpiNext == PostOdcpi \/ OdcpiTimerSteps \/ HandleOdcpi

\* The timer thread and the adapter's thread go on; nobody has to ask.
OdcpiFairness ==
    /\ WF_odcpiVars(OdcpiTimerDue)
    /\ WF_odcpiVars(OdcpiTimerCalls)
    /\ WF_odcpiVars(HandleOdcpi)

OdcpiSpec == OdcpiInit /\ [][OdcpiNext]_odcpiVars /\ OdcpiFairness

-----------------------------------------------------------------------------
(* Properties.                                                             *)

Expiring == odcpiTimer.calling \/ \E i \in DOMAIN odcpiMail : odcpiMail[i].kind = "expire"

\* A request that stands is repeated to the framework again and again until the
\* modem stops it or restarts, whatever the modem asks in between.
OdcpiIsRepeated == []<>(~odcpi.active \/ odcpiAsks)
=============================================================================
