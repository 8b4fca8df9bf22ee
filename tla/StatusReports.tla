---------------------------- MODULE StatusReports ----------------------------
(***************************************************************************)
(* The reports that the system's status keeps of the engine (SystemStatus) *)
(* and what is made of them: the debug report of the framework and the     *)
(* gain of the measurements (GnssAdapter).  Positions, the sentences of    *)
(* the modem's debug log and deletions are handled by the adapter's        *)
(* thread; the debug report is made by a thread of the framework, and the  *)
(* gain looked up by the thread that the modem reports on.  Each takes the *)
(* status's mutex once.                                                    *)
(***************************************************************************)
EXTENDS Integers, Sequences, FiniteSets, SequencesExt

CONSTANTS
    maxItem,        \* 5: reports kept of a kind
    PerSystem,      \* satellites of each constellation
    Near,           \* 2000: ms that a measurement may be from the time of the gain
    Places,         \* places that positions tell
    Zero            \* the place of a report that is all zeros

ASSUME StatusAssumption == maxItem \in Nat \ {0} /\ PerSystem \in Nat \ {0}

Systems == <<"GPS", "GLONASS", "BEIDOU", "GALILEO", "QZSS">>  \* as mNav has them
SvAllNum == PerSystem * Len(Systems)

VARIABLES
    reports,        \* mCache: the reports of each kind, the newest last
    last,           \* ghost: what was said last of each kind, since all was deleted
    answer          \* ghost: what the last call gave to its caller, or to the clients

keptVars == <<reports, last, answer>>

ReportKinds == {"location", "timeAndClock", "xoState", "rfAndParams", "errRecovery",
          "injectedPosition", "bestPosition", "xtra", "ephemeris", "svHealth", "pdr",
          "navData", "positionFailure"}
Deleted == <<>>
NoAnswer == [to |-> "none"]

-----------------------------------------------------------------------------
(* Reports.  A report is what was told and whether it counts; the times    *)
(* at which it was taken and told again, and what no report is compared by *)
(* (the speed and accuracy of a location), are left out.                   *)

Valid(data) == [valid |-> TRUE, data |-> data]

Masks == {{}, {2}, {SvAllNum}}
NoTime == [time |-> 0, timeValid |-> FALSE, xo |-> 0, agc |-> 0, recovery |-> 0]

\* The reports that stand for nothing known.  That of a location is not initialised but
\* for its validity.
Defaults(kind) ==
    CASE kind = "location" -> [valid : {FALSE}, data : Places]
      [] kind = "bestPosition" -> {[valid |-> FALSE, data |-> Zero]}
      [] kind = "timeAndClock" -> {Valid([time |-> 0, timeValid |-> FALSE])}
      [] kind = "svHealth" -> {Valid([good |-> {}, bad |-> {}])}
      [] kind = "xtra" -> {Valid({})}
      [] kind = "navData" -> {Valid([i \in 1 .. SvAllNum |-> <<"unknown", i>>])}
      [] OTHER -> {Valid(0)}

\* equals: what is compared of a location is its place, and of none whether it is valid.
Same(a, b) == a.data = b.data

Bounded(history) == IF Len(history) > maxItem THEN Tail(history) ELSE history

\* setIteminReport
SetItem(history, report) ==
    IF history # <<>> /\ Same(Last(history), report) THEN history
    ELSE Bounded(Append(history, report))

\* Mutant: a default that equals the newest report is no news either.
SetDefaultIfNews(history, report) == SetItem(history, report)

\* setDefaultIteminReport
SetDefault(history, report) == Bounded(Append(history, report))

-----------------------------------------------------------------------------
(* Sentences: what the parser makes of one that is complete, or too short. *)

\* A parser that returns before it has set its members.
Uninitialised(s, possible) == IF s.short THEN possible ELSE {s.data}

PQWM1(s) == IF s.short THEN {NoTime} ELSE {s.data}
PQWP1(s) == Uninitialised(s, {0, 1})
PQWP2(s) == Uninitialised(s, Places)
PQWP3(s) == Uninitialised(s, Masks)
PQWP4(s) == Uninitialised(s, {0, 1})
PQWP5(s) == Uninitialised(s, [good : Masks, bad : Masks])
PQWP6(s) == Uninitialised(s, {0, 1})
PQWP7(s) == Uninitialised(s, {[i \in 1 .. SvAllNum |-> <<e, i>>] : e \in {"any", "eph"}})
PQWS1(s) == Uninitialised(s, {0, 1})

TimeAndClock(m1) == [time |-> m1.time, timeValid |-> m1.timeValid]
XoState(m1) == m1.xo
RfAndParams(m1) == m1.agc
ErrRecovery(m1) == m1.recovery

\* What is recorded of a sentence.
TimeReports(m1) == [timeAndClock |-> TimeAndClock(m1), xoState |-> XoState(m1),
                    rfAndParams |-> RfAndParams(m1), errRecovery |-> ErrRecovery(m1)]
Recordings(s) ==
    CASE s.name = "PQWM1" -> {TimeReports(m1) : m1 \in PQWM1(s)}
      [] s.name = "PQWP1" -> [injectedPosition : PQWP1(s)]
      [] s.name = "PQWP2" -> [bestPosition : PQWP2(s)]
      [] s.name = "PQWP3" -> [xtra : PQWP3(s)]
      [] s.name = "PQWP4" -> [ephemeris : PQWP4(s)]
      [] s.name = "PQWP5" -> [svHealth : PQWP5(s)]
      [] s.name = "PQWP6" -> [pdr : PQWP6(s)]
      [] s.name = "PQWP7" -> [navData : PQWP7(s)]
      [] s.name = "PQWS1" -> [positionFailure : PQWS1(s)]

\* The sentences of the debug log, and what others there are.
Complete(name, data) == [name : {name}, short : {FALSE}, data : data]
ShortOf(names) == [name : names, short : {TRUE}]
Sentences ==
    Complete("PQWM1", [time : {0, Near}, timeValid : BOOLEAN, xo : {1}, agc : {1, 2}, recovery : {0}])
    \cup (UNION {Complete(name, {0, 1}) : name \in {"PQWP1", "PQWP4", "PQWP6", "PQWS1"}})
    \cup Complete("PQWP2", Places) \cup Complete("PQWP3", Masks)
    \cup Complete("PQWP5", [good : Masks, bad : Masks])
    \cup Complete("PQWP7", {[i \in 1 .. SvAllNum |-> <<"eph", i>>]})
    \cup ShortOf({"PQWM1", "PQWP1", "PQWP2", "PQWP3", "PQWP4", "PQWP5", "PQWP6", "PQWP7", "PQWS1"})

-----------------------------------------------------------------------------
(* The adapter's thread.                                                   *)

KeptInit ==
    /\ reports = [kind \in ReportKinds |-> <<>>]
    /\ last = [kind \in ReportKinds |-> Deleted]
    /\ answer = NoAnswer

\* Mutant: the rest of a sentence is recorded only when its time is news.
RecordIfNews(recording) ==
    /\ reports' = [kind \in ReportKinds |->
                      IF /\ kind \in DOMAIN recording
                         /\ kind \in DOMAIN TimeReports(NoTime) \ {"timeAndClock"} =>
                              \/ reports["timeAndClock"] = <<>>
                              \/ ~Same(Last(reports["timeAndClock"]),
                                       Valid(recording["timeAndClock"]))
                      THEN SetItem(reports[kind], Valid(recording[kind]))
                      ELSE reports[kind]]
    /\ last' = [kind \in ReportKinds |->
                   IF kind \in DOMAIN recording THEN <<recording[kind]>> ELSE last[kind]]

\* Every item of a recording, each with what was said.
Record(recording) ==
    /\ reports' = [kind \in ReportKinds |->
                      IF kind \in DOMAIN recording
                      THEN SetItem(reports[kind], Valid(recording[kind]))
                      ELSE reports[kind]]
    /\ last' = [kind \in ReportKinds |->
                   IF kind \in DOMAIN recording THEN <<recording[kind]>> ELSE last[kind]]

\* MsgReportNmea, setNmeaString: a sentence of the debug log is not for the clients,
\* known or not.
RecordSentence(s) == \E recording \in Recordings(s) : Record(recording)

HandleSentence(s) == RecordSentence(s) /\ answer' = NoAnswer

\* A sentence that is not of the debug log, or one that is not known.
OtherSentence(debug) ==
    /\ answer' = IF debug THEN NoAnswer ELSE [to |-> "clients"]
    /\ UNCHANGED <<reports, last>>

\* eventPosition
RecordPosition(place) == Record([location |-> place])

\* MsgReportPosition: a failure is not recorded.
HandlePosition(status, place) ==
    /\ IF status \in {"success", "intermediate"}
          THEN RecordPosition(place)
          ELSE UNCHANGED <<reports, last>>
    /\ answer' = NoAnswer

\* MsgDeleteAidingData, setDefaultGnssEngineStates: when all is deleted, the default
\* joins the reports of each kind.
HandleDeletion(deleteAll) ==
    /\ IF deleteAll
          THEN /\ \E place \in Defaults("location") :
                    reports' = [kind \in ReportKinds |->
                        SetDefault(reports[kind],
                            IF kind = "location" THEN place ELSE CHOOSE d \in Defaults(kind) : TRUE)]
               /\ last' = [kind \in ReportKinds |-> Deleted]
          ELSE UNCHANGED <<reports, last>>
    /\ answer' = NoAnswer

-----------------------------------------------------------------------------
(* Other threads.                                                          *)

\* getIteminReport of the newest reports only, each empty or with one.
Newest == [kind \in ReportKinds |-> IF reports[kind] = <<>> THEN <<>> ELSE <<Last(reports[kind])>>]

Has(report) == report # <<>> /\ report[1].valid

DebugLocation(in) ==
    CASE Has(in["location"]) -> [valid |-> TRUE, of |-> "location",
                                 place |-> in["location"][1].data]
      [] ~Has(in["location"]) /\ Has(in["bestPosition"]) ->
            [valid |-> TRUE, of |-> "bestPosition", place |-> in["bestPosition"][1].data]
      [] OTHER -> [valid |-> FALSE]

DebugTime(in) ==
    IF in["timeAndClock"] # <<>> /\ in["timeAndClock"][1].data.timeValid
    THEN [valid |-> TRUE, time |-> in["timeAndClock"][1].data.time]
    ELSE [valid |-> FALSE]

\* Where the satellites of a constellation begin in mNav.
SvidIdx(system) == PerSystem * ((CHOOSE k \in DOMAIN Systems : Systems[k] = system) - 1)

Health(in, sv) ==
    CASE in["svHealth"] = <<>> -> "unknown"
      [] in["svHealth"] # <<>> /\ sv \in in["svHealth"][1].data.good -> "good"
      [] in["svHealth"] # <<>> /\ sv \in in["svHealth"][1].data.bad \ in["svHealth"][1].data.good -> "bad"
      [] OTHER -> "unknown"

\* convertSatelliteInfo
Satellites(in, system) ==
    [i \in 1 .. PerSystem |->
        LET sv == SvidIdx(system) + i
        IN  [ephemeris |-> IF in["navData"] = <<>> THEN <<"unknown", sv>>
                           ELSE in["navData"][1].data[sv],
             health |-> Health(in, sv),
             predicted |-> in["xtra"] # <<>> /\ sv \in in["xtra"][1].data]]

\* GnssAdapter::getDebugReport, on a thread of the framework.
GetDebugReport ==
    /\ answer' = [to |-> "debug", location |-> DebugLocation(Newest), time |-> DebugTime(Newest),
                  satellites |-> [k \in DOMAIN Systems |-> Satellites(Newest, Systems[k])]]
    /\ UNCHANGED <<reports, last>>

\* getAgcInformation, on the thread that the modem reports a measurement on, with the
\* time in the week when it has one.
GetAgcInformation(msInWeek) ==
    /\ answer' =
         [to |-> "measurement", ms |-> msInWeek,
          agc |-> IF /\ Newest["rfAndParams"] # <<>> /\ Newest["timeAndClock"] # <<>>
                     /\ Newest["timeAndClock"][1].data.time - msInWeek \in (-Near + 1) .. (Near - 1)
                  THEN <<Newest["rfAndParams"][1].data>> ELSE <<>>]
    /\ UNCHANGED <<reports, last>>

\* The caller has its answer: nobody else reads it.
Answered == answer' = NoAnswer /\ UNCHANGED <<reports, last>>

ReportsCall(names) ==
    \/ \E s \in Sentences : s.name \in names /\ HandleSentence(s)
    \/ \E debug \in BOOLEAN : OtherSentence(debug)
    \/ /\ "position" \in names
       /\ \E status \in {"success", "intermediate", "failure"}, place \in Places :
            HandlePosition(status, place)
    \/ \E deleteAll \in BOOLEAN : HandleDeletion(deleteAll)
    \/ GetDebugReport
    \/ \E ms \in {0, Near, 2 * Near} : GetAgcInformation(ms)

KeptNext(names) == IF answer = NoAnswer THEN ReportsCall(names) ELSE Answered

KeptSpec(names) == KeptInit /\ [][KeptNext(names)]_keptVars

-----------------------------------------------------------------------------
(* Properties.                                                             *)

\* What the debug report shows was said since all was deleted, and last: a place that it
\* calls valid, a time whenever the last one was valid, and of every satellite the
\* ephemeris, health and prediction that the modem told of it (a deletion only adds
\* reports to those kept, and a report that compares equal adds none).
DebugShowsLatest ==
    answer.to = "debug" =>
        /\ answer.location.valid =>
             CASE answer.location.of = "location" ->
                    last["location"] # Deleted /\ answer.location.place = last["location"][1]
               [] answer.location.of = "bestPosition" ->
                    last["bestPosition"] # Deleted /\ answer.location.place = last["bestPosition"][1]
        /\ IF last["timeAndClock"] # Deleted /\ last["timeAndClock"][1].timeValid
             THEN answer.time.valid /\ answer.time.time = last["timeAndClock"][1].time
             ELSE ~answer.time.valid
        /\ \A k \in DOMAIN Systems, i \in 1 .. PerSystem :
             LET sv == PerSystem * (k - 1) + i
                 shown == answer.satellites[k][i]
             IN  /\ shown.ephemeris = IF last["navData"] = Deleted THEN <<"unknown", sv>>
                                      ELSE last["navData"][1][sv]
                 /\ shown.health = "good" <=> last["svHealth"] # Deleted /\ sv \in last["svHealth"][1].good
                 /\ shown.predicted <=> last["xtra"] # Deleted /\ sv \in last["xtra"][1]

\* A measurement is given the gain of the last sentence with a time, if that time is
\* near its own, and of none that was said before a deletion: the time and the gain are
\* kept apart and matched by being the newest of each (getAgcInformation).
AgcIsOfItsTime ==
    answer.to = "measurement" /\ answer.agc # <<>> =>
        IF last["timeAndClock"] = Deleted THEN answer.agc = <<0>>
        ELSE /\ answer.agc = last["rfAndParams"]
             /\ last["timeAndClock"][1].time - answer.ms \in (-Near + 1) .. (Near - 1)
=============================================================================
