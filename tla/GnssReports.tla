----------------------------- MODULE GnssReports -----------------------------
(***************************************************************************)
(* What the adapter makes of the modem's positions, satellite reports and  *)
(* NMEA sentences for its clients (GnssAdapter).  The modem's reports      *)
(* reach the adapter's thread in their order, so the queue between them is *)
(* left out: what happens here are the handlers.                           *)
(***************************************************************************)
EXTENDS Nmea

CONSTANTS
    SvTypes,        \* the constellations that the modem reports
    MaxSvs,         \* bound: satellites in a report
    MaxSvId,        \* bound: ids of the satellites that a position used
    MaxUsed,        \* bound: how many a position used
    MarkedAt        \* bound: the places of a report whose satellites may come in marked

VARIABLES
    conf,           \* NMEA_PROVIDER, INTERMEDIATE_POS
    inSession,      \* mTrackingSessions has a session
    usedInPosition, \* mGnssSvIdUsedInPosAvail, mGnssSvIdUsedInPosition
    named,          \* ghost: the satellites that the last position told to clients
                    \* used, while no satellites were reported since
    told            \* ghost: what a handler told the clients

reportVars == <<conf, inSession, usedInPosition, named, told>>

NoSvs == [type \in Types |-> {}]
NoNews == [kind |-> "none"]

ReportsInit ==
    /\ conf \in [nmeaProvider : {"AP", "MP"}, intermediatePos : BOOLEAN]
    /\ inSession = FALSE
    /\ usedInPosition = [avail |-> FALSE, ids |-> NoSvs]
    /\ named = NoSvs
    /\ told = NoNews

\* What the modem may report.  Blank: no position, no reliability.  Satellites are
\* numbered within their constellation.
UsedSets ==
    {[type \in Types |-> {pair[2] : pair \in {p \in pairs : p[1] = type}}] :
        pairs \in UNION {kSubset(n, SvTypes \X (1 .. MaxSvId)) : n \in 0 .. MaxUsed}}
Positions ==
    [status : {"success"}, satellite : BOOLEAN, inaccurate : {FALSE}, blank : {FALSE},
     hasUsed : {TRUE}, used : UsedSets]
    \cup [status : {"intermediate"}, satellite : {TRUE}, inaccurate : BOOLEAN, blank : {FALSE},
          hasUsed : {TRUE}, used : UsedSets]
    \cup [status : {"success", "failure"}, satellite : {TRUE}, inaccurate : {FALSE},
          blank : BOOLEAN, hasUsed : {FALSE}, used : {NoSvs}]

\* The modem's own GNSS_SV_OPTIONS_USED_IN_FIX_BIT comes with them.
Numbered(types, marked) ==
    [i \in DOMAIN types |->
        [type |-> types[i], id |-> Cardinality({j \in 1 .. i : types[j] = types[i]}),
         used |-> i \in marked]]
SvReports ==
    {Numbered(types, marked) :
        types \in (UNION {[1 .. n -> SvTypes] : n \in 0 .. MaxSvs}) \cup {<<"GPS", "SBAS", "GPS">>},
        marked \in SUBSET MarkedAt}

-----------------------------------------------------------------------------
MakesNmea == conf.nmeaProvider = "AP" /\ inSession

\* needReport
NeedReport(fix) ==
    \/ fix.status = "success" /\ fix.satellite
    \/ fix.status = "intermediate" /\ conf.intermediatePos /\ ~fix.inaccurate

\* reportPosition.  The sentences are made of a position that is not for the clients too,
\* but blank.
ReportPosition(fix) ==
    /\ IF NeedReport(fix) /\ fix.hasUsed
          THEN usedInPosition' = [avail |-> TRUE, ids |-> fix.used] /\ named' = fix.used
          ELSE UNCHANGED <<usedInPosition, named>>
    /\ told' = [kind |-> "position", fix |-> fix, location |-> NeedReport(fix),
                nmea |-> IF MakesNmea THEN NmeaOfFix(fix, NeedReport(fix) /\ ~fix.blank)
                         ELSE <<>>]
    /\ UNCHANGED <<conf, inSession>>

\* An int shifted left by the id less one, against the wider mask: the sign extends
\* the highest bit, and what lies beyond is undefined.
SomeMatches(sv, masks, beyond) ==
    LET mask == IF sv.type \in Types THEN masks[sv.type] ELSE {}
    IN  CASE sv.id < Width -> sv.id \in mask
          [] sv.id = Width -> \E id \in mask : id >= Width
          [] sv.id > Width -> mask # {} /\ beyond

\* QZSS_SV_PRN_MIN - 1: the framework expects QZSS ids as they are.
QzssPrns == 192

\* Satellites are marked, never unmarked.
Marked(svs, beyond) ==
    LET masks == IF usedInPosition.avail THEN usedInPosition.ids ELSE NoSvs
    IN  [i \in DOMAIN svs |->
            [svs[i] EXCEPT !.used = @ \/ SomeMatches(svs[i], masks, beyond),
                           !.id = IF svs[i].type = "QZSS" THEN @ + QzssPrns ELSE @]]

TellSvs(svs, marked) ==
    told' = [kind |-> "sv", reported |-> svs, svs |-> marked, named |-> named,
             nmea |-> IF MakesNmea THEN NmeaOfSvs(marked) ELSE <<>>]

\* Mutant: the satellites of a position mark every later report.
ReportSvAgain(svs) ==
    /\ \E beyond \in BOOLEAN : TellSvs(svs, Marked(svs, beyond))
    /\ named' = NoSvs
    /\ UNCHANGED <<conf, inSession, usedInPosition>>

\* reportSv
ReportSv(svs) ==
    /\ \E beyond \in BOOLEAN : TellSvs(svs, Marked(svs, beyond))
    /\ usedInPosition' = [usedInPosition EXCEPT !.avail = FALSE]
    /\ named' = NoSvs
    /\ UNCHANGED <<conf, inSession>>

\* The first session of all starts, or the last one stops.
SessionsChange ==
    /\ inSession' = ~inSession
    /\ UNCHANGED <<conf, usedInPosition, named, told>>

\* The clients have heard: no handler reads what another told.
Heard == told' = NoNews /\ UNCHANGED <<conf, inSession, usedInPosition, named>>

ReportsNext ==
    IF told # NoNews THEN Heard
    ELSE \/ \E fix \in Positions : ReportPosition(fix)
         \/ \E svs \in SvReports : ReportSv(svs)
         \/ SessionsChange

ReportsSpec == ReportsInit /\ [][ReportsNext]_reportVars

-----------------------------------------------------------------------------
(* Properties.                                                             *)

OwnId(sv) == IF sv.type = "QZSS" THEN sv.id - QzssPrns ELSE sv.id
OfTheFix(sv) == sv.type \in Types /\ OwnId(sv) \in told.named[sv.type]

\* A satellite is told as used exactly if the modem marked it, or the last position that
\* clients were told since the satellites before used it, for the ids below the width of
\* an int (reportPosition and reportSv hand the masks from one report to the other).
UsedAreOfTheFix ==
    told.kind = "sv" =>
        \A i \in DOMAIN told.svs :
            LET sv == told.svs[i]
            IN  OwnId(sv) < Width => (sv.used <=> told.reported[i].used \/ OfTheFix(sv))

\* "If SV ID was used in previous position fix, then set USED_IN_FIX flag, else clear the
\* USED_IN_FIX flag" (GnssAdapter.cpp, reportSv): no other satellite is told as used.
OthersAreCleared ==
    told.kind = "sv" =>
        \A i \in DOMAIN told.svs :
            LET sv == told.svs[i] IN OwnId(sv) < Width /\ sv.used => OfTheFix(sv)

\* A sentence names the satellite of its system that is next behind those of the sentences before.
NamesSv(sentence, m, svs, i) ==
    LET own == OfType(svs, sentence.type)
    IN  /\ Cardinality(own \cap 1 .. i) = 4 * (sentence.number - 1) + m
        /\ sentence.ids[m] = svs[i].id + SvIdOffset(sentence.type)

\* The sentences of a satellite report are numbered through for each system, fit four
\* satellites each, count the system's satellites, and name each of them once and
\* no other (loc_nmea_generate_GSV).
SvsAreNamedOnce ==
    told.kind = "sv" /\ told.nmea # <<>> =>
        \A type \in Types :
            LET own == OfType(told.svs, type)
                sentences == {k \in DOMAIN told.nmea : told.nmea[k].type = type}
            IN  /\ sentences # {}
                /\ \A k \in sentences :
                     LET sentence == told.nmea[k]
                     IN  /\ sentence.number = Cardinality(sentences \cap 1 .. k)
                         /\ sentence.of = Cardinality(sentences)
                         /\ sentence.count = Cardinality(own)
                         /\ Len(sentence.ids) <= 4
                         /\ sentence.ids = <<>> => own = {}
                         /\ \A m \in DOMAIN sentence.ids :
                              \E i \in own : NamesSv(sentence, m, told.svs, i)
                /\ \A i \in own : \E k \in sentences : \E m \in DOMAIN told.nmea[k].ids :
                     NamesSv(told.nmea[k], m, told.svs, i)

Gsa(type) ==
    {k \in DOMAIN told.nmea : told.nmea[k].kind = "GSA" /\ told.nmea[k].system = SystemId[type]}
TellsFix == told.kind = "position" /\ told.nmea # <<>> /\ told.location /\ ~told.fix.blank
UsedOf(type) == told.fix.used[type] \cap 1 .. Width

\* A position that clients are told comes with sentences that name the satellites it
\* used, of GPS, GLONASS and Galileo, as many as fit and the lowest first; the talker
\* says whether more than one system was used, and the count is of all that were
\* (loc_nmea_generate_pos, loc_nmea_generate_GSA).
GsaNamesUsed ==
    TellsFix =>
        /\ \A type \in {"GPS", "GLONASS", "GALILEO"} :
             /\ Cardinality(Gsa(type)) = (IF UsedOf(type) # {} \/ type = "GPS" THEN 1 ELSE 0)
             /\ \A k \in Gsa(type) :
                  LET ids == Range(told.nmea[k].ids)
                      used == {id + SvIdOffset(type) : id \in UsedOf(type)}
                  IN  /\ ids \subseteq used
                      /\ Cardinality(ids) = Min({MaxInGsa, Cardinality(used)})
                      /\ \A id \in ids, other \in used \ ids : id < other
                      /\ told.nmea[k].talker = "GN" <=>
                            Cardinality({t \in Types : UsedOf(t) # {}}) > 1
        /\ LET used == UNION {{<<type, id>> : id \in UsedOf(type)} : type \in Types}
           IN  Last(told.nmea).count = Min({MaxInGsa, Cardinality(used)})

\* The sentences that clients get of a satellite report, and with a position, name the
\* satellites that they are about.
SentencesNameTheirSvs == SvsAreNamedOnce /\ GsaNamesUsed

\* Each system's sentence names that system's satellites, as the comments above the
\* calls say (loc_nmea.cpp "$PQGSA/$GNGSA (QZSS)", "(BEIDOU)").
EachSystemNamesItsOwn ==
    TellsFix =>
        \A type \in Types : \A k \in Gsa(type) :
            Range(told.nmea[k].ids) \subseteq {id + SvIdOffset(type) : id \in UsedOf(type)}
=============================================================================
