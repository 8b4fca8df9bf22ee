-------------------------------- MODULE Nmea --------------------------------
(***************************************************************************)
(* The NMEA sentences that the adapter makes of positions and of satellite *)
(* reports when it is the NMEA provider (utils/loc_nmea.cpp).  A sentence  *)
(* is a record of the fields that the properties are about: who talks,     *)
(* which satellites it names, and how it numbers and counts.               *)
(***************************************************************************)
EXTENDS Naturals, FiniteSets, Sequences, FiniteSetsExt, SequencesExt

CONSTANTS
    Width,          \* 32: bits of the masks that the generator keeps
    MaxInGsa        \* 12: satellites a GSA sentence has room for, and that GGA counts

ASSUME NmeaAssumption == Width \in Nat \ {0} /\ MaxInGsa \in Nat \ {0}

Types == {"GPS", "GLONASS", "GALILEO", "QZSS", "BEIDOU"}
SystemId == [GPS |-> 1, GLONASS |-> 2, GALILEO |-> 3, BEIDOU |-> 4, QZSS |-> 5]
OwnTalker == [GPS |-> "GP", GLONASS |-> "GL", GALILEO |-> "GA", QZSS |-> "PQ", BEIDOU |-> "PQ"]
SvIdOffset(type) == IF type = "GLONASS" THEN 64 ELSE 0

\* Masks and reports are read from their first entry on.
NthOf(n, numbers) == CHOOSE x \in numbers : Cardinality(numbers \cap 1 .. x) = n

-----------------------------------------------------------------------------
(* Sentences of a position.                                                *)

\* loc_sv_cache_info of a position.  The masks of QZSS and BEIDOU are taken from
\* each other.
UsedMasks(fix) ==
    LET From(type) == CASE type = "QZSS" -> "BEIDOU" [] type = "BEIDOU" -> "QZSS"
                        [] OTHER -> type
    IN  [type \in Types |-> IF fix.hasUsed THEN fix.used[From(type)] \cap 1 .. Width ELSE {}]

\* Mutant: QZSS and BEIDOU do not make a solution a combined one.
CombinedOfThree(masks) ==
    Cardinality({type \in Types \ {"QZSS", "BEIDOU"} : masks[type] # {}}) > 1

Combined(masks) == Cardinality({type \in Types : masks[type] # {}}) > 1

\* loc_nmea_sv_meta_init: for QZSS and BEIDOU it is not asked to combine.
Talker(type, masks) ==
    IF type \notin {"QZSS", "BEIDOU"} /\ Combined(masks) THEN "GN" ELSE OwnTalker[type]

FixType(count) == CASE count = 0 -> 1 [] count \in 1 .. 3 -> 2 [] OTHER -> 3

\* loc_nmea_generate_GSA: none for a system without a satellite used, but for GPS.
GSA(type, masks) ==
    LET svUsedCount == Cardinality(masks[type])
    IN  IF svUsedCount = 0 /\ type # "GPS" THEN <<>>
        ELSE << [kind |-> "GSA", talker |-> Talker(type, masks), system |-> SystemId[type],
                 fixType |-> FixType(svUsedCount),
                 ids |-> [i \in 1 .. Min({MaxInGsa, svUsedCount}) |->
                            NthOf(i, masks[type]) + SvIdOffset(type)]] >>

\* The talker of the other sentences is that of the last GSA sentence of the first
\* three systems that named a satellite.
FixTalker(masks) ==
    LET Of(type, talker) == IF masks[type] = {} THEN talker ELSE Talker(type, masks)
    IN  Of("GALILEO", Of("GLONASS", Of("GPS", "GP")))

Count(masks) ==
    Min({MaxInGsa, Cardinality(masks["GPS"]) + Cardinality(masks["GLONASS"])
                   + Cardinality(masks["GALILEO"]) + Cardinality(masks["QZSS"])
                   + Cardinality(masks["BEIDOU"])})

\* loc_nmea_generate_pos; the blank sentences for a fix that is not final.
NmeaOfFix(fix, generate) ==
    IF ~generate
    THEN << [kind |-> "GSA", talker |-> "GP"], [kind |-> "GSA", talker |-> "GN"],
            [kind |-> "GSA", talker |-> "PQ"], [kind |-> "VTG", talker |-> "GP"],
            [kind |-> "RMC", talker |-> "GP"], [kind |-> "GGA", talker |-> "GP"] >>
    ELSE LET masks == UsedMasks(fix)
         IN  GSA("GPS", masks) \o GSA("GLONASS", masks) \o GSA("GALILEO", masks)
             \o GSA("QZSS", masks) \o GSA("BEIDOU", masks)
             \o << [kind |-> "VTG", talker |-> FixTalker(masks)],
                   [kind |-> "RMC", talker |-> FixTalker(masks)],
                   [kind |-> "GGA", talker |-> FixTalker(masks), count |-> Count(masks)] >>

-----------------------------------------------------------------------------
(* Sentences of a satellite report.                                        *)

OfType(svs, type) == {i \in DOMAIN svs : svs[i].type = type}

SentenceCount(svCount) == svCount \div 4 + (IF svCount % 4 # 0 THEN 1 ELSE 0)

\* loc_nmea_generate_GSV: sentences of up to four satellites each, one blank sentence
\* when there is none.
GSV(type, svs) ==
    LET own == OfType(svs, type)
        svCount == Cardinality(own)
        Sentence(k, of) ==
            [kind |-> "GSV", talker |-> OwnTalker[type], type |-> type,
             number |-> k, of |-> of, count |-> svCount,
             ids |-> [i \in 1 .. Min({4, svCount - 4 * (k - 1)}) |->
                        svs[NthOf(4 * (k - 1) + i, own)].id + SvIdOffset(type)]]
    IN  IF svCount = 0 THEN << Sentence(1, 1) >>
        ELSE [k \in 1 .. SentenceCount(svCount) |-> Sentence(k, SentenceCount(svCount))]

\* loc_nmea_generate_sv
NmeaOfSvs(svs) ==
    GSV("GPS", svs) \o GSV("GLONASS", svs) \o GSV("GALILEO", svs)
    \o GSV("QZSS", svs) \o GSV("BEIDOU", svs)
=============================================================================
