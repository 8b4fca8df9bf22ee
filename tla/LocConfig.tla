------------------------------ MODULE LocConfig ------------------------------
(***************************************************************************)
(* How the launcher's list of processes is read from a configuration file  *)
(* (loc_read_process_conf).  The reader counts lines, not processes: each  *)
(* call of loc_read_conf_r goes on where the last one stopped, until as    *)
(* many lines have matched as its table has entries, and all of them fill  *)
(* the same variable, conf, which keeps what no line has set.              *)
(* A file is a sequence of lines, a key and a value; one is a list where   *)
(* the code splits it into words.  Limits on the length of texts are left  *)
(* out.                                                                    *)
(***************************************************************************)
EXTENDS Integers, Sequences, FiniteSets, SequencesExt

CONSTANTS
    Platform,       \* ro.board.platform
    Baseband,       \* ro.baseband
    HardwareType,   \* ro.hardware.type
    KnownGroups     \* the groups that getpwnam finds

VARIABLES
    file,           \* what conf_file_name has
    sglteTarget,    \* SGLTE_TARGET of gps.conf
    line,           \* conf_fp: the lines that have been read
    settings,       \* conf
    serviceMask,    \* loc_service_mask
    procs,          \* child_proc
    procCount,      \* proc_list_length
    reading         \* what the reader does

confVars == <<file, sglteTarget, line, settings, serviceMask, procs, procCount, reading>>

FeatureKeys == {"GTP_CELL_PROC", "GTP_CELL", "GTP_WIFI", "GTP_WAA", "SAP", "ODCPI",
                "FREE_WIFI_SCAN_INJECT", "SUPL_WIFI", "WIFI_SUPPLICANT_INFO"}
Lists == {"PROCESS_ARGUMENT", "PROCESS_GROUPS", "PLATFORMS", "BASEBAND", "HARDWARE_TYPE"}
ProcessKeys == Lists \cup {"PROCESS_NAME", "PROCESS_STATE", "PREMIUM_FEATURE", "IZAT_FEATURE_MASK"}
Required == ProcessKeys \ {"PROCESS_ARGUMENT", "PREMIUM_FEATURE", "IZAT_FEATURE_MASK"}

\* What a key holds that no line has set.
Blank(key) == CASE key \in Lists -> <<>>
                [] key = "PREMIUM_FEATURE" -> FALSE
                [] key = "IZAT_FEATURE_MASK" -> {}
                [] OTHER -> ""

-----------------------------------------------------------------------------
(* Reading lines.                                                          *)

\* A value of spaces only is not trimmed: its newline stays.
Trimmed(key, value) ==
    IF key \in Lists /\ value = <<>> THEN <<"newline">> ELSE value


\* Mutant: every line read counts as one that filled a record.
FillsAny(i, keys) == TRUE

\* loc_fill_conf_item: the line has a key of the table.
Fills(i, keys) == file[i].key \in keys

\* loc_read_conf_r reads on from a line until so many lines have filled a record.
LastRead(from, keys) ==
    LET filling == {i \in from .. Len(file) : Fills(i, keys)}
        enough == {i \in filling : Cardinality({j \in filling : j <= i}) = Cardinality(keys)}
    IN  IF enough = {} THEN Len(file) ELSE Min(enough)

\* What is held after the lines have been read: the last of a key counts.
Filled(held, from, to, keys) ==
    [key \in DOMAIN held |->
        LET of == {i \in from .. to : file[i].key = key}
        IN  IF key \in keys /\ of # {} THEN Trimmed(key, file[Max(of)].value) ELSE held[key]]

-----------------------------------------------------------------------------
(* The features that are on, each in its mode (bits of a mask).            *)

WifiFeature(mode) == IF mode = "DISABLED" THEN {} ELSE {"WIFI_BASIC"}
CellFeature(mode, proc) == CASE mode = "DISABLED" -> {}
                             [] mode # "DISABLED" /\ proc = "AP" -> {"CELL_BASIC"}
                             [] OTHER -> {"MODEM_CELL_BASIC"}
WaaFeature(mode) == IF mode \in {"PREMIUM", "BASIC"} THEN {"WAA_BASIC"} ELSE {}
SapFeature(mode) == CASE mode = "PREMIUM" -> {"SAP_PREMIUM"}
                      [] mode = "DISABLED" -> {}
                      [] OTHER -> {"SAP_BASIC"}
OnlyIfNamed == {"ODCPI", "FREE_WIFI_SCAN_INJECT", "SUPL_WIFI", "WIFI_SUPPLICANT_INFO"}
NamedFeatures(held) == {key \in OnlyIfNamed : held[key] \in {"BASIC", "PREMIUM"}}

ServiceMask(held) ==
    WifiFeature(held["GTP_WIFI"]) \cup CellFeature(held["GTP_CELL"], held["GTP_CELL_PROC"])
        \cup WaaFeature(held["GTP_WAA"]) \cup SapFeature(held["SAP"]) \cup NamedFeatures(held)

-----------------------------------------------------------------------------
(* What becomes of a process with some settings.                           *)

AllBut(list, mine) ==
    /\ list[1] = "all"
    /\ \/ Len(list) = 1
       \/ list[2] = "exclude" /\ mine \notin ToSet(SubSeq(list, 3, Len(list)))
Listed(list, mine) == list[1] # "all" /\ mine \in ToSet(list)

OnTarget(held) == \/ AllBut(held["PLATFORMS"], Platform)
                  \/ Listed(held["PLATFORMS"], Platform)
OnBaseband(held) == \/ AllBut(held["BASEBAND"], Baseband)
                    \/ Listed(held["BASEBAND"], Baseband)
                    \/ sglteTarget /\ Listed(held["BASEBAND"], "sglte")
OnHardware(held) == held["HARDWARE_TYPE"][1] = "all" \/ HardwareType \in ToSet(held["HARDWARE_TYPE"])

\* The arguments that tell a process the mode of a feature that it is for.
Modes(mask, on) ==
    (IF mask \cap {"WIFI_BASIC", "WIFI_PREMIUM"} = {} THEN <<>>
     ELSE <<"wifi", IF "WIFI_BASIC" \in on THEN "BASIC" ELSE "DISABLED">>)
    \o (IF mask \cap {"CELL_BASIC", "CELL_PREMIUM"} = {} THEN <<>>
        ELSE IF "MODEM_CELL_BASIC" \in on THEN <<"modem cell", "BASIC", "ap cell", "DISABLED">>
        ELSE <<"ap cell", IF "CELL_BASIC" \in on THEN "BASIC" ELSE "DISABLED",
               "modem cell", "DISABLED">>)
    \o (IF mask \cap {"WAA_BASIC", "WAA_PREMIUM"} = {} THEN <<>>
        ELSE <<"waa", IF "WAA_BASIC" \in on THEN "BASIC" ELSE "DISABLED">>)
    \o (IF mask \cap {"SAP_BASIC", "SAP_PREMIUM"} = {} THEN <<>>
        ELSE <<"sap", CASE "SAP_BASIC" \in on -> "BASIC"
                        [] "SAP_PREMIUM" \in on -> "PREMIUM"
                        [] OTHER -> "DISABLED">>)

NoProcess == [status |-> "DISABLED", name |-> "", groups |-> <<>>, args |-> <<>>]

\* A group that is not known leaves its slot zero, and the list is cut by one.
Groups(names) ==
    LET slots == [i \in DOMAIN names |-> IF names[i] \in KnownGroups THEN names[i] ELSE "root"]
    IN  SubSeq(slots, 1, Cardinality({i \in DOMAIN names : names[i] \in KnownGroups}))

Skipped(held) == \/ \E key \in Required : held[key] = Blank(key)
                 \/ held["PROCESS_STATE"] = "DISABLED"

\* loc_util_split_string cuts the lists in conf itself: a later process without such
\* a line finds the first word of it.
SplitLists == {"PROCESS_GROUPS", "PLATFORMS", "BASEBAND", "HARDWARE_TYPE"}
AfterSplitting(held) ==
    [key \in DOMAIN held |-> IF key \in SplitLists /\ ~Skipped(held) THEN SubSeq(held[key], 1, 1)
                                                                ELSE held[key]]

\* The record of a process that conf describes.
ProcessOf(held, on) ==
    LET named == [NoProcess EXCEPT !.name = held["PROCESS_NAME"],
                                   !.groups = Groups(held["PROCESS_GROUPS"])]
        plain == ~held["PREMIUM_FEATURE"]
        served == held["IZAT_FEATURE_MASK"] \cap on # {}
        modes == IF plain \/ ~served THEN <<>> ELSE Modes(held["IZAT_FEATURE_MASK"], on)
    IN  CASE \E key \in Required : held[key] = Blank(key) -> NoProcess
          [] held["PROCESS_STATE"] = "DISABLED" -> [NoProcess EXCEPT !.status = "DISABLED_FROM_CONF"]
          [] ~(OnTarget(held) /\ OnBaseband(held) /\ OnHardware(held)) -> named
          [] OTHER -> [named EXCEPT !.status = IF plain \/ served THEN "ENABLED" ELSE @,
                                    !.args = <<held["PROCESS_NAME"]>> \o modes
                                                 \o held["PROCESS_ARGUMENT"]]

-----------------------------------------------------------------------------
(* loc_read_process_conf, one call of loc_read_conf_r at a time.           *)

ConfigInit ==
    /\ Len(file) \in Nat /\ DOMAIN file = 1 .. Len(file)
    /\ line = 0 /\ serviceMask = {} /\ procs = <<>> /\ procCount = 0
    /\ settings = [key \in FeatureKeys \cup ProcessKeys |-> Blank(key)]
    /\ reading = "features"

\* Afterwards the file is opened once more, which may fail and ends the reading.
ReadFeatures ==
    /\ reading = "features"
    /\ settings' = Filled(settings, 1, LastRead(1, FeatureKeys), FeatureKeys)
    /\ serviceMask' = ServiceMask(settings')
    /\ reading' \in {"count", "failed"}
    /\ UNCHANGED <<file, sglteTarget, line, procs, procCount>>

\* The names are counted before the list is made, and the file rewound; the count is a byte.
CountProcess ==
    LET to == LastRead(line + 1, {"PROCESS_NAME"})
        counted == Filled([settings EXCEPT !["PROCESS_NAME"] = ""], line + 1, to, {"PROCESS_NAME"})
        more == counted["PROCESS_NAME"] # ""
    IN  /\ reading = "count"
        /\ settings' = counted
        /\ procCount' = IF more THEN (procCount + 1) % 256 ELSE procCount
        /\ line' = IF more THEN to ELSE 0
        /\ reading' = IF more THEN "count" ELSE "processes"
        /\ UNCHANGED <<file, sglteTarget, serviceMask, procs>>

ReadProcess ==
    LET to == LastRead(line + 1, ProcessKeys)
        held == Filled(settings, line + 1, to, ProcessKeys)
    IN  /\ reading = "processes" /\ Len(procs) < procCount
        /\ settings' = AfterSplitting(held)
        /\ line' = to
        /\ procs' = Append(procs, ProcessOf(held, serviceMask))
        /\ UNCHANGED <<file, sglteTarget, serviceMask, procCount, reading>>

ConfigNext == ReadFeatures \/ CountProcess \/ ReadProcess

ConfigSpec == ConfigInit /\ [][ConfigNext]_confVars

-----------------------------------------------------------------------------
(* The lines of a process, from its name to the next.                      *)

Names == {i \in DOMAIN file : file[i].key = "PROCESS_NAME"}
Block(first) == {i \in first .. Len(file) : \A n \in Names : n <= first \/ i < n}

\* Every process has all its lines, once each, and no line of it is before the first name.
\* A name is never blank: a line without a value is none.  The processes can be counted in a byte.
WellFormed ==
    /\ \A i \in DOMAIN file : file[i].key \in ProcessKeys => \E n \in Names : n <= i
    /\ \A n \in Names, key \in ProcessKeys :
        Cardinality({i \in Block(n) : file[i].key = key}) = 1
    /\ \A n \in Names : file[n].value # ""
    /\ Cardinality(Names) < 256

Own(first) == [key \in ProcessKeys |->
    LET i == CHOOSE i \in Block(first) : file[i].key = key IN Trimmed(key, file[i].value)]

\* How many processes begin up to a line.
Begun(to) == Cardinality(Names \cap 1 .. to)

\* In a file whose processes have all their lines, in any order and among any others, none is
\* forgotten and each is launched, with the groups and the arguments, that its own lines say,
\* though they are all read into one variable by a reader that only counts lines (loc_cfg.cpp:785).
LaunchedAsConfigured ==
    WellFormed =>
        /\ \A i \in DOMAIN procs :
             \E n \in Names : Begun(n) = i /\ procs[i] = ProcessOf(Own(n), serviceMask)
        /\ reading = "processes" => procCount = Cardinality(Names)
=============================================================================
