----------------------------- MODULE MCServices -----------------------------
(***************************************************************************)
(* The observer of the system's status, the listener that the XTRA daemon  *)
(* sends to, the threads that such listeners and the message tasks run in, *)
(* the adapter's control path, the reports kept of the engine, and the     *)
(* reader of the launcher's file, which share no state.  A setting chooses *)
(* who acts, with every interleaving of its calls with the queue: clients  *)
(* of the observer that come and go, the XTRA daemon and what it is told,  *)
(* the framework module that callers turn on and off; the listener; an     *)
(* owner of threads; the services that configure the adapter, with some    *)
(* items; the reports of places, of the time, of satellites, or of what    *)
(* nobody reads; a file with two or three processes.                       *)
(***************************************************************************)
EXTENDS StatusObserver, GnssControl, LocIpc, StatusReports, LocConfig, LocThread

VARIABLE setting

ControlSettings == {"injected", "always", "server"}
Configured == CASE setting = "injected" -> {"lock", Injected}
                [] setting = "always" -> {Always}
                [] setting = "server" -> {"server"}

ReportSettings == {"places", "time", "ephemeris", "health", "unread", "pdr"}
Sent == CASE setting = "places" -> {"position", "PQWP2"}
          [] setting = "time" -> {"PQWM1"}
          [] setting = "ephemeris" -> {"PQWP3", "PQWP7"}
          [] setting = "health" -> {"PQWP5"}
          [] setting = "unread" -> {"PQWP1", "PQWP4"}
          [] setting = "pdr" -> {"PQWP6", "PQWS1"}

Line(key, value) == [key |-> key, value |-> value]

\* The features' modes; one that is "" has no line.
Features(wifi, cell, proc, waa, sap, rest) ==
    SelectSeq(<< Line("GTP_CELL_PROC", proc), Line("GTP_CELL", cell), Line("GTP_WIFI", wifi),
                 Line("GTP_WAA", waa), Line("SAP", sap), Line("ODCPI", rest),
                 Line("FREE_WIFI_SCAN_INJECT", rest), Line("SUPL_WIFI", "DISABLED"),
                 Line("WIFI_SUPPLICANT_INFO", "PREMIUM") >>, LAMBDA l : l.value # "")
FeatureChoices ==
    { Features("BASIC", "BASIC", "MODEM", "DISABLED", "BASIC", "DISABLED"),
      Features("", "PREMIUM", "AP", "PREMIUM", "PREMIUM", "PREMIUM"),
      Features("DISABLED", "DISABLED", "AP", "", "DISABLED", "BASIC"),
      Features("DISABLED", "", "", "BASIC", "", "") }

Plain == << Line("PROCESS_NAME", "p"), Line("PROCESS_ARGUMENT", <<>>),
            Line("PROCESS_STATE", "ENABLED"), Line("PROCESS_GROUPS", <<"gps", "inet">>),
            Line("PREMIUM_FEATURE", FALSE), Line("IZAT_FEATURE_MASK", {}),
            Line("PLATFORMS", <<"all">>), Line("BASEBAND", <<"all">>),
            Line("LEAN_TARGETS", ""), Line("HARDWARE_TYPE", <<"all">>) >>
Premium(mask) == [Plain EXCEPT ![5].value = TRUE, ![6].value = mask]

\* A process that is launched, and others that differ from it in some lines, or miss one.
Processes ==
    << Plain, Reverse(Tail(Plain)) \o <<Head(Plain)>>, <<Head(Plain)>> \o Reverse(Tail(Plain)),
       Premium({"WIFI_BASIC", "CELL_BASIC", "SAP_PREMIUM"}), Premium({"WAA_PREMIUM"}),
       Premium({"CELL_PREMIUM", "MODEM_CELL_BASIC"}), Premium({"ODCPI"}),
       [Plain EXCEPT ![2].value = <<"x">>], [Plain EXCEPT ![3].value = "DISABLED"],
       [Plain EXCEPT ![4].value = <<"gps", "nobody", "inet">>],
       [Plain EXCEPT ![7].value = <<"all", "exclude", "apq">>],
       [Plain EXCEPT ![7].value = <<"msm", "apq">>], [Plain EXCEPT ![7].value = <<"msm">>],
       [Plain EXCEPT ![8].value = <<"sglte">>], [Plain EXCEPT ![8].value = <<"all", "exclude">>],
       [Plain EXCEPT ![10].value = <<"automotive">>],
       InsertAt(Plain, 4, Line("SGLTE_TARGET", "1")),
       RemoveAt(Plain, 2), RemoveAt(Plain, 3), RemoveAt(Plain, 10),
       Plain \o <<Plain[10]>> >>

ConfigFile(features, process, first) ==
    LET named(p, name) == [i \in DOMAIN p |->
            IF p[i].key = "PROCESS_NAME" THEN [p[i] EXCEPT !.value = name] ELSE p[i]]
        other == named(Premium({"WIFI_BASIC"}), "q")
    IN  features \o (IF first THEN named(process, "p") \o other ELSE other \o named(process, "p"))
                 \o named(Plain, "r")

FileInit ==
    IF setting = "launch"
    THEN /\ \E features \in FeatureChoices, n \in DOMAIN Processes, first \in BOOLEAN :
             file = ConfigFile(features, Processes[n], first)
         /\ sglteTarget \in BOOLEAN
    ELSE file = <<>> /\ sglteTarget = FALSE

MCInit ==
    /\ StatusInit /\ ControlInit /\ IpcInit /\ KeptInit /\ ThreadInit
    /\ setting \in {"clients", "daemon", "module", "ipc", "threads", "launch"} \cup ControlSettings \cup ReportSettings
    /\ setting # "injected" => adapter.inject
    /\ setting \notin ControlSettings => adapter.conf["lock"] = UnknownCode
    /\ FileInit /\ ConfigInit

\* All but one of the parts rest.
OthersThan(part) ==
    /\ part # "status" => UNCHANGED statusVars
    /\ part # "control" => UNCHANGED controlVars
    /\ part # "ipc" => UNCHANGED ipcVars
    /\ part # "kept" => UNCHANGED keptVars
    /\ part # "conf" => UNCHANGED confVars
    /\ part # "threads" => UNCHANGED threadVars
    /\ UNCHANGED setting

\* Where clients come and go, the news are of what they can ask for.
NotifyOthers == \E list \in NewsLists : DOMAIN list \subseteq OtherItems /\ Notify(list)

MCNext ==
    \/ /\ \/ setting \in {"clients", "daemon", "module"} /\ HandleStatus
          \/ setting = "clients" /\ (ObserverCall \/ SetSubscriptionObj \/ NotifyOthers)
          \/ setting = "daemon" /\ (SetSubscriptionObj \/ NotifyAny \/ TellLockAny \/ DaemonStep)
          \/ setting = "module" /\ ModuleCall
       /\ OthersThan("status")
    \/ /\ setting \in ControlSettings
       /\ \/ ServiceCall(Configured) \/ HandleOrder \/ EngineDown \/ EngineUp
          \/ setting = "always" /\ DeleteAidingData
       /\ OthersThan("control")
    \/ setting = "ipc" /\ IpcNext /\ OthersThan("ipc")
    \/ setting \in ReportSettings /\ KeptNext(Sent) /\ OthersThan("kept")
    \/ setting = "launch" /\ ConfigNext /\ OthersThan("conf")
    \/ setting = "threads" /\ ThreadNext /\ OthersThan("threads")

MCSpec == MCInit /\ [][MCNext]_<<statusVars, controlVars, ipcVars, keptVars, confVars,
                                  threadVars, setting>>
=============================================================================
