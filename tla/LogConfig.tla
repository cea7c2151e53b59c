------------------------------- MODULE LogConfig -------------------------------
(***************************************************************************)
(* The configuration file (src/src/configuration.hpp), the thread that     *)
(* reloads it while users edit it, and the log it switches                 *)
(* (src/src/logging.cpp, setup_log): a pointer, under the lock of          *)
(* log_output, to a stream that setup_log owns and replaces.               *)
(*                                                                         *)
(* Of the options, two matter: the schedule stands for those that are only *)
(* validated and stored, and the log name for those of the log.            *)
(***************************************************************************)
EXTENDS Naturals, FiniteSets

CONSTANTS Schedules,    (* cron strings that make_cron accepts             *)
          LogNames,     (* names good_file_name_or_candidate accepts       *)
          MaxEdits,     (* bound: edits of the file                        *)
          Loggers       (* threads with LOG statements                     *)

Bad == "bad"            (* a value that its check refuses                  *)
NoName == "none"
Absent == [document |-> "no file"]
Garbage == [document |-> "no JSON"]
NullStream == 0
NoLogger == "nobody"

ASSUME LogConfigConstants ==
    /\ Schedules # {} /\ LogNames # {} /\ MaxEdits \in Nat
    /\ Bad \notin Schedules \cup LogNames /\ NoLogger \notin Loggers

Options == [schedule : Schedules, enabled : BOOLEAN, name : LogNames \cup {Bad}]
Texts == [schedule : Schedules \cup {Bad}, enabled : BOOLEAN, name : LogNames \cup {Bad}]

VARIABLES
    cfgFile,       (* the configuration file                               *)
    cfg,           (* the configuration object                             *)
    edits,         (* number of edits so far                               *)
    updaterPc,     (* load, setup (ServiceMain); sleep, compare, destroyed,*)
                   (* opened (the updater), null; failed                   *)
    applied,       (* log_enabled, log_file_name                           *)
    streams,       (* number of streams setup_log has made; the last one   *)
                   (* is log_file, those before it are destroyed           *)
    openName,      (* the file log_file writes to                          *)
    logOutput,     (* the stream *log_output points to                     *)
    logging,       (* who is in the middle of a LOG statement              *)
    offered        (* history: configurations that were in the file        *)

logVars == <<streams, openName, logOutput>>
lcVars == <<cfgFile, cfg, edits, updaterPc, applied, logVars, logging, offered>>

LogOptions(o) == [enabled |-> o.enabled, name |-> o.name]

LcTypeOK ==
    /\ cfgFile \in Texts \cup {Absent, Garbage}
    /\ cfg \in Options
    /\ edits \in 0..MaxEdits
    /\ updaterPc \in {"load", "setup", "sleep", "compare", "destroyed", "opened", "null", "failed"}
    /\ applied \in [enabled : BOOLEAN, name : LogNames \cup {Bad}]
    /\ streams \in Nat
    /\ openName \in LogNames \cup {NoName}
    /\ logOutput \in 0..streams
    /\ logging \in Loggers \cup {NoLogger}
    /\ offered \subseteq Options

(* What reload() accepts: the log name is checked only if logging is on.   *)
Valid(text) == /\ text \notin {Absent, Garbage}
               /\ text.schedule # Bad
               /\ text.enabled => text.name # Bad

Default == [schedule |-> CHOOSE s \in Schedules : TRUE, enabled |-> FALSE,
            name |-> CHOOSE n \in LogNames : TRUE]

LcInit ==
    /\ cfgFile = Absent
    /\ cfg = Default
    /\ edits = 0
    /\ updaterPc = "load"
    /\ applied = LogOptions(Default)
    /\ streams = 0 /\ openName = NoName /\ logOutput = NullStream
    /\ logging = NoLogger
    /\ offered = {Default}

(* The user edits the file, before or after the service starts.            *)
Edit ==
    /\ edits < MaxEdits
    /\ \E text \in Texts \cup {Garbage, Absent} :
         /\ cfgFile' = text
         /\ offered' = IF Valid(text) THEN offered \cup {text} ELSE offered
    /\ edits' = edits + 1
    /\ UNCHANGED <<cfg, updaterPc, applied, logVars, logging>>

(* load: a missing file is created with the defaults.                      *)
LoadFile ==
    /\ cfgFile # Absent
    /\ cfg' = IF Valid(cfgFile) THEN cfgFile ELSE cfg
    /\ updaterPc' = IF Valid(cfgFile) THEN "setup" ELSE "failed"
    /\ UNCHANGED cfgFile

(* store: save_to_file tests that the file opens, not what it writes.      *)
StoreDefaults ==
    /\ cfgFile = Absent
    /\ \/ cfgFile' \in {Default, Garbage} /\ updaterPc' = "setup"
       \/ cfgFile' = Absent /\ updaterPc' = "failed"
    /\ UNCHANGED cfg

Load ==
    /\ updaterPc = "load"
    /\ LoadFile \/ StoreDefaults
    /\ applied' = IF updaterPc' = "setup" THEN LogOptions(cfg') ELSE applied
    /\ UNCHANGED <<edits, logVars, logging, offered>>

(* Faulty variant: values are assigned before all of them are checked.     *)
ReloadUnchecked ==
    /\ updaterPc = "sleep"
    /\ cfg' = IF cfgFile \in {Absent, Garbage} \/ cfgFile.schedule = Bad THEN cfg
              ELSE [cfg EXCEPT !.schedule = cfgFile.schedule,
                               !.enabled = Valid(cfgFile) /\ cfgFile.enabled,
                               !.name = IF Valid(cfgFile) THEN cfgFile.name ELSE @]
    /\ updaterPc' = IF Valid(cfgFile) THEN "compare" ELSE "sleep"
    /\ UNCHANGED <<cfgFile, edits, applied, logVars, logging, offered>>

(* reload: every value is checked before the first one is assigned.        *)
Reload ==
    /\ updaterPc = "sleep"
    /\ cfg' = IF Valid(cfgFile) THEN cfgFile ELSE cfg
    /\ updaterPc' = IF Valid(cfgFile) THEN "compare" ELSE "sleep"
    /\ UNCHANGED <<cfgFile, edits, applied, logVars, logging, offered>>

(* The updater compares with what it applied last.                         *)
Compare ==
    /\ updaterPc = "compare"
    /\ updaterPc' = IF LogOptions(cfg) = applied THEN "sleep" ELSE "setup"
    /\ applied' = LogOptions(cfg)
    /\ UNCHANGED <<cfgFile, cfg, edits, logVars, logging, offered>>

(* setup_log, by ServiceMain and then by the updater: log_file gets a new  *)
(* stream, which destroys the one before it; the file is opened; then the  *)
(* log is set, under its lock.                                             *)
ReplaceStream ==
    /\ updaterPc = "setup"
    /\ IF applied.enabled
       THEN updaterPc' = "destroyed" /\ streams' = streams + 1
       ELSE updaterPc' = "null" /\ UNCHANGED streams
    /\ UNCHANGED <<cfgFile, cfg, edits, applied, openName, logOutput, logging, offered>>

OpenLog ==
    /\ updaterPc = "destroyed"
    /\ openName' = applied.name
    /\ updaterPc' = "opened"
    /\ UNCHANGED <<cfgFile, cfg, edits, applied, streams, logOutput, logging, offered>>

(* Faulty variant: a log that is a file is left as it is.                  *)
SetLogOnce ==
    /\ updaterPc \in {"opened", "null"} /\ logging = NoLogger
    /\ logOutput' = IF updaterPc = "null" THEN NullStream
                    ELSE IF logOutput = NullStream THEN streams ELSE logOutput
    /\ updaterPc' = "sleep"
    /\ UNCHANGED <<cfgFile, cfg, edits, applied, streams, openName, logging, offered>>

(* Faulty variant: logging is not switched off.                            *)
SetLogOnly ==
    /\ updaterPc \in {"opened", "null"} /\ logging = NoLogger
    /\ logOutput' = IF updaterPc = "opened" THEN streams ELSE logOutput
    /\ updaterPc' = "sleep"
    /\ UNCHANGED <<cfgFile, cfg, edits, applied, streams, openName, logging, offered>>

(* set_log, set_log_null.                                                  *)
SetLog ==
    /\ updaterPc \in {"opened", "null"} /\ logging = NoLogger
    /\ logOutput' = IF updaterPc = "opened" THEN streams ELSE NullStream
    /\ updaterPc' = "sleep"
    /\ UNCHANGED <<cfgFile, cfg, edits, applied, streams, openName, logging, offered>>

(* LOG: the lock is held to the end of the statement.  The threads that    *)
(* log start when ServiceMain has set the log up.                          *)
BeginLine(t) ==
    /\ logging = NoLogger /\ updaterPc \notin {"load", "failed"}
    /\ logging' = t
    /\ UNCHANGED <<cfgFile, cfg, edits, updaterPc, applied, logVars, offered>>

EndLine(t) ==
    /\ logging = t
    /\ logging' = NoLogger
    /\ UNCHANGED <<cfgFile, cfg, edits, updaterPc, applied, logVars, offered>>

UpdaterStep == Load \/ Reload \/ Compare \/ ReplaceStream \/ OpenLog \/ SetLog

LcNext == Edit \/ UpdaterStep \/ \E t \in Loggers : BeginLine(t) \/ EndLine(t)

LcSpec == LcInit /\ [][LcNext]_lcVars

--------------------------------------------------------------------------------
(* Properties.                                                             *)

(* The options in use were all in the file together: an edit that is       *)
(* refused changes none of them, and no two edits are mixed.               *)
OptionsFromOneEdit == cfg \in offered

(* Between two updates the log is what the options applied last ask for:   *)
(* on, into the file of that name, or off.                                 *)
LogAsApplied ==
    updaterPc \in {"sleep", "compare"} =>
        IF applied.enabled THEN logOutput = streams /\ openName = applied.name
                           ELSE logOutput = NullStream

(* An edit that the service accepts takes effect while it runs: once the   *)
(* user leaves a valid file alone, log and options end up as it says.      *)
EditTakesEffect ==
    \A text \in Texts :
        (Valid(text) /\ <>[](cfgFile = text /\ updaterPc # "failed")) =>
            <>[](cfg = text /\ applied = LogOptions(text)
                 /\ (text.enabled <=> logOutput # NullStream))

(* A line of the log goes to a stream that exists: the user may change the *)
(* log options while the service runs.                                     *)
LineHasStream == logging # NoLogger => logOutput \in {NullStream, streams}
================================================================================
