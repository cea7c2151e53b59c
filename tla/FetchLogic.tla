------------------------------ MODULE FetchLogic ------------------------------
(***************************************************************************)
(* exchange_rates_fetch_logic with the two files it keeps: the data file   *)
(* (storage, src/src/rates_storage.hpp) and the schedule of failed fetches *)
(* (fetch_schedule, src/src/fetch_schedule.hpp).  The regular worker       *)
(* fetches today's rates, the retry workers the scheduled dates; a date    *)
(* stands for all the rates of that date.                                  *)
(*                                                                         *)
(* Files are rewritten in place: opening one for writing empties it, the   *)
(* contents follow in a second step, and the process can crash in between. *)
(* The server (external) answers a request with the rates of the date      *)
(* asked for, or fails.                                                    *)
(***************************************************************************)
EXTENDS Naturals

CONSTANTS
    Regular,     (* workers of global_regular_queue                        *)
    Retry,       (* workers of global_retry_queue                          *)
    LastDay,     (* bound: the days are 1..LastDay                         *)
    MaxPending,  (* bound: jobs waiting in each queue                      *)
    MaxCrashes,  (* bound: crashes of the process                          *)
    MaxFaults    (* bound: failures to open or write a file                *)

Workers == Regular \cup Retry
Days == 1..LastDay
Malformed == LastDay + 1    (* a key of the schedule that is not a date and sorts last *)
Keys == Days \cup {Malformed}
NoDate == 0
Free == "free"

ASSUME FetchConstants ==
    /\ Regular \cap Retry = {} /\ Free \notin Workers
    /\ LastDay \in Nat \ {0} /\ MaxPending \in Nat \ {0} /\ MaxCrashes \in Nat
    /\ MaxFaults \in Nat

VARIABLES
    day,           (* date_right_now()                                     *)
    dataFile,      (* data file: [ok, dates]; not ok when empty or absent  *)
    schedFile,     (* schedule file, likewise                              *)
    db,            (* dates in strg_                                       *)
    regularJobs,   (* jobs waiting in global_regular_queue                 *)
    retryJobs,     (* jobs waiting in global_retry_queue                   *)
    pc, date,      (* where each worker is, and the date it works on       *)
    unsaved,       (* what a worker is about to write to the schedule file *)
    strgLock,      (* holder of strg_'s lock while it saves, or Free       *)
    schedLock,     (* holder of sched_file_mtp_, or Free                   *)
    crashes, faults,  (* how many there were                               *)
    due,           (* history: days a regular fetch was begun for          *)
    exposed,       (* history: days a crash may have lost since then       *)
    stored,        (* history: dates that a completed save has written     *)
    failed         (* history: dates that failed in each worker's scan     *)

files == <<dataFile, schedFile>>
queues == <<regularJobs, retryJobs>>
history == <<due, exposed, stored, failed>>
locks == <<strgLock, schedLock>>
accidents == <<crashes, faults>>
vars == <<day, files, db, queues, pc, date, unsaved, locks, accidents, history>>

Broken == [ok |-> FALSE, dates |-> {}]
Holding(S) == [ok |-> TRUE, dates |-> S]

TypeOK ==
    /\ day \in Days
    /\ dataFile \in [ok : BOOLEAN, dates : SUBSET Days]
    /\ schedFile \in [ok : BOOLEAN, dates : SUBSET Keys]
    /\ db \subseteq Days
    /\ regularJobs \in 0..MaxPending /\ retryJobs \in 0..MaxPending
    /\ pc \in [Workers -> {"idle", "pick", "request", "add", "save", "write_data", "processed",
                           "schedule", "unschedule", "write_sched"}]
    /\ date \in [Workers -> Keys \cup {NoDate}]
    /\ unsaved \in [Workers -> SUBSET Keys]
    /\ strgLock \in Workers \cup {Free} /\ schedLock \in Workers \cup {Free}
    /\ crashes \in 0..MaxCrashes /\ faults \in 0..MaxFaults
    /\ due \subseteq Days /\ exposed \subseteq Keys
    /\ stored \subseteq Days
    /\ failed \in [Workers -> SUBSET Days]

(* What deserializing a file gives: nothing, if it cannot be parsed.       *)
Parse(file) == IF file.ok THEN file.dates ELSE {}

(* init() has been executed: the storage is loaded, a single-shot fetch is *)
(* queued, nobody works.  It is the first start, or one that finds a       *)
(* schedule with a malformed key.                                          *)
Init ==
    /\ day = 1
    /\ dataFile = Broken
    /\ schedFile \in {Broken, Holding({Malformed})}
    /\ crashes = 0 /\ faults = 0
    /\ due = {} /\ exposed = {} /\ stored = {}
    /\ db = {}
    /\ regularJobs = 1 /\ retryJobs = 0
    /\ pc = [w \in Workers |-> "idle"]
    /\ date = [w \in Workers |-> NoDate]
    /\ unsaved = [w \in Workers |-> {}]
    /\ strgLock = Free /\ schedLock = Free
    /\ failed = [w \in Workers |-> {}]

(* A worker goes on with a date, with the date it has, or without one when *)
(* its job is over.                                                        *)
With(w, label, d) == pc' = [pc EXCEPT ![w] = label] /\ date' = [date EXCEPT ![w] = d]
Goto(w, label) == With(w, label, IF label = "idle" THEN NoDate ELSE date[w])

(* A file cannot be opened or written; nobody notices.                     *)
Fault == faults < MaxFaults /\ faults' = faults + 1

--------------------------------------------------------------------------------
(* The cron threads and the calendar.                                      *)

RegularTick ==
    /\ regularJobs < MaxPending
    /\ regularJobs' = regularJobs + 1
    /\ UNCHANGED <<day, files, db, retryJobs, pc, date, unsaved, locks, accidents, history>>

RetryTick ==
    /\ retryJobs < MaxPending
    /\ retryJobs' = retryJobs + 1
    /\ UNCHANGED <<day, files, db, regularJobs, pc, date, unsaved, locks, accidents, history>>

NextDay ==
    /\ day < LastDay
    /\ day' = day + 1
    /\ UNCHANGED <<files, db, queues, pc, date, unsaved, locks, accidents, history>>

--------------------------------------------------------------------------------
(* The two kinds of jobs.                                                  *)

(* fetch_today_rates: the date is read when the job runs.                  *)
BeginToday(w) ==
    /\ w \in Regular /\ pc[w] = "idle" /\ regularJobs > 0
    /\ regularJobs' = regularJobs - 1
    /\ due' = due \cup {day} /\ exposed' = exposed \ {day}
    /\ With(w, "request", day)
    /\ UNCHANGED <<day, files, db, retryJobs, unsaved, locks, accidents, stored, failed>>

BeginRetry(w) ==
    /\ w \in Retry /\ pc[w] = "idle" /\ retryJobs > 0
    /\ retryJobs' = retryJobs - 1
    /\ failed' = [failed EXCEPT ![w] = {}]
    /\ Goto(w, "pick")
    /\ UNCHANGED <<day, files, db, regularJobs, unsaved, locks, accidents, due, exposed, stored>>

(* The condition of the retry job's loop: get_last_scheduled reads the     *)
(* file under sched_file_mtp_ and takes its greatest key; a key that is no *)
(* date is unscheduled unfetched.                                          *)
Pick(w) ==
    /\ pc[w] = "pick"
    /\ schedLock = Free
    /\ \/ /\ Parse(schedFile) = {}
          /\ Goto(w, "idle")
          /\ failed' = [failed EXCEPT ![w] = {}]
       \/ /\ \E last \in Parse(schedFile) :
                /\ \A key \in Parse(schedFile) : key <= last
                /\ With(w, IF last \in Days THEN "request" ELSE "unschedule", last)
          /\ UNCHANGED failed
    /\ UNCHANGED <<day, files, db, queues, unsaved, locks, accidents, due, exposed, stored>>

--------------------------------------------------------------------------------
(* fetch_rates.                                                            *)

(* Faulty variant: the result of fetch_rates is ignored.                   *)
ReplyBadIgnored(w) ==
    /\ pc[w] = "request"
    /\ Goto(w, IF w \in Regular THEN "idle" ELSE "pick")
    /\ UNCHANGED <<day, files, db, queues, unsaved, locks, accidents, history>>

(* No connection, another status, no valid body: fetch_rates returns false *)
(* and today's date is scheduled; the retry loop goes round.               *)
ReplyBad(w) ==
    /\ pc[w] = "request"
    /\ Goto(w, IF w \in Regular THEN "schedule" ELSE "pick")
    /\ failed' = [failed EXCEPT ![w] = IF w \in Retry THEN @ \cup {date[w]} ELSE @]
    /\ UNCHANGED <<day, files, db, queues, unsaved, locks, accidents, due, exposed, stored>>

ReplyOk(w) ==
    /\ pc[w] = "request"
    /\ Goto(w, "add")
    /\ UNCHANGED <<day, files, db, queues, unsaved, locks, accidents, history>>

(* Faulty variant: the storage is replaced instead of extended.            *)
AddReplacing(w) ==
    /\ pc[w] = "add"
    /\ strgLock = Free
    /\ db' = {date[w]}
    /\ Goto(w, "save")
    /\ UNCHANGED <<day, files, queues, unsaved, locks, accidents, history>>

(* strg_--->add(curr_data).                                                *)
Add(w) ==
    /\ pc[w] = "add"
    /\ strgLock = Free
    /\ db' = db \cup {date[w]}
    /\ Goto(w, "save")
    /\ UNCHANGED <<day, files, queues, unsaved, locks, accidents, history>>

(* strg_--->save(...): the exclusive lock is kept for the whole statement; *)
(* a file that cannot be opened is ignored, one that can is emptied.       *)
OpenData(w) ==
    /\ pc[w] = "save"
    /\ strgLock = Free
    /\ \/ /\ Fault
          /\ Goto(w, "processed")
          /\ UNCHANGED <<dataFile, strgLock>>
       \/ /\ dataFile' = Broken
          /\ strgLock' = w
          /\ Goto(w, "write_data")
          /\ UNCHANGED faults
    /\ UNCHANGED <<day, schedFile, db, queues, unsaved, schedLock, crashes, history>>

(* A failed write is not noticed either.                                   *)
WriteData(w) ==
    /\ pc[w] = "write_data"
    /\ \/ dataFile' = Holding(db) /\ stored' = stored \cup db /\ UNCHANGED faults
       \/ Fault /\ UNCHANGED <<dataFile, stored>>
    /\ strgLock' = Free
    /\ Goto(w, "processed")
    /\ UNCHANGED <<day, schedFile, db, queues, unsaved, schedLock, crashes, due, exposed, failed>>

(* fetch_rates returns true.                                               *)
Processed(w) ==
    /\ pc[w] = "processed"
    /\ Goto(w, IF w \in Regular THEN "idle" ELSE "unschedule")
    /\ UNCHANGED <<day, files, db, queues, unsaved, locks, accidents, history>>

--------------------------------------------------------------------------------
(* The schedule file.                                                      *)

(* Where a worker goes after it updated the schedule: the regular job is   *)
(* over, the retry loop tests its condition again.                         *)
AfterSchedule(w) == IF w \in Regular THEN "idle" ELSE "pick"

(* The ofstream of fetch_schedule::save, under sched_file_mtp_.            *)
OpenSchedule(w, keys) ==
    \/ /\ Fault
       /\ Goto(w, AfterSchedule(w))
       /\ UNCHANGED <<schedFile, schedLock, unsaved>>
    \/ /\ UNCHANGED faults
       /\ schedFile' = Broken
       /\ unsaved' = [unsaved EXCEPT ![w] = keys]
       /\ schedLock' = w
       /\ Goto(w, "write_sched")

(* Faulty variant: without sched_file_mtp_.                                *)
ScheduleUnlocked(w) ==
    /\ pc[w] = "schedule"
    /\ OpenSchedule(w, Parse(schedFile) \cup {date[w]})
    /\ UNCHANGED <<day, dataFile, db, queues, strgLock, crashes, history>>

(* schedule_fetching: load, add the date, save.                            *)
Schedule(w) ==
    /\ pc[w] = "schedule"
    /\ schedLock = Free
    /\ OpenSchedule(w, Parse(schedFile) \cup {date[w]})
    /\ UNCHANGED <<day, dataFile, db, queues, strgLock, crashes, history>>

(* unschedule_fetching: load, remove the date if it is there, save.        *)
Unschedule(w) ==
    /\ pc[w] = "unschedule"
    /\ schedLock = Free
    /\ IF date[w] \in Parse(schedFile)
       THEN OpenSchedule(w, Parse(schedFile) \ {date[w]})
       ELSE Goto(w, "pick") /\ UNCHANGED <<schedFile, schedLock, unsaved, faults>>
    /\ UNCHANGED <<day, dataFile, db, queues, strgLock, crashes, history>>

WriteSchedule(w) ==
    /\ pc[w] = "write_sched"
    /\ \/ schedFile' = Holding(unsaved[w]) /\ UNCHANGED faults
       \/ Fault /\ UNCHANGED schedFile
    /\ unsaved' = [unsaved EXCEPT ![w] = {}]
    /\ schedLock' = Free
    /\ Goto(w, AfterSchedule(w))
    /\ UNCHANGED <<day, dataFile, db, queues, strgLock, crashes, history>>

--------------------------------------------------------------------------------
(* A crash of the process.                                                 *)

(* Where the regular worker has a day that no file records yet.            *)
InHand(w) == pc[w] \in {"request", "add", "save", "schedule"}

(* All a crash can lose: the days in the regular workers' hands, and the   *)
(* contents of a file that is emptied and not yet written again.           *)
AtStake ==
    {date[w] : w \in {r \in Regular : InHand(r)}}
        \cup (IF strgLock # Free THEN db ELSE {})
        \cup (IF schedLock # Free THEN unsaved[schedLock] ELSE {})

(* The process dies and is started again: init() loads what the files hold *)
(* and all else is lost.                                                   *)
Crash ==
    /\ crashes < MaxCrashes
    /\ crashes' = crashes + 1
    /\ db' = Parse(dataFile)
    /\ regularJobs' = 1 /\ retryJobs' = 0
    /\ pc' = [w \in Workers |-> "idle"]
    /\ date' = [w \in Workers |-> NoDate]
    /\ unsaved' = [w \in Workers |-> {}]
    /\ strgLock' = Free /\ schedLock' = Free
    /\ failed' = [w \in Workers |-> {}]
    /\ exposed' = exposed \cup AtStake
    /\ UNCHANGED <<day, files, due, stored, faults>>

Job(w) == \/ BeginToday(w) \/ BeginRetry(w) \/ Pick(w)
          \/ ReplyBad(w) \/ ReplyOk(w)
          \/ Add(w) \/ OpenData(w) \/ WriteData(w) \/ Processed(w)
          \/ Schedule(w) \/ Unschedule(w) \/ WriteSchedule(w)

Next == \/ RegularTick \/ RetryTick \/ NextDay \/ Crash
        \/ \E w \in Workers : Job(w)

Spec == Init /\ [][Next]_vars

(* The cron threads tick, the workers run, a request ends one way or the   *)
(* other, and a lock asked for again and again is obtained.                *)
Fairness ==
    /\ WF_vars(RetryTick)
    /\ \A w \in Workers :
          /\ WF_vars(Job(w))
          /\ SF_vars(Pick(w) \/ Schedule(w) \/ Unschedule(w))
          /\ SF_vars(Add(w) \/ OpenData(w))

FairSpec == Spec /\ Fairness

--------------------------------------------------------------------------------
(* Properties.                                                             *)

(* The contents the files have, or will have when the write in progress    *)
(* is over.                                                                *)
DataView == IF strgLock # Free THEN db ELSE Parse(dataFile)
ScheduleView == IF schedLock # Free THEN unsaved[schedLock] ELSE Parse(schedFile)

(* No gap: each day a fetch was begun for is in the data file, or in the   *)
(* schedule of failed fetches, or still in the hands of the regular        *)
(* worker, as long as every file can be opened and written.  The workers   *)
(* rewrite both files concurrently, and the process may crash in any step: *)
(* what a crash loses is a day then in a regular worker's hands, or the    *)
(* contents of a file emptied for rewriting, and nothing else, in          *)
(* particular no day that a retry job works on while neither file is open. *)
NoGap ==
    faults = 0 =>
        \A d \in due \ exposed :
            \/ d \in DataView \cup ScheduleView
            \/ \E w \in Regular : date[w] = d /\ InHand(w)

(* A date that a completed save has written is never forgotten: it is in   *)
(* the storage from then on.                                               *)
NothingForgotten == stored \subseteq db

(* As long as the process lives, the storage forgets no date that a save   *)
(* has written, and a data file that can be read holds all of them, even   *)
(* if later saves fail to open or write it: no worker saves an older       *)
(* storage over a newer one.  A crash inside a save is the one way to lose *)
(* them, as the file is rewritten in place.                                *)
StoredIsKept ==
    crashes = 0 => NothingForgotten /\ (dataFile.ok => stored \subseteq dataFile.dates)

(* A retry job asks the server again for a date that failed only when the  *)
(* schedule calls the next scan.                                           *)
OneAttemptPerScan == \A w \in Retry : pc[w] = "request" => date[w] \notin failed[w]

(* Once the server has stopped failing for good, each day a fetch was      *)
(* begun for gets stored in the end, the failed ones by a retry.           *)
GapsClose ==
    <>[][\A w \in Workers : ~ReplyBad(w)]_vars =>
        \A d \in Days : (d \in due) ~> (d \in Parse(dataFile))
================================================================================
