----------------------------- MODULE ServiceLocks -----------------------------
(***************************************************************************)
(* The threads of the running service and the locks they nest: the workers *)
(* that run fetch_rates, the configuration updater, the two cron threads   *)
(* and ServiceMain itself.  Every lock of this program but sched_file_mtp_ *)
(* is a proxy of thread_safe_wrapper_stl: x--, *x lock x exclusively until *)
(* the end of the full expression, so a statement that mentions several    *)
(* wrapped objects holds several locks, in the order of evaluation.        *)
(*                                                                         *)
(* Only the locks matter here: whatever the data decide, a thread goes     *)
(* through stretches of code, each from a point where it holds no lock to  *)
(* the next such point, and a stretch is its lock operations.  Threads can *)
(* block one another only inside stretches, and each reaches every stretch *)
(* of its code whatever the others do, so their order is left open.        *)
(* A cron thread also waits, without a lock, inside add_job while its      *)
(* queue is full; how long the jobs of that queue take is left open here.  *)
(***************************************************************************)
EXTENDS Sequences, FiniteSets

CONSTANTS RegularFetchers,  (* workers of global_regular_queue              *)
          RetryFetchers,    (* workers of global_retry_queue                *)
          Crons             (* cron_thread_ and fetch_scheduled_thread_     *)

Main == "main"
Updater == "updater"
Fetchers == RegularFetchers \cup RetryFetchers
Threads == Fetchers \cup Crons \cup {Main, Updater}

Locks == {"strg", "data", "config", "log", "sched"}
Free == "free"

ASSUME ServiceConstants ==
    /\ RegularFetchers \cap RetryFetchers = {}
    /\ Crons \cap {Main, Updater, Free} = {}
    /\ Fetchers \cap (Crons \cup {Main, Updater, Free}) = {}

VARIABLES
    todo,         (* the lock operations left of each thread's stretch      *)
    holder,       (* who holds each lock                                    *)
    mainPc,       (* where ServiceMain is                                   *)
    exited,       (* threads whose function has returned                    *)
    adding,       (* cron threads inside add_job                            *)
    stopEvent,    (* g_ServiceStopEvent                                     *)
    globalTerm,   (* global_termination                                     *)
    logicTerm     (* termination flag of exchange_rates_fetch_logic         *)

vars == <<todo, holder, mainPc, exited, adding, stopEvent, globalTerm, logicTerm>>

Acq(l) == [op |-> "acquire", lock |-> l]
Rel(l) == [op |-> "release", lock |-> l]
Operations == [op : {"acquire", "release"}, lock : Locks]

TypeOK ==
    /\ todo \in [Threads -> Seq(Operations)]
    /\ holder \in [Locks -> Threads \cup {Free}]
    /\ mainPc \in {"init", "wait", "join_updater", "join_crons", "stopped"}
    /\ exited \subseteq Crons \cup {Updater} /\ adding \subseteq Crons
    /\ stopEvent \in BOOLEAN /\ globalTerm \in BOOLEAN /\ logicTerm \in BOOLEAN

--------------------------------------------------------------------------------
(* Stretches.  Around(l, inner) holds l for the length of inner.           *)

Around(l, inner) == <<Acq(l)>> \o inner \o <<Rel(l)>>
Use(l) == Around(l, <<>>)

(* A LOG line with no wrapped object in it.                                *)
LogLine == Use("log")

(* storage::load and storage::save under strg_ and, for the file name,     *)
(* config(); each logs and then locks data_.                               *)
LoadStorage == Around("strg", Around("config", Use("data") \o LogLine \o LogLine \o Use("data")))
SaveStorage == Around("strg", Around("config", LogLine \o Use("data")))

(* Faulty variant: the storage is used inside the LOG statement.           *)
AddRatesWhileLogging == Around("log", Around("strg", Use("data")))

(* strg_--->add: a LOG line, then data_ for each record.                   *)
AddRates == Around("strg", LogLine \o Use("data"))

(* LOG << ... << config()--->data_file_name(): log first, config second.   *)
LogFlushing == Around("log", Use("config"))

(* The schedule under sched_file_mtp_: the constructor of fetch_schedule   *)
(* reads the file while config() is locked and may log an error; so may    *)
(* save, after it.  get_last_scheduled only reads.                         *)
ReadSchedule(errors) == Around("sched", Around("config", errors))
UpdateSchedule(errors) == Around("sched", Around("config", errors) \o errors)

(* fetch_rates and its callers: the request, what follows a good answer,   *)
(* the schedule; a retry job also looks for the next date.                 *)
FetchStretches(t) ==
    LET Errors == {<<>>, LogLine} IN
    {Use("config"), LogLine, AddRates, LogFlushing, SaveStorage}
        \cup {UpdateSchedule(e) : e \in Errors}
        \cup {ReadSchedule(e) : e \in IF t \in RetryFetchers THEN Errors ELSE {}}

(* The configuration updater: reload and its messages, two reads of the    *)
(* log options, and setup_log if they changed.                             *)
UpdaterStretches(t) == {LogLine, Use("config"), Use("log")}

(* A cron thread: the comparison, the new value, a LOG line.               *)
CronStretches(t) == {Use("config"), LogLine}

Stretches(t) == CASE t \in Fetchers -> FetchStretches(t)
                  [] t = Updater -> UpdaterStretches(t)
                  [] t \in Crons -> CronStretches(t)
                  [] t = Main -> {LoadStorage}

--------------------------------------------------------------------------------
Init ==
    /\ todo = [t \in Threads |-> IF t = Main THEN LoadStorage ELSE <<>>]
    /\ holder = [l \in Locks |-> Free]
    /\ mainPc = "init"
    /\ exited = {} /\ adding = {}
    /\ stopEvent = FALSE /\ globalTerm = FALSE /\ logicTerm = FALSE

(* The next operation of a stretch; to acquire a lock held by another thread  *)
(* is to wait.                                                             *)
Acquire(t) ==
    /\ todo[t] # <<>> /\ Head(todo[t]).op = "acquire"
    /\ holder[Head(todo[t]).lock] = Free
    /\ holder' = [holder EXCEPT ![Head(todo[t]).lock] = t]
    /\ todo' = [todo EXCEPT ![t] = Tail(@)]
    /\ UNCHANGED <<mainPc, exited, adding, stopEvent, globalTerm, logicTerm>>

Release(t) ==
    /\ todo[t] # <<>> /\ Head(todo[t]).op = "release"
    /\ holder' = [holder EXCEPT ![Head(todo[t]).lock] = Free]
    /\ todo' = [todo EXCEPT ![t] = Tail(@)]
    /\ UNCHANGED <<mainPc, exited, adding, stopEvent, globalTerm, logicTerm>>

(* The next stretch of a fetcher, once init() has queued the first job, or *)
(* of a thread whose loop condition holds.                                 *)
Begin(t) ==
    /\ todo[t] = <<>> /\ t \notin exited \cup adding
    /\ \/ t \in Fetchers /\ mainPc # "init"
       \/ t = Updater /\ ~globalTerm
       \/ t \in Crons /\ mainPc # "init" /\ ~logicTerm
    /\ \E s \in Stretches(t) : todo' = [todo EXCEPT ![t] = s]
    /\ UNCHANGED <<holder, mainPc, exited, adding, stopEvent, globalTerm, logicTerm>>

(* The loop condition of the updater or of a cron thread is false.         *)
Return(t) ==
    /\ todo[t] = <<>> /\ t \notin exited \cup adding
    /\ (t = Updater /\ globalTerm) \/ (t \in Crons /\ mainPc # "init" /\ logicTerm)
    /\ exited' = exited \cup {t}
    /\ UNCHANGED <<todo, holder, mainPc, adding, stopEvent, globalTerm, logicTerm>>

(* A cron thread's schedule is due: it calls add_job, which holds no lock, *)
(* waits for room in the queue and tests no termination flag.              *)
EnterAddJob(t) ==
    /\ t \in Crons /\ todo[t] = <<>> /\ t \notin exited \cup adding
    /\ mainPc # "init" /\ ~logicTerm
    /\ adding' = adding \cup {t}
    /\ UNCHANGED <<todo, holder, mainPc, exited, stopEvent, globalTerm, logicTerm>>

LeaveAddJob(t) ==
    /\ t \in adding
    /\ adding' = adding \ {t}
    /\ UNCHANGED <<todo, holder, mainPc, exited, stopEvent, globalTerm, logicTerm>>

(* ServiceCtrlHandler on SERVICE_CONTROL_STOP.                             *)
SignalStop ==
    /\ ~stopEvent
    /\ stopEvent' = TRUE
    /\ UNCHANGED <<todo, holder, mainPc, exited, adding, globalTerm, logicTerm>>

(* ServiceMain: init() returns; the stop event is seen; the updater is     *)
(* joined and the destructor of the fetch logic begins; it joins the cron  *)
(* threads and SERVICE_STOPPED is reported.                                *)
InitDone ==
    /\ mainPc = "init" /\ todo[Main] = <<>>
    /\ mainPc' = "wait"
    /\ UNCHANGED <<todo, holder, exited, adding, stopEvent, globalTerm, logicTerm>>

(* Faulty variant of SeeStop: global_termination is not set.               *)
SeeStopSilently ==
    /\ mainPc = "wait" /\ stopEvent
    /\ mainPc' = "join_updater"
    /\ UNCHANGED <<todo, holder, exited, adding, stopEvent, globalTerm, logicTerm>>

SeeStop ==
    /\ mainPc = "wait" /\ stopEvent
    /\ globalTerm' = TRUE
    /\ mainPc' = "join_updater"
    /\ UNCHANGED <<todo, holder, exited, adding, stopEvent, logicTerm>>

UpdaterJoined ==
    /\ mainPc = "join_updater" /\ Updater \in exited
    /\ logicTerm' = TRUE
    /\ mainPc' = "join_crons"
    /\ UNCHANGED <<todo, holder, exited, adding, stopEvent, globalTerm>>

CronsJoined ==
    /\ mainPc = "join_crons" /\ Crons \subseteq exited
    /\ mainPc' = "stopped"
    /\ UNCHANGED <<todo, holder, exited, adding, stopEvent, globalTerm, logicTerm>>

Service == InitDone \/ SeeStop \/ UpdaterJoined \/ CronsJoined

Next == \/ \E t \in Threads : Acquire(t) \/ Release(t) \/ Begin(t) \/ Return(t)
        \/ \E t \in Crons : EnterAddJob(t) \/ LeaveAddJob(t)
        \/ SignalStop
        \/ Service

Spec == Init /\ [][Next]_vars

(* A thread on its way goes on, and obtains a lock that is free again and   *)
(* again; a loop whose condition is false returns; a fetcher need not be   *)
(* given another job, and add_job need not find room.                      *)
Continue(t) == Acquire(t) \/ Release(t) \/ Return(t)

Fairness == (\A t \in Threads : SF_vars(Continue(t))) /\ WF_vars(Service)

FairSpec == Spec /\ Fairness

--------------------------------------------------------------------------------
(* Properties.                                                             *)

Waiting(t) == todo[t] # <<>> /\ Head(todo[t]).op = "acquire"
                             /\ holder[Head(todo[t]).lock] # Free
Wanted(t) == Head(todo[t]).lock
(* A set of threads that wait for one another, or a thread for itself.     *)
CircularWait(S) == S # {} /\ \A t \in S : Waiting(t) /\ holder[Wanted(t)] \in S

(* Each of two threads, the holders of log and of config, waits for the    *)
(* other's lock.                                                           *)
Crossed ==
    LET l == holder["log"]
        c == holder["config"]
    IN /\ Free \notin {l, c}
       /\ Waiting(l) /\ Wanted(l) = "config"
       /\ Waiting(c) /\ Wanted(c) = "log"

(* The only circular wait of the program is the one of log and config      *)
(* inside fetch_rates: all other nestings agree on an order, so a circle   *)
(* of any length has the two holders in it.                                *)
OnlyLogAndConfig ==
    \A S \in SUBSET Threads :
        CircularWait(S) => /\ Crossed
                           /\ {holder["log"], holder["config"]} \subseteq S
                           /\ holder["log"] \in Fetchers

(* No call of add_job waits for ever.                                      *)
AddsReturn == \A t \in Crons : []<>(t \notin adding)

(* Once the stop event is set, ServiceMain gets through its joins and      *)
(* reports SERVICE_STOPPED, if no queue stays full for ever.               *)
StopCompletes == AddsReturn => (stopEvent ~> (mainPc = "stopped"))

(* The circular wait of log and config is the only one of locks that can   *)
(* keep a stop from completing: without it, and with room in the queues,   *)
(* the joins of ServiceMain get through all threads, whatever they hold or *)
(* wait for when the stop event is set.                                    *)
StopUnlessCrossed == AddsReturn => (stopEvent ~> (mainPc = "stopped" \/ Crossed))
================================================================================
