----------------------------- MODULE ServiceControl -----------------------------
(***************************************************************************)
(* The life of the service process (src/CurrRatesServiceMain.cpp):         *)
(* ServiceMain on its own thread, ServiceCtrlHandler on the dispatcher's,  *)
(* the configuration updater, the cron threads of the fetch logic, which   *)
(* is a local object of ServiceMain, and the jobs they queue, which keep a *)
(* pointer to that object.  The service control manager (external) sends a *)
(* stop while the last status it was told accepts one, and learns of the   *)
(* death of the process.  The locks are in ServiceLocks.                   *)
(***************************************************************************)
EXTENDS Integers, FiniteSets

CONSTANT MaxJobs    (* max_queue_len_: a queue with that many jobs is full *)

ASSUME ServiceControlConstants == MaxJobs \in Nat \ {0}

Queues == {"regular", "retry"}  (* global_regular_queue, global_retry_queue *)

VARIABLES
    status,      (* g_ServiceStatus: accepted controls and state           *)
    told,        (* the status the control manager was last told           *)
    event,       (* g_ServiceStopEvent: none, unset, set, closed           *)
    mainPc,      (* where ServiceMain is                                   *)
    handlerPc,   (* where ServiceCtrlHandler is                            *)
    globalTerm,  (* global_termination                                     *)
    updater,     (* the configuration updater: none, runs, over            *)
    logic,       (* the fetch logic: none, lives, ends (its destructor has *)
                 (* begun), dead                                           *)
    crons,       (* the thread that feeds each queue: it also "adds" when  *)
                 (* it is inside add_job                                   *)
    waiting,     (* jobs waiting in each queue                             *)
    running,     (* whether a job of the queue runs                        *)
    process,     (* runs, leaves (main has returned), retry, regular (the  *)
                 (* destructor of that queue has begun), gone, died        *)
    woken,       (* history: ServiceMain has seen the stop event           *)
    leftOver     (* history: jobs there were when the fetch logic died     *)

statusVars == <<status, told>>
jobVars == <<waiting, running>>
threadVars == <<updater, crons>>
vars == <<statusVars, event, mainPc, handlerPc, globalTerm, threadVars, logic, jobVars,
          process, woken, leftOver>>

States == {"START_PENDING", "RUNNING", "STOP_PENDING", "STOPPED"}
Statuses == [accepts : BOOLEAN, state : States]
St(accepts, state) == [accepts |-> accepts, state |-> state]
Thread == {"none", "runs", "over"}

TypeOK ==
    /\ status \in Statuses /\ told \in Statuses
    /\ event \in {"none", "unset", "set", "closed"}
    /\ mainPc \in {"register", "create", "running", "conf_name", "queues", "load", "updater",
                   "init", "wait", "join_updater", "join_crons", "cleanup", "clear_accepts",
                   "set_stopped", "tell", "returned"}
    /\ handlerPc \in {"idle", "check", "accepts", "state", "tell", "signal"}
    /\ globalTerm \in BOOLEAN /\ woken \in BOOLEAN
    /\ updater \in Thread /\ crons \in [Queues -> Thread \cup {"adds"}]
    /\ logic \in {"none", "lives", "ends", "dead"}
    /\ waiting \in [Queues -> 0..MaxJobs] /\ running \in [Queues -> BOOLEAN]
    /\ process \in {"runs", "leaves", "gone", "died"} \cup Queues
    /\ leftOver \in Nat

(* Jobs of a queue that hold a pointer to the fetch logic.                 *)
JobsOf(q) == waiting[q] + (IF running[q] THEN 1 ELSE 0)
Jobs == JobsOf("regular") + JobsOf("retry")

Init ==
    /\ status = St(FALSE, "START_PENDING") /\ told = status
    /\ event = "none" /\ mainPc = "register" /\ handlerPc = "idle"
    /\ globalTerm = FALSE /\ woken = FALSE
    /\ updater = "none" /\ crons = [q \in Queues |-> "none"] /\ logic = "none"
    /\ waiting = [q \in Queues |-> 0] /\ running = [q \in Queues |-> FALSE]
    /\ process = "runs" /\ leftOver = 0

(* The process dies: the control manager notices.                          *)
Die == process' = "died" /\ told' = St(FALSE, "STOPPED")

At(label) == process = "runs" /\ mainPc = label
Go(label) == mainPc' = label
Tell(s) == status' = s /\ told' = s

--------------------------------------------------------------------------------
(* ServiceMain, up to its wait.                                            *)

(* Without a status handle nothing is ever reported.                       *)
Register ==
    /\ At("register")
    /\ \/ Go("returned") /\ UNCHANGED statusVars
       \/ Go("create") /\ Tell(St(FALSE, "START_PENDING"))
    /\ UNCHANGED <<event, handlerPc, globalTerm, threadVars, logic, jobVars, process,
                   woken, leftOver>>

CreateStopEvent ==
    /\ At("create")
    /\ \/ Go("running") /\ event' = "unset" /\ UNCHANGED statusVars
       \/ Go("returned") /\ Tell(St(FALSE, "STOPPED")) /\ UNCHANGED event
    /\ UNCHANGED <<handlerPc, globalTerm, threadVars, logic, jobVars, process, woken,
                   leftOver>>

(* From here on the handler may run.                                       *)
ReportRunning ==
    /\ At("running")
    /\ Tell(St(TRUE, "RUNNING"))
    /\ Go("conf_name")
    /\ UNCHANGED <<event, handlerPc, globalTerm, threadVars, logic, jobVars, process,
                   woken, leftOver>>

(* get_conf_file_name logs a registry error before logging::init() has run: *)
(* LOG dereferences a null pointer, and line 310 is never reached.         *)
GetConfFileName ==
    /\ At("conf_name")
    /\ \/ Go("queues") /\ UNCHANGED <<process, told>>
       \/ Die /\ UNCHANGED mainPc
    /\ UNCHANGED <<status, event, handlerPc, globalTerm, threadVars, logic, jobVars, woken,
                   leftOver>>

(* The queues start threads, which can throw: catch (...), then the cleanup. *)
CreateQueues ==
    /\ At("queues")
    /\ Go("load") \/ Go("cleanup")
    /\ UNCHANGED <<statusVars, event, handlerPc, globalTerm, threadVars, logic, jobVars,
                   process, woken, leftOver>>

(* A configuration that cannot be loaded ends ServiceMain without cleanup. *)
LoadConfig ==
    /\ At("load")
    /\ Go("updater") \/ Go("returned")
    /\ UNCHANGED <<statusVars, event, handlerPc, globalTerm, threadVars, logic, jobVars,
                   process, woken, leftOver>>

StartUpdater ==
    /\ At("updater")
    /\ \/ Go("init") /\ updater' = "runs"
       \/ Go("cleanup") /\ UNCHANGED updater
    /\ UNCHANGED <<statusVars, event, handlerPc, globalTerm, crons, logic, jobVars, process,
                   woken, leftOver>>

(* erl.init() starts the cron threads and queues a single-shot fetch.  When *)
(* it throws, the updater's std::thread is destroyed while it is joinable: *)
(* std::terminate.                                                         *)
InitLogic ==
    /\ At("init")
    /\ \/ /\ Go("wait")
          /\ logic' = "lives"
          /\ crons' = [q \in Queues |-> "runs"]
          /\ waiting' = [waiting EXCEPT !["regular"] = 1]
          /\ UNCHANGED <<process, told>>
       \/ Die /\ UNCHANGED <<mainPc, logic, crons, waiting>>
    /\ UNCHANGED <<status, event, handlerPc, globalTerm, updater, running, woken, leftOver>>

--------------------------------------------------------------------------------
(* ServiceMain, from the stop event on.                                    *)

(* Faulty variant: the loop ends without setting global_termination.       *)
SeeStopSilently ==
    /\ At("wait") /\ event = "set"
    /\ woken' = TRUE
    /\ Go("join_updater")
    /\ UNCHANGED <<statusVars, event, handlerPc, globalTerm, threadVars, logic, jobVars,
                   process, leftOver>>

SeeStop ==
    /\ At("wait") /\ event = "set"
    /\ woken' = TRUE
    /\ globalTerm' = TRUE
    /\ Go("join_updater")
    /\ UNCHANGED <<statusVars, event, handlerPc, threadVars, logic, jobVars, process,
                   leftOver>>

(* The destructor of the fetch logic sets its own termination flag.        *)
JoinUpdater ==
    /\ At("join_updater") /\ updater = "over"
    /\ logic' = "ends"
    /\ Go("join_crons")
    /\ UNCHANGED <<statusVars, event, handlerPc, globalTerm, threadVars, jobVars, process,
                   woken, leftOver>>

(* Faulty variant: the threads are detached.                               *)
DetachCrons ==
    /\ At("join_crons")
    /\ logic' = "dead"
    /\ leftOver' = Jobs
    /\ Go("cleanup")
    /\ UNCHANGED <<statusVars, event, handlerPc, globalTerm, threadVars, jobVars, process,
                   woken>>

(* The fetch logic is destroyed; the jobs that point to it are not.        *)
JoinCrons ==
    /\ At("join_crons") /\ \A q \in Queues : crons[q] = "over"
    /\ logic' = "dead"
    /\ leftOver' = Jobs
    /\ Go("cleanup")
    /\ UNCHANGED <<statusVars, event, handlerPc, globalTerm, threadVars, jobVars, process,
                   woken>>

(* The cleanup writes the status member by member, as the handler does.    *)
CloseEvent ==
    /\ At("cleanup")
    /\ event' = "closed"
    /\ Go("clear_accepts")
    /\ UNCHANGED <<statusVars, handlerPc, globalTerm, threadVars, logic, jobVars, process,
                   woken, leftOver>>

WriteStopped ==
    /\ \/ At("clear_accepts") /\ Go("set_stopped") /\ status' = [status EXCEPT !.accepts = FALSE]
       \/ At("set_stopped") /\ Go("tell") /\ status' = [status EXCEPT !.state = "STOPPED"]
    /\ UNCHANGED <<told, event, handlerPc, globalTerm, threadVars, logic, jobVars, process,
                   woken, leftOver>>

TellStopped ==
    /\ At("tell")
    /\ told' = status
    /\ Go("returned")
    /\ UNCHANGED <<status, event, handlerPc, globalTerm, threadVars, logic, jobVars, process,
                   woken, leftOver>>

--------------------------------------------------------------------------------
(* ServiceCtrlHandler and the control manager.                             *)

SendStop ==
    /\ process = "runs" /\ handlerPc = "idle"
    /\ told.accepts /\ told.state = "RUNNING"
    /\ handlerPc' = "check"
    /\ UNCHANGED <<statusVars, event, mainPc, globalTerm, threadVars, logic, jobVars, process,
                   woken, leftOver>>

HandlerAt(label) == process = "runs" /\ handlerPc = label
HandlerGo(label) == handlerPc' = label

(* Faulty variant: the event is signalled before the status is written.    *)
HandlerSignalsFirst ==
    /\ \/ /\ HandlerAt("check")
          /\ HandlerGo(IF status.state = "RUNNING" THEN "accepts" ELSE "idle")
          /\ event' = IF event = "unset" THEN "set" ELSE event
          /\ UNCHANGED status
       \/ /\ HandlerAt("accepts") /\ HandlerGo("state")
          /\ status' = [status EXCEPT !.accepts = FALSE] /\ UNCHANGED event
       \/ /\ HandlerAt("state") /\ HandlerGo("tell")
          /\ status' = [status EXCEPT !.state = "STOP_PENDING"] /\ UNCHANGED event
    /\ UNCHANGED <<told, mainPc, globalTerm, threadVars, logic, jobVars, process, woken,
                   leftOver>>

(* Member by member, without a lock.                                       *)
HandlerWrites ==
    /\ \/ /\ HandlerAt("check")
          /\ HandlerGo(IF status.state = "RUNNING" THEN "accepts" ELSE "idle")
          /\ UNCHANGED status
       \/ /\ HandlerAt("accepts") /\ HandlerGo("state")
          /\ status' = [status EXCEPT !.accepts = FALSE]
       \/ /\ HandlerAt("state") /\ HandlerGo("tell")
          /\ status' = [status EXCEPT !.state = "STOP_PENDING"]
    /\ UNCHANGED <<told, event, mainPc, globalTerm, threadVars, logic, jobVars, process,
                   woken, leftOver>>

(* SetServiceStatus, then SetEvent, which fails on a closed handle.        *)
HandlerTells ==
    /\ \/ HandlerAt("tell") /\ HandlerGo("signal") /\ told' = status /\ UNCHANGED event
       \/ HandlerAt("signal") /\ HandlerGo("idle") /\ UNCHANGED told
          /\ event' = IF event = "unset" THEN "set" ELSE event
    /\ UNCHANGED <<status, mainPc, globalTerm, threadVars, logic, jobVars, process, woken,
                   leftOver>>

--------------------------------------------------------------------------------
(* The threads of the service.                                             *)

UpdaterEnds ==
    /\ updater = "runs" /\ globalTerm /\ process = "runs"
    /\ updater' = "over"
    /\ UNCHANGED <<statusVars, event, mainPc, handlerPc, globalTerm, crons, logic, jobVars,
                   process, woken, leftOver>>

(* A cron thread finds no termination flag and its schedule due: it calls  *)
(* add_job, and the flag may be set before it is through.                  *)
Tick(q) ==
    /\ crons[q] = "runs" /\ logic = "lives" /\ process = "runs"
    /\ crons' = [crons EXCEPT ![q] = "adds"]
    /\ UNCHANGED <<statusVars, event, mainPc, handlerPc, globalTerm, updater, logic, jobVars,
                   process, woken, leftOver>>

(* add_job waits as long as the queue is full, and looks at no flag.       *)
AddJob(q) ==
    /\ crons[q] = "adds" /\ process = "runs"
    /\ waiting[q] < MaxJobs
    /\ waiting' = [waiting EXCEPT ![q] = @ + 1]
    /\ crons' = [crons EXCEPT ![q] = "runs"]
    /\ UNCHANGED <<statusVars, event, mainPc, handlerPc, globalTerm, updater, logic, running,
                   process, woken, leftOver>>

CronEnds(q) ==
    /\ crons[q] = "runs" /\ logic = "ends" /\ process = "runs"
    /\ crons' = [crons EXCEPT ![q] = "over"]
    /\ UNCHANGED <<statusVars, event, mainPc, handlerPc, globalTerm, updater, logic, jobVars,
                   process, woken, leftOver>>

(* A worker of the queue takes a job and, later, ends it: a job knows      *)
(* nothing of the stop.  ~command_queue lets no worker take another job.   *)
BeginJob(q) ==
    /\ waiting[q] > 0 /\ ~running[q]
    /\ process \in {"runs", "leaves"} \/ (process = "retry" /\ q = "regular")
    /\ waiting' = [waiting EXCEPT ![q] = @ - 1]
    /\ running' = [running EXCEPT ![q] = TRUE]
    /\ UNCHANGED <<statusVars, event, mainPc, handlerPc, globalTerm, threadVars, logic,
                   process, woken, leftOver>>

EndJob(q) ==
    /\ running[q] /\ process \notin {"gone", "died"}
    /\ running' = [running EXCEPT ![q] = FALSE]
    /\ UNCHANGED <<statusVars, event, mainPc, handlerPc, globalTerm, threadVars, logic,
                   waiting, process, woken, leftOver>>

--------------------------------------------------------------------------------
(* The end of the process.                                                 *)

(* StartServiceCtrlDispatcher returns once the service has stopped.        *)
DispatcherReturns ==
    /\ process = "runs" /\ told.state = "STOPPED" /\ handlerPc = "idle"
    /\ mainPc = "returned"
    /\ process' = "leaves"
    /\ UNCHANGED <<statusVars, event, mainPc, handlerPc, globalTerm, threadVars, logic,
                   jobVars, woken, leftOver>>

(* The static objects of globals.cpp are destroyed, the last one first:    *)
(* the configuration, then the queue of retries, whose jobs still run.     *)
DestroyConfig ==
    /\ process = "leaves"
    /\ process' = "retry"
    /\ UNCHANGED <<statusVars, event, mainPc, handlerPc, globalTerm, threadVars, logic,
                   jobVars, woken, leftOver>>

(* Faulty variant: the queue's destructor waits for its jobs to be run.    *)
DrainQueue(q) ==
    /\ process = q /\ ~running[q] /\ waiting[q] = 0
    /\ process' = IF q = "retry" THEN "regular" ELSE "gone"
    /\ UNCHANGED <<statusVars, event, mainPc, handlerPc, globalTerm, threadVars, logic,
                   jobVars, woken, leftOver>>

(* A queue's destructor waits for the running job and drops the others.    *)
DestroyQueue(q) ==
    /\ process = q /\ ~running[q]
    /\ waiting' = [waiting EXCEPT ![q] = 0]
    /\ process' = IF q = "retry" THEN "regular" ELSE "gone"
    /\ UNCHANGED <<statusVars, event, mainPc, handlerPc, globalTerm, threadVars, logic,
                   running, woken, leftOver>>

ServiceMain == \/ Register \/ CreateStopEvent \/ ReportRunning \/ GetConfFileName
               \/ CreateQueues \/ LoadConfig \/ StartUpdater \/ InitLogic
               \/ SeeStop \/ JoinUpdater \/ JoinCrons
               \/ CloseEvent \/ WriteStopped \/ TellStopped

ServiceCtrlHandler == HandlerWrites \/ HandlerTells

Leave == DispatcherReturns \/ DestroyConfig \/ \E q \in Queues : DestroyQueue(q)

Next == \/ ServiceMain \/ SendStop \/ ServiceCtrlHandler \/ UpdaterEnds \/ Leave
        \/ \E q \in Queues : Tick(q) \/ AddJob(q) \/ CronEnds(q) \/ BeginJob(q) \/ EndJob(q)

Spec == Init /\ [][Next]_vars

(* Threads run and their loops test their flags; add_job sees room in the  *)
(* queue, which only this thread fills, and a free worker the queue's      *)
(* jobs; a job need not end.                                               *)
Fairness == /\ WF_vars(ServiceMain) /\ WF_vars(ServiceCtrlHandler)
            /\ WF_vars(UpdaterEnds) /\ WF_vars(Leave)
            /\ \A q \in Queues : /\ WF_vars(CronEnds(q)) /\ WF_vars(AddJob(q))
                                  /\ WF_vars(BeginJob(q))

FairSpec == Spec /\ Fairness

--------------------------------------------------------------------------------
(* Properties.                                                             *)

(* Once the fetch logic is destroyed nobody queues a job that points to    *)
(* it: the jobs that still do were there when its destructor joined the    *)
(* cron threads, so a stop with empty queues leaves no job with a dangling *)
(* pointer.                                                                *)
NoNewJobOnDeadLogic == logic = "dead" => Jobs <= leftOver

(* When ServiceMain was woken by the stop event, the handler is done with  *)
(* the status and the event by then: STOPPED is the last status reported,  *)
(* never overtaken by the handler's STOP_PENDING.                          *)
StoppedIsLast == [][woken /\ told.state = "STOPPED" => told' = told]_vars

(* A stop sent to a service that waits for it is reported as done, where-  *)
(* ever each thread is by then, unless a queue is full and stays so:       *)
(* besides the locks (ServiceLocks), add_job is the one wait of a cron     *)
(* thread that no termination flag ends.                                   *)
StopHonoured ==
    (\A q \in Queues : []<>(waiting[q] < MaxJobs)) =>
        ((mainPc = "wait" /\ handlerPc = "check") ~> (told.state = "STOPPED"))

(* After a stop the process ends, however many jobs wait, provided no job  *)
(* runs for ever.                                                          *)
ExitWaitsOnlyForJobs ==
    (\A q \in Queues : []<>(~running[q])) =>
        ((woken /\ told.state = "STOPPED") ~> (process = "gone"))

(* The handler's event shuts down the worker thread: a pending stop always *)
(* ends in STOPPED.                                                        *)
PendingStopEnds == (told.state = "STOP_PENDING") ~> (told.state = "STOPPED")
================================================================================
