-------------------------- MODULE ServiceControlProofs --------------------------
(***************************************************************************)
(* The order of the last status reports and the jobs that outlive the      *)
(* fetch logic, for queues of any length.                                  *)
(***************************************************************************)
EXTENDS ServiceControl, TLAPS

(* Once the fetch logic is dead no cron thread is left to queue a job.     *)
JobsSafe ==
    logic = "dead" => NoNewJobOnDeadLogic /\ \A q \in Queues : crons[q] = "over"

Starting == {"register", "create", "running"}
Ending == {"join_updater", "join_crons", "cleanup", "clear_accepts", "set_stopped", "tell",
           "returned"}

(* The handler is done with status and event, and will not be called again. *)
HandlerDone == handlerPc = "idle" /\ ~told.accepts /\ ~status.accepts

(* The order of the protocol: no stop before the service reports itself    *)
(* running, none after one was accepted, STOPPED only at the end.          *)
Protocol ==
    /\ mainPc \in Starting => HandlerDone /\ event # "set"
    /\ handlerPc \in {"state", "tell", "signal"} => ~status.accepts
    /\ handlerPc = "signal" => ~told.accepts
    /\ event = "set" => HandlerDone
    /\ woken => HandlerDone /\ mainPc \in Ending
    /\ mainPc \notin {"tell", "returned"} =>
          status.state # "STOPPED" /\ (process = "runs" => told.state # "STOPPED")
    /\ woken /\ mainPc = "tell" => told.state # "STOPPED"

Inv == TypeOK /\ JobsSafe /\ Protocol

--------------------------------------------------------------------------------
LEMMA InitInv == Init => Inv
<1> SUFFICES ASSUME Init PROVE Inv
  OBVIOUS
<1>1. TypeOK
  <2>1. St(FALSE, "START_PENDING") \in Statuses
    BY DEF St, Statuses, States
  <2>2. 0 \in 0..MaxJobs
    BY ServiceControlConstants
  <2> QED  BY <2>1, <2>2 DEF Init, TypeOK, Thread
<1>2. JobsSafe /\ Protocol
  BY DEF Init, JobsSafe, Protocol, HandlerDone, St
<1> QED  BY <1>1, <1>2 DEF Inv

--------------------------------------------------------------------------------
(* Type correctness.                                                       *)

LEMMA StatusType == \A accepts \in BOOLEAN, state \in States : St(accepts, state) \in Statuses
  BY DEF St, Statuses

LEMMA StartType ==
    TypeOK /\ (Register \/ CreateStopEvent \/ ReportRunning \/ GetConfFileName \/ CreateQueues
               \/ LoadConfig \/ StartUpdater \/ InitLogic) => TypeOK'
<1> SUFFICES ASSUME TypeOK,
                    Register \/ CreateStopEvent \/ ReportRunning \/ GetConfFileName \/ CreateQueues
                    \/ LoadConfig \/ StartUpdater \/ InitLogic
             PROVE  TypeOK'
  OBVIOUS
<1> USE DEF TypeOK, At, Go, Tell, Die, statusVars, jobVars, threadVars
<1>0. /\ St(FALSE, "START_PENDING") \in Statuses /\ St(TRUE, "RUNNING") \in Statuses
      /\ St(FALSE, "STOPPED") \in Statuses
  BY StatusType DEF States
<1>1. CASE Register
  BY <1>0, <1>1 DEF Register
<1>2. CASE CreateStopEvent
  BY <1>0, <1>2 DEF CreateStopEvent
<1>3. CASE ReportRunning
  BY <1>0, <1>3 DEF ReportRunning
<1>4. CASE GetConfFileName
  BY <1>0, <1>4 DEF GetConfFileName
<1>5. CASE CreateQueues \/ LoadConfig
  BY <1>5 DEF CreateQueues, LoadConfig
<1>6. CASE StartUpdater
  BY <1>6 DEF StartUpdater, Thread
<1>7. CASE InitLogic
  <2>1. [waiting EXCEPT !["regular"] = 1] \in [Queues -> 0..MaxJobs]
    <3>1. 1 \in 0..MaxJobs
      BY ServiceControlConstants
    <3> QED  BY <3>1
  <2>2. [q \in Queues |-> "runs"] \in [Queues -> Thread]
    BY DEF Thread
  <2> QED  BY <1>0, <1>7, <2>1, <2>2 DEF InitLogic
<1> QED  BY <1>1, <1>2, <1>3, <1>4, <1>5, <1>6, <1>7

LEMMA StopType ==
    TypeOK /\ (SeeStop \/ JoinUpdater \/ JoinCrons \/ CloseEvent \/ WriteStopped \/ TellStopped
               \/ SendStop \/ HandlerWrites \/ HandlerTells) => TypeOK'
<1> SUFFICES ASSUME TypeOK,
                    SeeStop \/ JoinUpdater \/ JoinCrons \/ CloseEvent \/ WriteStopped
                    \/ TellStopped \/ SendStop \/ HandlerWrites \/ HandlerTells
             PROVE  TypeOK'
  OBVIOUS
<1> USE DEF TypeOK, At, Go, HandlerAt, HandlerGo, statusVars, jobVars, threadVars
<1>0. \A s \in Statuses : /\ [s EXCEPT !.accepts = FALSE] \in Statuses
                          /\ [s EXCEPT !.state = "STOPPED"] \in Statuses
                          /\ [s EXCEPT !.state = "STOP_PENDING"] \in Statuses
  BY DEF Statuses, States
<1>1. CASE SeeStop \/ JoinUpdater \/ CloseEvent
  BY <1>1 DEF SeeStop, JoinUpdater, CloseEvent
<1>2. CASE JoinCrons
  <2>1. Jobs \in Nat
    BY DEF Jobs, JobsOf, Queues
  <2> QED  BY <1>2, <2>1 DEF JoinCrons
<1>3. CASE WriteStopped
  BY <1>0, <1>3 DEF WriteStopped
<1>4. CASE TellStopped \/ SendStop
  <2>1. CASE TellStopped
    BY <2>1 DEF TellStopped
  <2>2. CASE SendStop
    BY <2>2 DEF SendStop
  <2> QED  BY <1>4, <2>1, <2>2
<1>5. CASE HandlerWrites
  <2>1. \/ status' = status
        \/ status' = [status EXCEPT !.accepts = FALSE]
        \/ status' = [status EXCEPT !.state = "STOP_PENDING"]
    BY <1>5 DEF HandlerWrites
  <2>2. status \in Statuses
    OBVIOUS
  <2>3. status' \in Statuses
    BY ONLY <1>0, <2>1, <2>2
  <2> QED  BY <1>5, <2>3 DEF HandlerWrites
<1>6. CASE HandlerTells
  BY <1>6 DEF HandlerTells
<1> QED  BY <1>1, <1>2, <1>3, <1>4, <1>5, <1>6

LEMMA ThreadType ==
    ASSUME TypeOK, NEW q \in Queues,
           \/ UpdaterEnds \/ DispatcherReturns \/ DestroyConfig \/ DestroyQueue(q)
           \/ Tick(q) \/ AddJob(q) \/ CronEnds(q) \/ BeginJob(q) \/ EndJob(q)
    PROVE  TypeOK'
<1> USE DEF TypeOK, statusVars, jobVars, threadVars
<1>1. CASE UpdaterEnds \/ DispatcherReturns \/ DestroyConfig
  BY <1>1 DEF UpdaterEnds, DispatcherReturns, DestroyConfig, Thread, Queues
<1>2. CASE DestroyQueue(q)
  <2>1. [waiting EXCEPT ![q] = 0] \in [Queues -> 0..MaxJobs]
    BY ServiceControlConstants
  <2>2. (IF q = "retry" THEN "regular" ELSE "gone") \in {"runs", "leaves", "gone", "died"} \cup Queues
    BY DEF Queues
  <2> QED  BY <1>2, <2>1, <2>2 DEF DestroyQueue
<1>3. CASE AddJob(q)
  <2>1. [waiting EXCEPT ![q] = @ + 1] \in [Queues -> 0..MaxJobs]
    BY <1>3, ServiceControlConstants DEF AddJob
  <2> QED  BY <1>3, <2>1 DEF AddJob, Thread
<1>4. CASE Tick(q) \/ CronEnds(q)
  BY <1>4 DEF Tick, CronEnds, Thread
<1>5. CASE BeginJob(q)
  <2>1. [waiting EXCEPT ![q] = @ - 1] \in [Queues -> 0..MaxJobs]
    BY <1>5, ServiceControlConstants DEF BeginJob
  <2> QED  BY <1>5, <2>1 DEF BeginJob
<1>6. CASE EndJob(q)
  BY <1>6 DEF EndJob
<1> QED  BY <1>1, <1>2, <1>3, <1>4, <1>5, <1>6

LEMMA TypeStep == TypeOK /\ [Next]_vars => TypeOK'
<1> SUFFICES ASSUME TypeOK, [Next]_vars PROVE TypeOK'
  OBVIOUS
<1>1. CASE UNCHANGED vars
  BY <1>1 DEF TypeOK, vars, statusVars, jobVars, threadVars
<1>2. CASE Next
  <2>1. Queues # {}
    BY DEF Queues
  <2> QED  BY <1>2, <2>1, StartType, StopType, ThreadType
           DEF Next, ServiceMain, ServiceCtrlHandler, Leave
<1> QED  BY <1>1, <1>2

--------------------------------------------------------------------------------
(* The jobs that point to the fetch logic.                                 *)

(* A worker that begins a job, ends one, or a destructor that drops some   *)
(* adds none.                                                              *)
LEMMA JobsShrink ==
    ASSUME TypeOK, NEW q \in Queues, BeginJob(q) \/ EndJob(q) \/ DestroyQueue(q)
    PROVE  Jobs' <= Jobs
<1>1. \A p \in Queues : waiting[p] \in Nat /\ running[p] \in BOOLEAN
  BY ServiceControlConstants DEF TypeOK
<1>2. \A p \in Queues : JobsOf(p)' <= JobsOf(p) /\ JobsOf(p) \in Nat /\ JobsOf(p)' \in Nat
  <2>1. CASE BeginJob(q)
    BY <1>1, <2>1 DEF BeginJob, JobsOf, TypeOK
  <2>2. CASE EndJob(q)
    BY <1>1, <2>2 DEF EndJob, JobsOf, TypeOK
  <2>3. CASE DestroyQueue(q)
    BY <1>1, <2>3 DEF DestroyQueue, JobsOf, TypeOK
  <2> QED  BY <2>1, <2>2, <2>3
<1> QED  BY <1>2 DEF Jobs, Queues

LEMMA JobsSafeStep == TypeOK /\ JobsSafe /\ [Next]_vars => JobsSafe'
<1> SUFFICES ASSUME TypeOK, JobsSafe, [Next]_vars PROVE JobsSafe'
  OBVIOUS
<1> USE DEF JobsSafe, NoNewJobOnDeadLogic
<1>1. ASSUME UNCHANGED <<logic, crons, jobVars, leftOver>> PROVE JobsSafe'
  BY <1>1 DEF Jobs, JobsOf, jobVars
<1>2. CASE UNCHANGED vars
  BY <1>1, <1>2 DEF vars, jobVars, threadVars
<1>3. CASE \/ Register \/ CreateStopEvent \/ ReportRunning \/ GetConfFileName \/ CreateQueues
           \/ LoadConfig \/ StartUpdater \/ SeeStop \/ CloseEvent \/ WriteStopped \/ TellStopped
  BY <1>1, <1>3 DEF Register, CreateStopEvent, ReportRunning, GetConfFileName, CreateQueues,
     LoadConfig, StartUpdater, SeeStop, CloseEvent, WriteStopped, TellStopped, threadVars
<1>4. CASE SendStop \/ ServiceCtrlHandler \/ UpdaterEnds \/ DispatcherReturns \/ DestroyConfig
  BY <1>1, <1>4 DEF SendStop, ServiceCtrlHandler, HandlerWrites, HandlerTells, UpdaterEnds,
     DispatcherReturns, DestroyConfig, threadVars
<1>5. CASE InitLogic
  <2>1. CASE logic' = "lives"
    BY <2>1
  <2>2. CASE UNCHANGED <<logic, crons, jobVars, leftOver>>
    BY <1>1, <2>2
  <2> QED  BY <1>5, <2>1, <2>2 DEF InitLogic, jobVars
<1>6. CASE JoinUpdater
  BY <1>6 DEF JoinUpdater
<1>7. CASE JoinCrons
  <2>1. leftOver' = Jobs /\ Jobs' = Jobs /\ crons' = crons /\ \A q \in Queues : crons[q] = "over"
    BY <1>7 DEF JoinCrons, Jobs, JobsOf, jobVars, threadVars
  <2>2. Jobs \in Nat
    BY ServiceControlConstants DEF TypeOK, Jobs, JobsOf, Queues
  <2> QED  BY <2>1, <2>2
<1>8. ASSUME NEW q \in Queues, Tick(q) \/ AddJob(q) \/ CronEnds(q) PROVE JobsSafe'
  BY <1>8 DEF Tick, AddJob, CronEnds
<1>9. ASSUME NEW q \in Queues, BeginJob(q) \/ EndJob(q) \/ DestroyQueue(q) PROVE JobsSafe'
  <2>1. Jobs' <= Jobs /\ Jobs \in Int /\ Jobs' \in Int /\ leftOver \in Int
    <3>1. TypeOK'
      BY TypeStep
    <3> QED  BY <1>9, <3>1, JobsShrink, ServiceControlConstants DEF TypeOK, Jobs, JobsOf, Queues
  <2>2. UNCHANGED <<logic, crons, leftOver>>
    BY <1>9 DEF BeginJob, EndJob, DestroyQueue, threadVars
  <2> QED  BY <2>1, <2>2
<1> QED  BY <1>2, <1>3, <1>4, <1>5, <1>6, <1>7, <1>8, <1>9 DEF Next, ServiceMain, Leave

--------------------------------------------------------------------------------
(* The protocol.                                                           *)

LEMMA ProtocolStep == TypeOK /\ Protocol /\ [Next]_vars => Protocol'
<1> SUFFICES ASSUME TypeOK, Protocol, [Next]_vars PROVE Protocol'
  OBVIOUS
<1> USE DEF Protocol, HandlerDone, Starting, Ending, At, Go, HandlerAt, HandlerGo
<1>0. told \in Statuses /\ status \in Statuses
  BY DEF TypeOK
<1>1. ASSUME UNCHANGED <<statusVars, event, mainPc, handlerPc, process, woken>> PROVE Protocol'
  BY <1>1 DEF statusVars
<1>2. CASE UNCHANGED vars
  BY <1>1, <1>2 DEF vars
<1>3. CASE Register \/ CreateStopEvent \/ ReportRunning
  BY <1>3 DEF Register, CreateStopEvent, ReportRunning, Tell, St, statusVars
<1>4. CASE GetConfFileName \/ CreateQueues \/ LoadConfig \/ StartUpdater \/ InitLogic
  BY <1>4 DEF GetConfFileName, CreateQueues, LoadConfig, StartUpdater, InitLogic, Die, St, statusVars
<1>5. CASE SeeStop \/ JoinUpdater \/ JoinCrons \/ CloseEvent
  BY <1>5 DEF SeeStop, JoinUpdater, JoinCrons, CloseEvent, statusVars
<1>6. CASE WriteStopped
  BY <1>0, <1>6 DEF WriteStopped, Statuses
<1>7. CASE TellStopped
  BY <1>7 DEF TellStopped
<1>8. CASE SendStop
  BY <1>8 DEF SendStop, statusVars
<1>9. CASE HandlerWrites
  BY <1>0, <1>9 DEF HandlerWrites, Statuses
<1>10. CASE HandlerTells
  BY <1>10 DEF HandlerTells
<1>11. CASE DispatcherReturns
  BY <1>11 DEF DispatcherReturns, statusVars
<1>12. CASE DestroyConfig \/ \E q \in Queues : DestroyQueue(q)
  BY <1>12 DEF DestroyConfig, DestroyQueue, statusVars, Queues
<1>13. CASE UpdaterEnds \/ \E q \in Queues : Tick(q) \/ AddJob(q) \/ CronEnds(q) \/ BeginJob(q) \/ EndJob(q)
  BY <1>1, <1>13 DEF UpdaterEnds, Tick, AddJob, CronEnds, BeginJob, EndJob
<1> QED  BY <1>2, <1>3, <1>4, <1>5, <1>6, <1>7, <1>8, <1>9, <1>10, <1>11, <1>12, <1>13
         DEF Next, ServiceMain, ServiceCtrlHandler, Leave

(* The invariant is inductive.                                             *)
THEOREM ServiceInductive == Spec => []Inv
<1>1. Inv /\ [Next]_vars => Inv'
  BY TypeStep, JobsSafeStep, ProtocolStep DEF Inv
<1> QED  BY <1>1, InitInv, PTL DEF Spec

(* Type correctness of the service's control.                              *)
THEOREM ServiceTypeOK == Spec => []TypeOK
<1>1. Inv => TypeOK
  BY DEF Inv
<1> QED  BY <1>1, ServiceInductive, PTL

(* Once ServiceMain has destroyed the fetch logic no job that points to it *)
(* is queued.                                                              *)
THEOREM NoNewJobAlways == Spec => []NoNewJobOnDeadLogic
<1>1. Inv => NoNewJobOnDeadLogic
  BY DEF Inv, JobsSafe, NoNewJobOnDeadLogic
<1> QED  BY <1>1, ServiceInductive, PTL

(* After a stop STOPPED is the last status the control manager hears.      *)
THEOREM StoppedIsLastAlways == Spec => StoppedIsLast
<1>1. Inv /\ [Next]_vars => (woken /\ told.state = "STOPPED" => told' = told)
  <2> SUFFICES ASSUME Inv, [Next]_vars, woken, told.state = "STOPPED" PROVE told' = told
    OBVIOUS
  <2>1. handlerPc = "idle" /\ mainPc \in Ending \ {"tell"}
    BY DEF Inv, Protocol, HandlerDone
  <2>2. CASE UNCHANGED vars
    BY <2>2 DEF vars, statusVars
  <2>3. CASE ServiceMain
    BY <2>1, <2>3 DEF ServiceMain, Register, CreateStopEvent, ReportRunning, GetConfFileName,
       CreateQueues, LoadConfig, StartUpdater, InitLogic, SeeStop, JoinUpdater, JoinCrons,
       CloseEvent, WriteStopped, TellStopped, At, Ending, statusVars
  <2>4. CASE SendStop \/ ServiceCtrlHandler \/ UpdaterEnds \/ Leave
    BY <2>1, <2>4 DEF SendStop, ServiceCtrlHandler, HandlerWrites, HandlerTells, HandlerAt,
       UpdaterEnds, Leave, DispatcherReturns, DestroyConfig, DestroyQueue, statusVars
  <2>5. CASE \E q \in Queues : Tick(q) \/ AddJob(q) \/ CronEnds(q) \/ BeginJob(q) \/ EndJob(q)
    BY <2>5 DEF Tick, AddJob, CronEnds, BeginJob, EndJob, statusVars
  <2> QED  BY <2>2, <2>3, <2>4, <2>5 DEF Next
<1> QED  BY <1>1, ServiceInductive, PTL DEF Spec, StoppedIsLast
================================================================================
