----------------------------- MODULE CommandQueue -----------------------------
(***************************************************************************)
(* lins::command_queue (src/support/command_queue.hpp): a bounded queue of *)
(* jobs, a pool of worker threads that grows and shrinks, the arbiter      *)
(* thread that spawns and kills the workers, the callers of add_job, and   *)
(* the destructor.  One action is one stretch of a thread's code between   *)
(* two points where another thread can see or disturb it.                  *)
(*                                                                         *)
(* What the model leaves to chance: time.  Every wait of this code has a   *)
(* timeout (worker_waiting_interval, controller_waiting_interval, sleeps), *)
(* so a waiting thread may go on at any moment and a notification adds no  *)
(* behaviour; workload, enqueueing speed and ages only ever permit a spawn *)
(* or a kill, so the model may take or skip each of those it permits.      *)
(***************************************************************************)
EXTENDS Integers, Sequences, FiniteSets

CONSTANTS Producers,   (* threads that call add_job / add_job_urgent       *)
          Workers,     (* identities a worker thread can have              *)
          Jobs,        (* jobs, each submitted at most once                *)
          Urgent,      (* the jobs submitted through add_job_urgent        *)
          MaxThreads,  (* max_threads_                                     *)
          MaxLen       (* max_queue_len_                                   *)

None == "none"

ASSUME ConstantsAssumption ==
    /\ IsFiniteSet(Producers) /\ IsFiniteSet(Workers)
    /\ None \notin Workers /\ None \notin Jobs
    /\ Urgent \subseteq Jobs
    /\ MaxThreads \in Nat \ {0} /\ MaxThreads <= Cardinality(Workers)
    /\ MaxLen \in Nat \ {0}

VARIABLES
    hp_jobs, jobs,    (* the two lists, guarded by evt_mtp_                *)
    size_approx,      (* atomic, also read without the lock                *)
    evt_mtp,          (* the worker that holds the mutex, or None          *)
    prodPc, prodJob,  (* where each producer is, and with which job        *)
    workPc, hand,     (* where each worker is, and its local "j"           *)
    work_or_stop,     (* work_or_stop_pending_: -1 fetching, 1 doomed      *)
    stopping,         (* the worker's own termination flag                 *)
    busy, has_worked, (* busy_, has_worked_since_spawning_                 *)
    processors,       (* the workers in the list processors_               *)
    arbPc,            (* where the arbiter is                              *)
    jobs_in_q,        (* its sample of size_approx_                        *)
    spawned,          (* spawned in this cycle                             *)
    victim,           (* the worker it is erasing, or the one it builds    *)
    termination,      (* the queue's termination flag                      *)
    dtorPc,           (* where the destructor is                           *)
    done              (* history: the jobs that ran to their end           *)

prodVars == <<prodPc, prodJob>>
flagVars == <<work_or_stop, stopping, busy, has_worked>>
workVars == <<workPc, hand, flagVars>>
listVars == <<hp_jobs, jobs, size_approx>>
arbVars  == <<processors, arbPc, jobs_in_q, spawned, victim>>
dtorVars == <<termination, dtorPc>>
vars == <<listVars, evt_mtp, prodVars, workVars, arbVars, dtorVars, done>>

TypeOK ==
    /\ hp_jobs \in Seq(Jobs) /\ jobs \in Seq(Jobs)
    /\ size_approx \in Nat
    /\ evt_mtp \in Workers \cup {None}
    /\ prodPc \in [Producers -> {"idle", "check", "push"}]
    /\ prodJob \in [Producers -> Jobs \cup {None}]
    /\ workPc \in [Workers -> {"none", "loop", "fetch", "locked", "armed",
                               "waiting", "got", "run", "exited"}]
    /\ hand \in [Workers -> Jobs \cup {None}]
    /\ work_or_stop \in [Workers -> {-1, 0, 1}]
    /\ stopping \in [Workers -> BOOLEAN]
    /\ busy \in [Workers -> BOOLEAN]
    /\ has_worked \in [Workers -> BOOLEAN]
    /\ processors \subseteq Workers
    /\ arbPc \in {"sample", "spawn", "construct", "kill", "erase", "join",
                  "rest", "exited"}
    /\ jobs_in_q \in Nat
    /\ spawned \in BOOLEAN
    /\ victim \in Workers \cup {None}
    /\ termination \in BOOLEAN
    /\ dtorPc \in {"alive", "notify", "join_arbiter", "clear", "destroyed"}
    /\ done \subseteq Jobs

Init ==
    /\ hp_jobs = <<>> /\ jobs = <<>> /\ size_approx = 0
    /\ evt_mtp = None
    /\ prodPc = [p \in Producers |-> "idle"]
    /\ prodJob = [p \in Producers |-> None]
    /\ workPc = [w \in Workers |-> "none"]
    /\ hand = [w \in Workers |-> None]
    /\ work_or_stop = [w \in Workers |-> 0]
    /\ stopping = [w \in Workers |-> FALSE]
    /\ busy = [w \in Workers |-> FALSE]
    /\ has_worked = [w \in Workers |-> FALSE]
    /\ processors = {}
    /\ arbPc = "sample" /\ jobs_in_q = 0 /\ spawned = FALSE /\ victim = None
    /\ termination = FALSE /\ dtorPc = "alive"
    /\ done = {}

Elements(s) == {s[i] : i \in 1..Len(s)}

InHand == {hand[w] : w \in Workers} \ {None}
InCall == {prodJob[p] : p \in Producers} \ {None}
Submitted == Elements(hp_jobs) \cup Elements(jobs) \cup InHand \cup done \cup InCall

--------------------------------------------------------------------------------
(* Producers: add_job and add_job_urgent.                                  *)

(* A thread enters add_job.  The queue outlives the calls on it, so no     *)
(* call starts once the destructor has.                                    *)
Call(p, j) ==
    /\ dtorPc = "alive"
    /\ prodPc[p] = "idle"
    /\ j \notin Submitted
    /\ prodPc' = [prodPc EXCEPT ![p] = "check"]
    /\ prodJob' = [prodJob EXCEPT ![p] = j]
    /\ UNCHANGED <<listVars, evt_mtp, workVars, arbVars, dtorVars, done>>

(* Faulty variant: the test is off by one.                                 *)
AdmitOneTooMany(p) ==
    /\ prodPc[p] = "check"
    /\ size_approx <= MaxLen
    /\ prodPc' = [prodPc EXCEPT ![p] = "push"]
    /\ UNCHANGED <<listVars, evt_mtp, prodJob, workVars, arbVars, dtorVars, done>>

(* while(size_approx_ >= max_queue_len_) sleep: read without the lock, so  *)
(* several producers can pass on the same reading.                         *)
Admit(p) ==
    /\ prodPc[p] = "check"
    /\ size_approx < MaxLen
    /\ prodPc' = [prodPc EXCEPT ![p] = "push"]
    /\ UNCHANGED <<listVars, evt_mtp, prodJob, workVars, arbVars, dtorVars, done>>

(* Under evt_mtp_: push_back, size_approx_update, notify; the arbiter is   *)
(* notified after it.                                                      *)
Push(p) ==
    /\ prodPc[p] = "push"
    /\ evt_mtp = None
    /\ IF prodJob[p] \in Urgent
       THEN hp_jobs' = Append(hp_jobs, prodJob[p]) /\ jobs' = jobs
       ELSE jobs' = Append(jobs, prodJob[p]) /\ hp_jobs' = hp_jobs
    /\ size_approx' = Len(hp_jobs') + Len(jobs')
    /\ prodPc' = [prodPc EXCEPT ![p] = "idle"]
    /\ prodJob' = [prodJob EXCEPT ![p] = None]
    /\ UNCHANGED <<evt_mtp, workVars, arbVars, dtorVars, done>>

--------------------------------------------------------------------------------
(* Workers: the thread function and fetch_job.                             *)

(* The loop condition and the doomed() test.  A doomed worker sleeps       *)
(* 10 ms and comes back to the loop: no state changes, no action.          *)
EnterFetch(w) ==
    /\ workPc[w] = "loop"
    /\ ~stopping[w] /\ ~termination
    /\ work_or_stop[w] # 1
    /\ workPc' = [workPc EXCEPT ![w] = "fetch"]
    /\ UNCHANGED <<listVars, evt_mtp, prodVars, hand, flagVars, arbVars, dtorVars, done>>

Exit(w) ==
    /\ workPc[w] = "loop"
    /\ stopping[w] \/ termination
    /\ workPc' = [workPc EXCEPT ![w] = "exited"]
    /\ UNCHANGED <<listVars, evt_mtp, prodVars, hand, flagVars, arbVars, dtorVars, done>>

(* unique_lock el(evt_mtp_).                                               *)
Lock(w) ==
    /\ workPc[w] = "fetch"
    /\ evt_mtp = None
    /\ evt_mtp' = w
    /\ workPc' = [workPc EXCEPT ![w] = "locked"]
    /\ UNCHANGED <<listVars, prodVars, hand, flagVars, arbVars, dtorVars, done>>

(* Faulty variants: the flag is overwritten whatever it holds; the         *)
(* termination test is missing.                                            *)
LockRegardless(w) ==
    /\ workPc[w] = "locked"
    /\ IF ~termination
       THEN /\ work_or_stop' = [work_or_stop EXCEPT ![w] = -1]
            /\ workPc' = [workPc EXCEPT ![w] = "armed"]
            /\ evt_mtp' = evt_mtp
       ELSE /\ workPc' = [workPc EXCEPT ![w] = "loop"]
            /\ evt_mtp' = None
            /\ work_or_stop' = work_or_stop
    /\ UNCHANGED <<listVars, prodVars, hand, stopping, busy, has_worked, arbVars, dtorVars, done>>

LockWithoutTermination(w) ==
    /\ workPc[w] = "locked"
    /\ work_or_stop[w] = 0
    /\ work_or_stop' = [work_or_stop EXCEPT ![w] = -1]
    /\ workPc' = [workPc EXCEPT ![w] = "armed"]
    /\ UNCHANGED <<evt_mtp, listVars, prodVars, hand, stopping, busy, has_worked, arbVars,
                   dtorVars, done>>

(* while(!termination()) and lock_for_processing, the 0 -> -1 exchange: if *)
(* either fails fetch_job returns false and drops the mutex.               *)
LockForProcessing(w) ==
    /\ workPc[w] = "locked"
    /\ IF ~termination /\ work_or_stop[w] = 0
       THEN /\ work_or_stop' = [work_or_stop EXCEPT ![w] = -1]
            /\ workPc' = [workPc EXCEPT ![w] = "armed"]
            /\ evt_mtp' = evt_mtp
       ELSE /\ workPc' = [workPc EXCEPT ![w] = "loop"]
            /\ evt_mtp' = None
            /\ work_or_stop' = work_or_stop
    /\ UNCHANGED <<listVars, prodVars, hand, stopping, busy, has_worked, arbVars, dtorVars, done>>

(* unlock_for_stop, the -1 -> 0 exchange.                                  *)
UnlockForStop(w) ==
    work_or_stop' = [work_or_stop EXCEPT ![w] = IF @ = -1 THEN 0 ELSE @]

(* Faulty variants: the ordinary line is served first; the size is left    *)
(* stale.                                                                  *)
TakeOrdinaryFirst(w) ==
    /\ workPc[w] = "armed"
    /\ \/ /\ jobs # <<>>
          /\ hand' = [hand EXCEPT ![w] = Head(jobs)]
          /\ jobs' = Tail(jobs)
          /\ hp_jobs' = hp_jobs
       \/ /\ jobs = <<>>
          /\ hp_jobs # <<>>
          /\ hand' = [hand EXCEPT ![w] = Head(hp_jobs)]
          /\ hp_jobs' = Tail(hp_jobs)
          /\ jobs' = jobs
    /\ size_approx' = Len(hp_jobs') + Len(jobs')
    /\ UnlockForStop(w)
    /\ evt_mtp' = None
    /\ workPc' = [workPc EXCEPT ![w] = "got"]
    /\ UNCHANGED <<prodVars, stopping, busy, has_worked, arbVars, dtorVars, done>>

TakeWithoutUpdate(w) ==
    /\ workPc[w] = "armed"
    /\ jobs # <<>>
    /\ hand' = [hand EXCEPT ![w] = Head(jobs)]
    /\ jobs' = Tail(jobs)
    /\ UnlockForStop(w)
    /\ evt_mtp' = None
    /\ workPc' = [workPc EXCEPT ![w] = "got"]
    /\ UNCHANGED <<hp_jobs, size_approx, prodVars, stopping, busy, has_worked, arbVars,
                   dtorVars, done>>

(* Pop the oldest urgent job, or else the oldest ordinary one; the flag    *)
(* and the mutex are released on return.                                   *)
Take(w) ==
    /\ workPc[w] = "armed"
    /\ \/ /\ hp_jobs # <<>>
          /\ hand' = [hand EXCEPT ![w] = Head(hp_jobs)]
          /\ hp_jobs' = Tail(hp_jobs)
          /\ jobs' = jobs
       \/ /\ hp_jobs = <<>>
          /\ jobs # <<>>
          /\ hand' = [hand EXCEPT ![w] = Head(jobs)]
          /\ jobs' = Tail(jobs)
          /\ hp_jobs' = hp_jobs
    /\ size_approx' = Len(hp_jobs') + Len(jobs')
    /\ UnlockForStop(w)
    /\ evt_mtp' = None
    /\ workPc' = [workPc EXCEPT ![w] = "got"]
    /\ UNCHANGED <<prodVars, stopping, busy, has_worked, arbVars, dtorVars, done>>

(* Both lists are empty: release the flag, then wait_for releases the      *)
(* mutex, unless termination is seen: then the wait is skipped, its        *)
(* (empty) duration is logged and the loop condition is tested again.      *)
FindNothing(w) ==
    /\ workPc[w] = "armed"
    /\ hp_jobs = <<>> /\ jobs = <<>>
    /\ UnlockForStop(w)
    /\ IF ~termination /\ size_approx = 0
       THEN /\ evt_mtp' = None
            /\ workPc' = [workPc EXCEPT ![w] = "waiting"]
            /\ has_worked' = has_worked
       ELSE /\ workPc' = [workPc EXCEPT ![w] = "locked"]
            /\ has_worked' = [has_worked EXCEPT ![w] = TRUE]
            /\ evt_mtp' = evt_mtp
    /\ UNCHANGED <<listVars, prodVars, hand, stopping, busy, arbVars, dtorVars, done>>

(* wait_for returns, notified or not, with the mutex; log_wait_time_arg.   *)
Wake(w) ==
    /\ workPc[w] = "waiting"
    /\ evt_mtp = None
    /\ evt_mtp' = w
    /\ has_worked' = [has_worked EXCEPT ![w] = TRUE]
    /\ workPc' = [workPc EXCEPT ![w] = "locked"]
    /\ UNCHANGED <<listVars, prodVars, hand, work_or_stop, stopping, busy, arbVars, dtorVars, done>>

(* busy_.store(true): until here the arbiter sees an idle worker.          *)
BecomeBusy(w) ==
    /\ workPc[w] = "got"
    /\ busy' = [busy EXCEPT ![w] = TRUE]
    /\ workPc' = [workPc EXCEPT ![w] = "run"]
    /\ UNCHANGED <<listVars, evt_mtp, prodVars, hand, work_or_stop, stopping,
                   has_worked, arbVars, dtorVars, done>>

(* j() returned or threw; busy_ is reset and has_worked_since_spawning_    *)
(* set.                                                                    *)
Finish(w) ==
    /\ workPc[w] = "run"
    /\ done' = done \cup {hand[w]}
    /\ hand' = [hand EXCEPT ![w] = None]
    /\ busy' = [busy EXCEPT ![w] = FALSE]
    /\ has_worked' = [has_worked EXCEPT ![w] = TRUE]
    /\ workPc' = [workPc EXCEPT ![w] = "loop"]
    /\ UNCHANGED <<listVars, evt_mtp, prodVars, work_or_stop, stopping, arbVars, dtorVars>>

--------------------------------------------------------------------------------
(* The arbiter thread.                                                     *)

(* while(!termination()), and the sample of the queue taken before         *)
(* processors_mtp_ is locked.                                              *)
Sample ==
    /\ arbPc = "sample"
    /\ ~termination
    /\ jobs_in_q' = size_approx
    /\ spawned' = FALSE
    /\ arbPc' = "spawn"
    /\ UNCHANGED <<listVars, evt_mtp, prodVars, workVars, processors, victim, dtorVars, done>>

ArbiterExit ==
    /\ arbPc = "sample"
    /\ termination
    /\ arbPc' = "exited"
    /\ UNCHANGED <<listVars, evt_mtp, prodVars, workVars, processors, jobs_in_q,
                   spawned, victim, dtorVars, done>>

(* Faulty variant: a single waiting job spawns no thread.                  *)
MaySpawnLater == Cardinality(processors) < MaxThreads /\ jobs_in_q > 1

MaySpawn == Cardinality(processors) < MaxThreads /\ jobs_in_q > 0

(* emplace_back(this): the member work_thread_ is initialized, and runs,   *)
(* before the members declared after it: work_or_stop_pending_ is          *)
(* arbitrary until Construct initializes it (so are busy_ and              *)
(* has_worked_since_spawning_, which nobody reads before that).            *)
Spawn(w) ==
    /\ arbPc = "spawn"
    /\ MaySpawn
    /\ w \notin processors
    /\ victim' = w
    /\ workPc' = [workPc EXCEPT ![w] = "loop"]
    /\ hand' = [hand EXCEPT ![w] = None]
    /\ stopping' = [stopping EXCEPT ![w] = FALSE]
    /\ \E f \in {-1, 0, 1} : work_or_stop' = [work_or_stop EXCEPT ![w] = f]
    /\ arbPc' = "construct"
    /\ UNCHANGED <<listVars, evt_mtp, prodVars, busy, has_worked, processors, jobs_in_q,
                   spawned, dtorVars, done>>

(* The initializers of busy_, work_or_stop_pending_ and                    *)
(* has_worked_since_spawning_; the worker is then in the list.             *)
Construct ==
    /\ arbPc = "construct"
    /\ work_or_stop' = [work_or_stop EXCEPT ![victim] = 0]
    /\ busy' = [busy EXCEPT ![victim] = FALSE]
    /\ has_worked' = [has_worked EXCEPT ![victim] = FALSE]
    /\ processors' = processors \cup {victim}
    /\ victim' = None
    /\ spawned' = TRUE
    /\ arbPc' = "kill"
    /\ UNCHANGED <<listVars, evt_mtp, prodVars, workPc, hand, stopping, jobs_in_q, dtorVars, done>>

(* The thread could not be created: the exception ends the cycle.          *)
SpawnFails ==
    /\ arbPc = "spawn"
    /\ MaySpawn
    /\ arbPc' = "sample"
    /\ UNCHANGED <<listVars, evt_mtp, prodVars, workVars, processors, jobs_in_q,
                   spawned, victim, dtorVars, done>>

(* No room, no job seen, or the load does not ask for another thread; the  *)
(* first worker is spawned whatever the load.                              *)
SkipSpawn ==
    /\ arbPc = "spawn"
    /\ MaySpawn => processors # {}
    /\ arbPc' = "kill"
    /\ UNCHANGED <<listVars, evt_mtp, prodVars, workVars, processors, jobs_in_q,
                   spawned, victim, dtorVars, done>>

(* The locals of the cycle are not read again.                             *)
EndOfLocals == jobs_in_q' = 0 /\ spawned' = FALSE

(* The kill conditions, and prepare_for_stopping, the 0 -> 1 exchange.     *)
Doom(w) ==
    /\ arbPc = "kill"
    /\ w \in processors
    /\ \/ Cardinality(processors) > MaxThreads
       \/ ~spawned /\ jobs_in_q = 0 /\ has_worked[w] /\ ~busy[w]
    /\ work_or_stop[w] = 0
    /\ work_or_stop' = [work_or_stop EXCEPT ![w] = 1]
    /\ victim' = w
    /\ arbPc' = "erase"
    /\ EndOfLocals
    /\ UNCHANGED <<listVars, evt_mtp, prodVars, workPc, hand, stopping, busy, has_worked,
                   processors, dtorVars, done>>

SkipKill ==
    /\ arbPc = "kill"
    /\ arbPc' = "rest"
    /\ EndOfLocals
    /\ UNCHANGED <<listVars, evt_mtp, prodVars, workVars, processors, victim, dtorVars, done>>

(* processors_.erase(it): ~worker terminates the worker ...                *)
Erase ==
    /\ arbPc = "erase"
    /\ stopping' = [stopping EXCEPT ![victim] = TRUE]
    /\ arbPc' = "join"
    /\ UNCHANGED <<listVars, evt_mtp, prodVars, workPc, hand, work_or_stop, busy, has_worked,
                   processors, jobs_in_q, spawned, victim, dtorVars, done>>

(* The joined worker leaves the list and its storage is freed.             *)
Free(w) ==
    /\ workPc' = [workPc EXCEPT ![w] = "none"]
    /\ processors' = processors \ {w}
    /\ work_or_stop' = [work_or_stop EXCEPT ![w] = 0]
    /\ stopping' = [stopping EXCEPT ![w] = FALSE]
    /\ busy' = [busy EXCEPT ![w] = FALSE]
    /\ has_worked' = [has_worked EXCEPT ![w] = FALSE]

(* Faulty variant: the thread is detached.                                 *)
DetachInsteadOfJoin ==
    /\ arbPc = "join"
    /\ processors' = processors \ {victim}
    /\ victim' = None
    /\ arbPc' = "rest"
    /\ UNCHANGED <<listVars, evt_mtp, prodVars, workVars, jobs_in_q, spawned, dtorVars, done>>

(* ... and joins its thread, under processors_mtp_, however long its job.  *)
Join ==
    /\ arbPc = "join"
    /\ workPc[victim] = "exited"
    /\ Free(victim)
    /\ victim' = None
    /\ arbPc' = "rest"
    /\ UNCHANGED <<listVars, evt_mtp, prodVars, hand, jobs_in_q, spawned, dtorVars, done>>

(* arbiter_cv_.wait_for or a sleep, each of bounded length.                *)
Rest ==
    /\ arbPc = "rest"
    /\ arbPc' = "sample"
    /\ UNCHANGED <<listVars, evt_mtp, prodVars, workVars, processors, jobs_in_q,
                   spawned, victim, dtorVars, done>>

--------------------------------------------------------------------------------
(* ~command_queue.                                                         *)

Terminate ==
    /\ dtorPc = "alive"
    /\ \A p \in Producers : prodPc[p] = "idle"
    /\ termination' = TRUE
    /\ dtorPc' = "notify"
    /\ UNCHANGED <<listVars, evt_mtp, prodVars, workVars, arbVars, done>>

(* lock_guard el(evt_mtp_); notify_all.                                    *)
NotifyAll ==
    /\ dtorPc = "notify"
    /\ evt_mtp = None
    /\ dtorPc' = "join_arbiter"
    /\ UNCHANGED <<listVars, evt_mtp, prodVars, workVars, arbVars, termination, done>>

JoinArbiter ==
    /\ dtorPc = "join_arbiter"
    /\ arbPc = "exited"
    /\ dtorPc' = "clear"
    /\ UNCHANGED <<listVars, evt_mtp, prodVars, workVars, arbVars, termination, done>>

(* processors_.clear(): one ~worker after another, terminate and join.     *)
ClearWorker(w) ==
    /\ dtorPc = "clear"
    /\ w \in processors
    /\ workPc[w] = "exited"
    /\ Free(w)
    /\ UNCHANGED <<listVars, evt_mtp, prodVars, hand, arbPc, jobs_in_q, spawned, victim,
                   dtorVars, done>>

(* Faulty variant: the workers are not waited for.                         *)
DestroyAtOnce ==
    /\ dtorPc = "clear"
    /\ hp_jobs' = <<>> /\ jobs' = <<>> /\ size_approx' = 0
    /\ dtorPc' = "destroyed"
    /\ UNCHANGED <<evt_mtp, prodVars, workVars, arbVars, termination, done>>

(* The members are destroyed, jobs still in the lists with them.           *)
Destroy ==
    /\ dtorPc = "clear"
    /\ processors = {}
    /\ hp_jobs' = <<>> /\ jobs' = <<>> /\ size_approx' = 0
    /\ dtorPc' = "destroyed"
    /\ UNCHANGED <<evt_mtp, prodVars, workVars, arbVars, termination, done>>

--------------------------------------------------------------------------------
Produce(p) == (\E j \in Jobs : Call(p, j)) \/ Admit(p) \/ Push(p)

Work(w) == \/ EnterFetch(w) \/ Exit(w) \/ Lock(w) \/ LockForProcessing(w)
           \/ Take(w) \/ FindNothing(w) \/ Wake(w) \/ BecomeBusy(w) \/ Finish(w)

Arbitrate == \/ Sample \/ ArbiterExit \/ SkipSpawn \/ SpawnFails \/ Construct
             \/ SkipKill \/ Erase \/ Join \/ Rest
             \/ \E w \in Workers : Spawn(w) \/ Doom(w)

Destruct == \/ Terminate \/ NotifyAll \/ JoinArbiter \/ Destroy
            \/ \E w \in Workers : ClearWorker(w)

(* Once the destructor has returned there is no queue to act on.           *)
Destroyed == dtorPc = "destroyed" /\ UNCHANGED vars

Next == \/ \E p \in Producers : Produce(p)
        \/ \E w \in Workers : Work(w)
        \/ Arbitrate
        \/ Destruct
        \/ Destroyed

Spec == Init /\ [][Next]_vars

(* Every wait is timed and every sleep ends, so each thread keeps running; *)
(* a thread that asks for evt_mtp_ again and again gets it in the end; a   *)
(* job's function ends; creating the first thread does not fail for ever.  *)
(* Nothing obliges anybody to call add_job or to destroy the queue.        *)
Fairness ==
    /\ \A p \in Producers : WF_vars(Admit(p)) /\ SF_vars(Push(p))
    /\ \A w \in Workers : WF_vars(Work(w)) /\ SF_vars(Lock(w) \/ Wake(w))
    /\ WF_vars(Arbitrate) /\ SF_vars(processors = {} /\ \E w \in Workers : Spawn(w))
    /\ SF_vars(NotifyAll)
    /\ WF_vars(JoinArbiter \/ Destroy \/ \E w \in Workers : ClearWorker(w))

FairSpec == Spec /\ Fairness

--------------------------------------------------------------------------------
(* Properties.                                                             *)

(* The queue behaves as the abstract pool: no accepted job is lost, run    *)
(* twice or overtaken by a later one of its line, an urgent job goes       *)
(* first, at most MaxThreads jobs are in hand, whatever workers the        *)
(* arbiter spawns and kills meanwhile, and no job is in hand when the      *)
(* destructor returns.                                                     *)
Pool == INSTANCE JobPool WITH
            running <- InHand,
            closed  <- dtorPc = "destroyed"

PoolSpec == Pool!Spec

(* add_job reads size_approx_ without the lock: the queue may pass         *)
(* max_queue_len_, but by no more than one job for each other producer.    *)
QueueBound == Len(hp_jobs) + Len(jobs) <= MaxLen + Cardinality(Producers) - 1

(* The threads alive, the one being built and the one being joined         *)
(* included, are never more than max_threads_.                             *)
Alive == {w \in Workers : workPc[w] # "none"}
ThreadBound == Cardinality(Alive) <= MaxThreads

(* From prepare_for_stopping to the end of its join.                       *)
BeingErased(w) == arbPc \in {"erase", "join"} /\ victim = w

(* prepare_for_stopping and lock_for_processing exclude each other: once a *)
(* worker is doomed it takes no further job (so that joining it waits for  *)
(* one job at most), even if it was on its way into fetch_job.             *)
DoomedTakesNothing ==
    [][\A w \in Workers : BeingErased(w) => hand'[w] \in {hand[w], None}]_vars

(* The destructor returns only when no thread of the queue is left and     *)
(* nobody holds or waits for its mutex: its members can be freed.          *)
QuietAfterDestroy ==
    dtorPc = "destroyed" =>
        /\ Alive = {} /\ InHand = {} /\ processors = {}
        /\ arbPc = "exited"
        /\ evt_mtp = None

(* An accepted job is run in the end, whatever the arbiter does to the     *)
(* workers, unless the queue is destroyed first.                           *)
AcceptedJobRuns ==
    \A j \in Jobs : (j \in Elements(hp_jobs) \cup Elements(jobs)) ~> (j \in done \/ termination)

(* A producer facing a full queue gets its job in.                         *)
BlockedProducerProceeds == \A p \in Producers : (prodPc[p] # "idle") ~> (prodPc[p] = "idle")

(* The destructor returns: its joins and the arbiter's own never wait for  *)
(* each other.                                                             *)
DestructorReturns == (dtorPc # "alive") ~> (dtorPc = "destroyed")
================================================================================
