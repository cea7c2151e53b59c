----------------------------- MODULE DeferredQueue -----------------------------
(***************************************************************************)
(* lins::deferred_command_queue (src/support/command_queue.cpp): jobs that *)
(* run at a given time, in a map from fire times to jobs, and the threads  *)
(* that wait for the first of them.  Time is a number of ticks of 5 ms,    *)
(* the tolerance of fetch_job; it passes between any two steps, also       *)
(* between the two readings of the clock in fetch_job.                     *)
(***************************************************************************)
EXTENDS Integers, FiniteSets

CONSTANTS
    Timers,      (* jobs, each added once, by a thread of its own          *)
    Processors,  (* thrd_cnt threads                                       *)
    MaxLen,      (* max_len_                                               *)
    Horizon,     (* bound: the clock stops here                            *)
    FireTimes    (* bound: the times jobs are given                        *)

Nobody == "nobody"
NoTimer == "no job"

ASSUME DeferredQueueConstants ==
    /\ MaxLen \in Nat \ {0} /\ Horizon \in Nat
    /\ FireTimes \subseteq 0..Horizon
    /\ Nobody \notin Processors /\ NoTimer \notin Timers

VARIABLES
    clock,       (* gmtnow()                                               *)
    dqJobs,      (* jobs_: the set of its entries                          *)
    approxSize,  (* approx_size_                                           *)
    dqTerm,      (* terminable's flag                                      *)
    dqLock,      (* who holds evt_mtp_                                     *)
    adderPc,     (* out, admitted (size tested), added, overwritten        *)
    procPc,      (* processors: idle, check, wait, sleepy, asleep, run,    *)
                 (* over                                                *)
    inHand,      (* the job a processor runs                               *)
    wakeAt,      (* when the wait of a processor times out                 *)
    destructorPc,(* none, notify, join, gone                               *)
    fired        (* history: the jobs that have been run                   *)

jobsVars == <<dqJobs, approxSize>>
procVars == <<procPc, inHand, wakeAt>>
dqVars == <<clock, jobsVars, dqTerm, dqLock, adderPc, procVars, destructorPc, fired>>

Never == -1                                 (* a wait without end          *)
DefaultWait == 40                           (* 200 ms                      *)
Entries == [at : FireTimes, job : Timers]

DqTypeOK ==
    /\ clock \in 0..Horizon
    /\ dqJobs \subseteq Entries /\ approxSize \in Nat
    /\ dqTerm \in BOOLEAN
    /\ dqLock \in Processors \cup {Nobody}
    /\ adderPc \in [Timers -> {"out", "admitted", "added", "overwritten"}]
    /\ procPc \in [Processors -> {"idle", "check", "wait", "sleepy", "asleep", "run", "over"}]
    /\ inHand \in [Processors -> Timers \cup {NoTimer}]
    /\ wakeAt \in [Processors -> Int]
    /\ destructorPc \in {"none", "notify", "join", "gone"}
    /\ fired \subseteq Timers

DqInit ==
    /\ clock = 0
    /\ dqJobs = {} /\ approxSize = 0
    /\ dqTerm = FALSE /\ dqLock = Nobody
    /\ adderPc = [j \in Timers |-> "out"]
    /\ procPc = [p \in Processors |-> "idle"]
    /\ inHand = [p \in Processors |-> NoTimer]
    /\ wakeAt = [p \in Processors |-> 0]
    /\ destructorPc = "none"
    /\ fired = {}

(* jobs_.begin().                                                          *)
IsFirst(e) == e \in dqJobs /\ \A f \in dqJobs : e.at <= f.at

Pass ==
    /\ clock < Horizon
    /\ clock' = clock + 1
    /\ UNCHANGED <<jobsVars, dqTerm, dqLock, adderPc, procVars, destructorPc, fired>>

(* notify_all: those that wait in the condition variable wake up.          *)
NotifyAllProcessors ==
    procPc' = [p \in Processors |-> IF procPc[p] = "asleep" THEN "idle" ELSE procPc[p]]

--------------------------------------------------------------------------------
(* add_job_timeout, add_job_gmt_fire_time.                                 *)

(* The size is tested without the lock.  Nobody adds to a queue that is    *)
(* being destroyed.                                                        *)
TestLength(j) ==
    /\ adderPc[j] = "out" /\ approxSize < MaxLen /\ destructorPc = "none"
    /\ adderPc' = [adderPc EXCEPT ![j] = "admitted"]
    /\ UNCHANGED <<clock, jobsVars, dqTerm, dqLock, procVars, destructorPc, fired>>

(* Faulty variant: the processors are not told.                            *)
AddJobSilently(j, at) ==
    /\ adderPc[j] = "admitted" /\ dqLock = Nobody
    /\ dqJobs' = {e \in dqJobs : e.at # at} \cup {[at |-> at, job |-> j]}
    /\ approxSize' = Cardinality(dqJobs')
    /\ adderPc' = [k \in Timers |-> IF k = j THEN "added"
                                    ELSE IF [at |-> at, job |-> k] \in dqJobs THEN "overwritten"
                                    ELSE adderPc[k]]
    /\ UNCHANGED <<clock, dqTerm, dqLock, procVars, destructorPc, fired>>

(* A job with the fire time of another one takes its place.  The time may  *)
(* have passed already.                                                    *)
AddJob(j, at) ==
    /\ adderPc[j] = "admitted" /\ dqLock = Nobody
    /\ dqJobs' = {e \in dqJobs : e.at # at} \cup {[at |-> at, job |-> j]}
    /\ approxSize' = Cardinality(dqJobs')
    /\ adderPc' = [k \in Timers |-> IF k = j THEN "added"
                                    ELSE IF [at |-> at, job |-> k] \in dqJobs THEN "overwritten"
                                    ELSE adderPc[k]]
    /\ NotifyAllProcessors
    /\ UNCHANGED <<clock, dqTerm, dqLock, inHand, wakeAt, destructorPc, fired>>

--------------------------------------------------------------------------------
(* The processors: the loop of the constructor and fetch_job.              *)

MoveProcessor(p, from, to) == procPc[p] = from /\ procPc' = [procPc EXCEPT ![p] = to]

(* To the test of fetch_job, with the lock, first or again after a wait.   *)
EnterLoop(p) ==
    /\ dqLock = Nobody
    /\ IF dqTerm
       THEN MoveProcessor(p, "idle", "over") /\ UNCHANGED dqLock
       ELSE MoveProcessor(p, "idle", "check") /\ dqLock' = p
    /\ UNCHANGED <<clock, jobsVars, dqTerm, adderPc, inHand, wakeAt, destructorPc, fired>>

(* Faulty variant: the entry stays in the map.                             *)
CheckFirstAgain(p) ==
    /\ \/ \E e \in dqJobs :
             /\ IsFirst(e) /\ clock + 1 >= e.at
             /\ MoveProcessor(p, "check", "run")
             /\ inHand' = [inHand EXCEPT ![p] = e.job]
             /\ dqLock' = Nobody
       \/ /\ \A e \in dqJobs : clock + 1 < e.at
          /\ MoveProcessor(p, "check", "wait")
          /\ UNCHANGED <<inHand, dqLock>>
    /\ UNCHANGED <<clock, jobsVars, dqTerm, adderPc, wakeAt, destructorPc, fired>>

(* The first job runs when its time has come, up to one tick early.        *)
CheckFirst(p) ==
    /\ \/ \E e \in dqJobs :
             /\ IsFirst(e) /\ clock + 1 >= e.at
             /\ MoveProcessor(p, "check", "run")
             /\ inHand' = [inHand EXCEPT ![p] = e.job]
             /\ dqJobs' = dqJobs \ {e}
             /\ approxSize' = Cardinality(dqJobs')
             /\ dqLock' = Nobody
       \/ /\ \A e \in dqJobs : clock + 1 < e.at
          /\ MoveProcessor(p, "check", "wait")
          /\ UNCHANGED <<jobsVars, inHand, dqLock>>
    /\ UNCHANGED <<clock, dqTerm, adderPc, wakeAt, destructorPc, fired>>

(* When the wait ends, computed from a second reading of the clock.  If    *)
(* the time of the first job has come in between, a negative number is     *)
(* converted to an unsigned one: the wait ends at once, or never.          *)
WaitEnds(t) ==
    \/ dqJobs = {} /\ t = clock + DefaultWait
    \/ \E e \in dqJobs : IsFirst(e) /\ t \in IF e.at >= clock THEN {e.at} ELSE {clock, Never}

ComputeWait(p) ==
    /\ procPc[p] = "wait"
    /\ \/ /\ dqTerm
          /\ MoveProcessor(p, "wait", "over")
          /\ dqLock' = Nobody
          /\ UNCHANGED wakeAt
       \/ /\ ~dqTerm
          /\ MoveProcessor(p, "wait", "sleepy")
          /\ \E t \in -1..Horizon + DefaultWait : WaitEnds(t) /\ wakeAt' = [wakeAt EXCEPT ![p] = t]
          /\ UNCHANGED dqLock
    /\ UNCHANGED <<clock, jobsVars, dqTerm, adderPc, inHand, destructorPc, fired>>

(* wait_for: the lock is released when the thread waits.                   *)
FallAsleep(p) ==
    /\ MoveProcessor(p, "sleepy", "asleep")
    /\ dqLock' = Nobody
    /\ UNCHANGED <<clock, jobsVars, dqTerm, adderPc, inHand, wakeAt, destructorPc, fired>>

(* A wait may also end before its time; time goes on after the Horizon.    *)
WakeUp(p) ==
    /\ MoveProcessor(p, "asleep", "idle")
    /\ UNCHANGED <<clock, jobsVars, dqTerm, dqLock, adderPc, inHand, wakeAt, destructorPc, fired>>

TimeOut(p) ==
    /\ wakeAt[p] # Never /\ (clock >= wakeAt[p] \/ clock = Horizon)
    /\ WakeUp(p)

RunJob(p) ==
    /\ MoveProcessor(p, "run", "idle")
    /\ fired' = fired \cup {inHand[p]}
    /\ inHand' = [inHand EXCEPT ![p] = NoTimer]
    /\ UNCHANGED <<clock, jobsVars, dqTerm, dqLock, adderPc, wakeAt, destructorPc>>

--------------------------------------------------------------------------------
(* ~deferred_command_queue.                                                *)

TerminateQueue ==
    /\ destructorPc = "none" /\ \A j \in Timers : adderPc[j] # "admitted"
    /\ dqTerm' = TRUE
    /\ destructorPc' = "notify"
    /\ UNCHANGED <<clock, jobsVars, dqLock, adderPc, procVars, fired>>

(* Faulty variant: the lock is not taken.                                  *)
NotifyUnlocked ==
    /\ destructorPc = "notify"
    /\ NotifyAllProcessors
    /\ destructorPc' = "join"
    /\ UNCHANGED <<clock, jobsVars, dqTerm, dqLock, adderPc, inHand, wakeAt, fired>>

NotifyEnd ==
    /\ destructorPc = "notify" /\ dqLock = Nobody
    /\ NotifyAllProcessors
    /\ destructorPc' = "join"
    /\ UNCHANGED <<clock, jobsVars, dqTerm, dqLock, adderPc, inHand, wakeAt, fired>>

JoinProcessors ==
    /\ destructorPc = "join" /\ \A p \in Processors : procPc[p] = "over"
    /\ destructorPc' = "gone"
    /\ UNCHANGED <<clock, jobsVars, dqTerm, dqLock, adderPc, procVars, fired>>

ProcessorStep(p) == \/ EnterLoop(p) \/ CheckFirst(p) \/ ComputeWait(p) \/ FallAsleep(p)
                    \/ TimeOut(p) \/ RunJob(p)

DestructorStep == NotifyEnd \/ JoinProcessors

DqNext ==
    \/ Pass
    \/ \E j \in Timers : TestLength(j) \/ \E at \in FireTimes : AddJob(j, at)
    \/ \E p \in Processors : ProcessorStep(p) \/ WakeUp(p)
    \/ TerminateQueue \/ DestructorStep

DqSpec == DqInit /\ [][DqNext]_dqVars

--------------------------------------------------------------------------------
(* Properties.                                                             *)

(* Where the jobs are that were added and not overwritten.                 *)
Pending == {e.job : e \in dqJobs}
Running == {inHand[p] : p \in Processors} \ {NoTimer}

(* A job that was added is in exactly one place - in the map, with one     *)
(* processor, or run - unless another one took its fire time: none is run  *)
(* twice or lost by processors that race for the first entry.              *)
JobsAccounted ==
    /\ \A e, f \in dqJobs : e.job = f.job => e = f
    /\ \A p, q \in Processors : inHand[p] = inHand[q] /\ inHand[p] # NoTimer => p = q
    /\ Pending \cap Running = {} /\ Pending \cap fired = {} /\ Running \cap fired = {}
    /\ Pending \cup Running \cup fired = {j \in Timers : adderPc[j] = "added"}

(* No processor oversleeps: however adders, processors and the clock       *)
(* interleave, it wakes up when the first job's time comes, unless its     *)
(* wait was negative; a job that comes late is run at the next wake-up.    *)
WakesInTime ==
    \A p \in Processors :
        procPc[p] = "asleep" /\ wakeAt[p] # Never =>
            \A e \in dqJobs : wakeAt[p] <= e.at \/ wakeAt[p] <= clock

(* The destructor's notification reaches every processor, even one that    *)
(* was about to wait, perhaps without end, when the flag was set: nobody   *)
(* it joins sleeps, so the destructor returns once the jobs in hand do.    *)
NoSleeperJoined ==
    destructorPc \in {"join", "gone"} => \A p \in Processors : procPc[p] \notin {"sleepy", "asleep"}
================================================================================
