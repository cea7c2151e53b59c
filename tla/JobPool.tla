-------------------------------- MODULE JobPool --------------------------------
(***************************************************************************)
(* What lins::command_queue (src/support/command_queue.hpp) promises its   *)
(* callers, without its threads, locks and flags: accepted jobs wait in    *)
(* two lines, the urgent line is always served first, each line is first   *)
(* come first served, at most MaxThreads jobs run at a time, and closing   *)
(* the pool waits for the running jobs and drops the waiting ones.         *)
(* CommandQueue is shown to implement this module.                         *)
(***************************************************************************)
EXTENDS Naturals, Sequences, FiniteSets

CONSTANTS Jobs,       (* the jobs the callers may submit          *)
          Urgent,     (* those submitted through add_job_urgent   *)
          MaxThreads  (* max_threads_                             *)

VARIABLES hp_jobs,    (* accepted urgent jobs, oldest first       *)
          jobs,       (* accepted ordinary jobs, oldest first     *)
          running,    (* jobs a thread has in hand                *)
          done,       (* jobs that ran to their end               *)
          closed      (* the destructor has returned              *)

vars == <<hp_jobs, jobs, running, done, closed>>

Seen == {hp_jobs[i] : i \in 1..Len(hp_jobs)} \cup {jobs[i] : i \in 1..Len(jobs)}
          \cup running \cup done

Init == /\ hp_jobs = <<>>
        /\ jobs = <<>>
        /\ running = {}
        /\ done = {}
        /\ closed = FALSE

(* add_job, add_job_urgent: a job is accepted once.                        *)
Accept(j) == /\ ~closed
             /\ j \notin Seen
             /\ IF j \in Urgent
                THEN hp_jobs' = Append(hp_jobs, j) /\ jobs' = jobs
                ELSE jobs' = Append(jobs, j) /\ hp_jobs' = hp_jobs
             /\ UNCHANGED <<running, done, closed>>

(* fetch_job: the urgent line first, and the oldest job of the line.       *)
Start == /\ ~closed
         /\ Cardinality(running) < MaxThreads
         /\ \/ /\ hp_jobs # <<>>
               /\ running' = running \cup {Head(hp_jobs)}
               /\ hp_jobs' = Tail(hp_jobs)
               /\ jobs' = jobs
            \/ /\ hp_jobs = <<>>
               /\ jobs # <<>>
               /\ running' = running \cup {Head(jobs)}
               /\ jobs' = Tail(jobs)
               /\ hp_jobs' = hp_jobs
         /\ UNCHANGED <<done, closed>>

(* The job's function returned or threw.                                   *)
Finish(j) == /\ j \in running
             /\ running' = running \ {j}
             /\ done' = done \cup {j}
             /\ UNCHANGED <<hp_jobs, jobs, closed>>

(* ~command_queue returns: nothing runs any more, what waited is dropped.  *)
Close == /\ ~closed
         /\ running = {}
         /\ closed' = TRUE
         /\ hp_jobs' = <<>>
         /\ jobs' = <<>>
         /\ UNCHANGED <<running, done>>

Next == \/ \E j \in Jobs : Accept(j) \/ Finish(j)
        \/ Start
        \/ Close

Spec == Init /\ [][Next]_vars
================================================================================
