-------------------------- MODULE CommandQueueProofs --------------------------
(***************************************************************************)
(* Proofs about CommandQueue, for any producers, workers, jobs and bounds. *)
(* Inv is the inductive invariant: what each lock, flag and list says      *)
(* about the places the threads are in.  Its parts are proved to be kept   *)
(* by each thread in turn: a producer's step, a worker's, the arbiter's,   *)
(* the destructor's.  The second part adds that a job is in one place at a *)
(* time (RInv) and shows that CommandQueue implements JobPool.             *)
(***************************************************************************)
EXTENDS CommandQueue, FiniteSetTheorems, TLAPS

Building(w) == arbPc = "construct" /\ victim = w

(* Only the worker that holds evt_mtp_ is in its critical section.         *)
MutexInv ==
    \A w \in Workers : workPc[w] \in {"locked", "armed"} <=> evt_mtp = w

(* A thread exists only for a worker of the list or for the one that is    *)
(* being built.                                                            *)
PoolInv ==
    \A w \in Workers : workPc[w] # "none" <=> w \in processors \/ Building(w)

(* What victim is, in each place of the arbiter.                           *)
VictimInv ==
    /\ arbPc = "construct" => /\ victim \in Workers \ processors
                              /\ Cardinality(processors) < MaxThreads
    /\ arbPc \in {"erase", "join"} => victim \in processors /\ work_or_stop[victim] = 1
    /\ Cardinality(processors) <= MaxThreads

(* A worker with the mutex and its flag armed cannot be doomed: the flag   *)
(* is -1, or, when the constructor reset it behind the worker's back, the  *)
(* worker has not worked yet and the arbiter leaves it alone.              *)
FlagInv ==
    \A w \in Workers :
        /\ workPc[w] = "armed" => work_or_stop[w] # 1
        /\ workPc[w] = "armed" /\ w \in processors /\ has_worked[w] => work_or_stop[w] = -1

(* A worker has a job in hand from fetch_job's return to the job's end; a  *)
(* producer has one for the length of its call.                            *)
HandInv ==
    /\ \A w \in Workers : hand[w] # None <=> workPc[w] \in {"got", "run"}
    /\ \A p \in Producers : prodJob[p] # None <=> prodPc[p] # "idle"

(* size_approx_ is exact whenever the mutex is free, and in this model     *)
(* each change of the lists includes its update.                           *)
SizeInv == size_approx = Len(hp_jobs) + Len(jobs)

Pushing == {p \in Producers : prodPc[p] = "push"}

(* Each producer that has passed the length test already has its place.    *)
RoomInv ==
    Len(hp_jobs) + Len(jobs) + Cardinality(Pushing) <= MaxLen + Cardinality(Producers) - 1

(* The order of the destructor.                                            *)
DtorInv ==
    /\ dtorPc # "alive" => termination /\ \A p \in Producers : prodPc[p] = "idle"
    /\ dtorPc \in {"clear", "destroyed"} => arbPc = "exited"
    /\ arbPc = "exited" => termination
    /\ dtorPc = "destroyed" => processors = {}

Inv == /\ TypeOK /\ MutexInv /\ PoolInv /\ VictimInv /\ FlagInv
       /\ HandInv /\ SizeInv /\ RoomInv /\ DtorInv

--------------------------------------------------------------------------------
(* What the lists and the sets of threads are, in the form the steps use.  *)

LEMMA PoppedSeq ==
    ASSUME NEW s \in Seq(Jobs), s # <<>>
    PROVE  Head(s) \in Jobs /\ Head(s) # None /\ Tail(s) \in Seq(Jobs) /\ Len(Tail(s)) = Len(s) - 1
BY ConstantsAssumption

LEMMA GrownSeq ==
    ASSUME NEW s \in Seq(Jobs), NEW j \in Jobs
    PROVE  Append(s, j) \in Seq(Jobs) /\ Len(Append(s, j)) = Len(s) + 1 /\ Len(s) \in Nat
OBVIOUS

LEMMA CardinalityTypes ==
    /\ Cardinality(Producers) \in Nat
    /\ IsFiniteSet(Pushing) /\ Cardinality(Pushing) \in Nat
    /\ TypeOK => IsFiniteSet(processors) /\ Cardinality(processors) \in Nat
<1>1. Cardinality(Producers) \in Nat  BY ConstantsAssumption, FS_CardinalityType
<1>2. Pushing \in SUBSET Producers  BY DEF Pushing
<1>3. IsFiniteSet(Pushing) /\ Cardinality(Pushing) \in Nat
  BY <1>2, ConstantsAssumption, FS_Subset, FS_CardinalityType
<1>4. ASSUME TypeOK PROVE IsFiniteSet(processors) /\ Cardinality(processors) \in Nat
  <2>1. processors \in SUBSET Workers  BY <1>4 DEF TypeOK
  <2> QED  BY <2>1, ConstantsAssumption, FS_Subset, FS_CardinalityType
<1> QED  BY <1>1, <1>3, <1>4

(* A step that leaves the lists and the producers' places alone, or only   *)
(* shortens the lists, keeps RoomInv.                                      *)
LEMMA RoomKept ==
    ASSUME TypeOK, TypeOK', RoomInv, prodPc' = prodPc,
           Len(hp_jobs') + Len(jobs') <= Len(hp_jobs) + Len(jobs)
    PROVE  RoomInv'
<1>1. Pushing' = Pushing  BY DEF Pushing
<1>2. Len(hp_jobs) + Len(jobs) \in Nat /\ Len(hp_jobs') + Len(jobs') \in Nat  BY DEF TypeOK
<1> QED  BY <1>1, <1>2, CardinalityTypes, ConstantsAssumption DEF RoomInv

LEMMA InitInv == Init => Inv
<1> SUFFICES ASSUME Init PROVE Inv  OBVIOUS
<1> USE ConstantsAssumption DEF Init
<1>1. TypeOK
  <2>1. hp_jobs \in Seq(Jobs) /\ jobs \in Seq(Jobs)  OBVIOUS
  <2> QED  BY <2>1 DEF TypeOK
<1>2. MutexInv /\ PoolInv /\ FlagInv /\ HandInv /\ DtorInv
  BY DEF MutexInv, PoolInv, Building, FlagInv, HandInv, DtorInv
<1>3. VictimInv  BY FS_EmptySet DEF VictimInv
<1>4. SizeInv  BY DEF SizeInv
<1>5. RoomInv
  <2>1. Pushing = {}  BY DEF Pushing
  <2> QED  BY <2>1, CardinalityTypes, FS_EmptySet DEF RoomInv
<1> QED  BY <1>1, <1>2, <1>3, <1>4, <1>5 DEF Inv

--------------------------------------------------------------------------------
(* A producer's step.                                                      *)
LEMMA ProduceInv ==
    ASSUME Inv, NEW p \in Producers, Produce(p)
    PROVE  Inv'
<1> USE DEF Inv, listVars, workVars, flagVars, arbVars, dtorVars
<1>1. ASSUME NEW j \in Jobs, Call(p, j) PROVE Inv'
  <2> USE <1>1 DEF Call
  <2>1. TypeOK'  BY DEF TypeOK
  <2>2. MutexInv' /\ PoolInv' /\ VictimInv' /\ FlagInv' /\ SizeInv'
    BY DEF MutexInv, PoolInv, Building, VictimInv, FlagInv, SizeInv
  <2>3. HandInv' /\ DtorInv'  BY ConstantsAssumption DEF HandInv, DtorInv, TypeOK
  <2>4. RoomInv'
    <3>1. Pushing' = Pushing  BY DEF Pushing, TypeOK
    <3> QED  BY <3>1 DEF RoomInv
  <2> QED  BY <2>1, <2>2, <2>3, <2>4
<1>2. ASSUME Admit(p) PROVE Inv'
  <2> USE <1>2 DEF Admit
  <2>1. TypeOK'  BY DEF TypeOK
  <2>2. MutexInv' /\ PoolInv' /\ VictimInv' /\ FlagInv' /\ SizeInv'
    BY DEF MutexInv, PoolInv, Building, VictimInv, FlagInv, SizeInv
  <2>3. HandInv' /\ DtorInv'  BY DEF HandInv, DtorInv, TypeOK
  <2>4. RoomInv'
    <3>1. Pushing' = Pushing \cup {p} /\ p \notin Pushing  BY DEF Pushing, TypeOK
    <3>2. Cardinality(Pushing') = Cardinality(Pushing) + 1
      BY <3>1, CardinalityTypes, FS_AddElement
    <3>3. Pushing' \in SUBSET Producers  BY DEF Pushing, TypeOK
    <3>4. Cardinality(Pushing') <= Cardinality(Producers)
      BY <3>3, ConstantsAssumption, FS_Subset
    <3>5. Len(hp_jobs) + Len(jobs) < MaxLen  BY DEF SizeInv
    <3>6. Len(hp_jobs) + Len(jobs) \in Nat  BY DEF TypeOK
    <3> HIDE DEF Pushing
    <3> QED  BY <3>2, <3>4, <3>5, <3>6, CardinalityTypes, ConstantsAssumption DEF RoomInv
  <2> QED  BY <2>1, <2>2, <2>3, <2>4
<1>3. ASSUME Push(p) PROVE Inv'
  <2> USE <1>3 DEF Push
  <2>1. prodJob[p] \in Jobs  BY DEF HandInv, TypeOK
  <2>2. /\ hp_jobs' \in Seq(Jobs) /\ jobs' \in Seq(Jobs)
        /\ Len(hp_jobs') + Len(jobs') = Len(hp_jobs) + Len(jobs) + 1
    <3>1. PICK j \in Jobs : j = prodJob[p]  BY <2>1
    <3>2. hp_jobs \in Seq(Jobs) /\ jobs \in Seq(Jobs)  BY DEF TypeOK
    <3>3. CASE hp_jobs' = Append(hp_jobs, j) /\ jobs' = jobs
      BY <3>2, <3>3, GrownSeq
    <3>4. CASE jobs' = Append(jobs, j) /\ hp_jobs' = hp_jobs
      BY <3>2, <3>4, GrownSeq
    <3> QED  BY <3>1, <3>3, <3>4
  <2>3. TypeOK'  BY <2>2 DEF TypeOK
  <2>4. MutexInv' /\ PoolInv' /\ VictimInv' /\ FlagInv' /\ SizeInv'
    BY DEF MutexInv, PoolInv, Building, VictimInv, FlagInv, SizeInv
  <2>5. HandInv' /\ DtorInv'  BY DEF HandInv, DtorInv, TypeOK
  <2>6. RoomInv'
    <3>1. Pushing' = Pushing \ {p} /\ p \in Pushing  BY DEF Pushing, TypeOK
    <3>2. Cardinality(Pushing') = Cardinality(Pushing) - 1
      BY <3>1, CardinalityTypes, FS_RemoveElement
    <3>3. Len(hp_jobs) + Len(jobs) \in Nat  BY DEF TypeOK
    <3> QED  BY <2>2, <3>2, <3>3, CardinalityTypes, ConstantsAssumption DEF RoomInv
  <2> QED  BY <2>3, <2>4, <2>5, <2>6
<1> QED  BY <1>1, <1>2, <1>3 DEF Produce

--------------------------------------------------------------------------------
(* A worker's step.  The lists change in Take alone, so RoomKept serves    *)
(* every action.                                                           *)
LEMMA WorkInv ==
    ASSUME Inv, NEW w \in Workers, Work(w)
    PROVE  Inv'
<1> USE DEF Inv, listVars, prodVars, flagVars, arbVars, dtorVars
<1>0. Len(hp_jobs) \in Nat /\ Len(jobs) \in Nat  BY DEF TypeOK
<1>1. ASSUME EnterFetch(w) PROVE Inv'
  <2> USE <1>1 DEF EnterFetch
  <2>1. TypeOK'  BY DEF TypeOK
  <2>2. MutexInv' /\ PoolInv' /\ VictimInv'
    BY DEF MutexInv, PoolInv, Building, VictimInv, TypeOK
  <2>3. FlagInv' /\ HandInv' /\ SizeInv' /\ DtorInv'
    BY DEF FlagInv, HandInv, SizeInv, DtorInv, TypeOK
  <2> QED  BY <1>0, <2>1, <2>2, <2>3, RoomKept
<1>2. ASSUME Exit(w) PROVE Inv'
  <2> USE <1>2 DEF Exit
  <2>1. TypeOK'  BY DEF TypeOK
  <2>2. MutexInv' /\ PoolInv' /\ VictimInv'
    BY DEF MutexInv, PoolInv, Building, VictimInv, TypeOK
  <2>3. FlagInv' /\ HandInv' /\ SizeInv' /\ DtorInv'
    BY DEF FlagInv, HandInv, SizeInv, DtorInv, TypeOK
  <2> QED  BY <1>0, <2>1, <2>2, <2>3, RoomKept
<1>3. ASSUME Lock(w) PROVE Inv'
  <2> USE <1>3 DEF Lock
  <2>1. TypeOK'  BY DEF TypeOK
  <2>2. MutexInv'  BY ConstantsAssumption DEF MutexInv, TypeOK
  <2>3. PoolInv' /\ VictimInv'  BY DEF PoolInv, Building, VictimInv, TypeOK
  <2>4. FlagInv' /\ HandInv' /\ SizeInv' /\ DtorInv'
    BY DEF FlagInv, HandInv, SizeInv, DtorInv, TypeOK
  <2> QED  BY <1>0, <2>1, <2>2, <2>3, <2>4, RoomKept
<1>4. ASSUME LockForProcessing(w) PROVE Inv'
  <2> USE <1>4 DEF LockForProcessing
  <2>1. TypeOK'  BY DEF TypeOK
  <2>2. MutexInv'  BY ConstantsAssumption DEF MutexInv, TypeOK
  <2>3. PoolInv'  BY DEF PoolInv, Building, TypeOK
  <2>4. VictimInv'  BY DEF VictimInv, TypeOK
  <2>5. FlagInv'  BY DEF FlagInv, TypeOK
  <2>6. HandInv' /\ SizeInv' /\ DtorInv'  BY DEF HandInv, SizeInv, DtorInv, TypeOK
  <2> QED  BY <1>0, <2>1, <2>2, <2>3, <2>4, <2>5, <2>6, RoomKept
<1>5. ASSUME Take(w) PROVE Inv'
  <2> USE <1>5 DEF Take, UnlockForStop
  <2>0. hp_jobs \in Seq(Jobs) /\ jobs \in Seq(Jobs)  BY DEF TypeOK
  <2>1. /\ \E j \in Jobs : hand' = [hand EXCEPT ![w] = j]
        /\ hp_jobs' \in Seq(Jobs) /\ jobs' \in Seq(Jobs)
        /\ Len(hp_jobs') + Len(jobs') = Len(hp_jobs) + Len(jobs) - 1
    <3>1. CASE hp_jobs # <<>>
      <4>1. hand' = [hand EXCEPT ![w] = Head(hp_jobs)] /\ hp_jobs' = Tail(hp_jobs) /\ jobs' = jobs
        BY <3>1
      <4>2. /\ Head(hp_jobs) \in Jobs /\ Tail(hp_jobs) \in Seq(Jobs)
            /\ Len(Tail(hp_jobs)) = Len(hp_jobs) - 1
        BY <2>0, <3>1, PoppedSeq
      <4>3. Len(hp_jobs') = Len(hp_jobs) - 1 /\ Len(jobs') = Len(jobs)  BY <4>1, <4>2
      <4>4. \E j \in Jobs : hand' = [hand EXCEPT ![w] = j]  BY <4>1, <4>2
      <4>5. hp_jobs' \in Seq(Jobs) /\ jobs' \in Seq(Jobs)  BY <2>0, <4>1, <4>2
      <4>6. Len(hp_jobs') + Len(jobs') = Len(hp_jobs) + Len(jobs) - 1  BY <1>0, <4>3
      <4> QED  BY <4>4, <4>5, <4>6
    <3>2. CASE hp_jobs = <<>>
      <4>1. /\ hand' = [hand EXCEPT ![w] = Head(jobs)] /\ jobs # <<>>
            /\ jobs' = Tail(jobs) /\ hp_jobs' = hp_jobs
        BY <3>2
      <4> QED  BY <1>0, <2>0, <4>1, PoppedSeq
    <3> QED  BY <3>1, <3>2
  <2>2. hand'[w] \in Jobs /\ hand'[w] # None  BY <2>1, ConstantsAssumption DEF TypeOK
  <2>3. TypeOK'  BY <2>1 DEF TypeOK
  <2>4. MutexInv'  BY ConstantsAssumption DEF MutexInv, TypeOK
  <2>5. PoolInv'  BY DEF PoolInv, Building, TypeOK
  <2>6. VictimInv'  BY DEF VictimInv, TypeOK
  <2>7. FlagInv'  BY DEF FlagInv, TypeOK
  <2>8. HandInv'  BY <2>2, <2>1 DEF HandInv, TypeOK
  <2>9. SizeInv' /\ DtorInv'  BY DEF SizeInv, DtorInv
  <2> QED  BY <1>0, <2>1, <2>3, <2>4, <2>5, <2>6, <2>7, <2>8, <2>9, RoomKept
<1>6. ASSUME FindNothing(w) PROVE Inv'
  <2> USE <1>6 DEF FindNothing, UnlockForStop
  <2>1. TypeOK'  BY DEF TypeOK
  <2>2. MutexInv'  BY ConstantsAssumption DEF MutexInv, TypeOK
  <2>3. PoolInv'  BY DEF PoolInv, Building, TypeOK
  <2>4. VictimInv'  BY DEF VictimInv, TypeOK
  <2>5. FlagInv'  BY DEF FlagInv, TypeOK
  <2>6. HandInv' /\ SizeInv' /\ DtorInv'  BY DEF HandInv, SizeInv, DtorInv, TypeOK
  <2> QED  BY <1>0, <2>1, <2>2, <2>3, <2>4, <2>5, <2>6, RoomKept
<1>7. ASSUME Wake(w) PROVE Inv'
  <2> USE <1>7 DEF Wake
  <2>1. TypeOK'  BY DEF TypeOK
  <2>2. MutexInv'  BY ConstantsAssumption DEF MutexInv, TypeOK
  <2>3. PoolInv' /\ VictimInv'  BY DEF PoolInv, Building, VictimInv, TypeOK
  <2>4. FlagInv' /\ HandInv' /\ SizeInv' /\ DtorInv'
    BY DEF FlagInv, HandInv, SizeInv, DtorInv, TypeOK
  <2> QED  BY <1>0, <2>1, <2>2, <2>3, <2>4, RoomKept
<1>8. ASSUME BecomeBusy(w) PROVE Inv'
  <2> USE <1>8 DEF BecomeBusy
  <2>1. TypeOK'  BY DEF TypeOK
  <2>2. MutexInv' /\ PoolInv' /\ VictimInv'
    BY DEF MutexInv, PoolInv, Building, VictimInv, TypeOK
  <2>3. FlagInv' /\ HandInv' /\ SizeInv' /\ DtorInv'
    BY DEF FlagInv, HandInv, SizeInv, DtorInv, TypeOK
  <2> QED  BY <1>0, <2>1, <2>2, <2>3, RoomKept
<1>9. ASSUME Finish(w) PROVE Inv'
  <2> USE <1>9 DEF Finish
  <2>1. hand[w] \in Jobs  BY DEF HandInv, TypeOK
  <2>2. TypeOK'  BY <2>1 DEF TypeOK
  <2>3. MutexInv' /\ PoolInv' /\ VictimInv'
    BY DEF MutexInv, PoolInv, Building, VictimInv, TypeOK
  <2>4. FlagInv' /\ HandInv' /\ SizeInv' /\ DtorInv'
    BY DEF FlagInv, HandInv, SizeInv, DtorInv, TypeOK
  <2> QED  BY <1>0, <2>2, <2>3, <2>4, RoomKept
<1> QED  BY <1>1, <1>2, <1>3, <1>4, <1>5, <1>6, <1>7, <1>8, <1>9 DEF Work

--------------------------------------------------------------------------------
(* The arbiter's step.                                                     *)
LEMMA ArbitrateInv ==
    ASSUME Inv, Arbitrate
    PROVE  Inv'
<1> USE DEF Inv, listVars, prodVars, workVars, flagVars, dtorVars
<1>0. Len(hp_jobs) \in Nat /\ Len(jobs) \in Nat  BY DEF TypeOK
<1>1. ASSUME \/ Sample \/ ArbiterExit \/ SkipSpawn \/ SpawnFails \/ SkipKill \/ Rest
      PROVE  Inv'
  <2> USE <1>1 DEF Sample, ArbiterExit, SkipSpawn, SpawnFails, SkipKill, Rest, EndOfLocals
  <2>1. TypeOK'
    <3>1. /\ UNCHANGED <<listVars, evt_mtp, prodVars, workVars, processors, victim, dtorVars, done>>
          /\ arbPc' \in {"sample", "spawn", "kill", "rest", "exited"}
      OBVIOUS
    <3>2. jobs_in_q' \in {size_approx, jobs_in_q, 0} /\ spawned' \in {spawned, FALSE}
      OBVIOUS
    <3> HIDE <1>1
    <3>3. jobs_in_q' \in Nat  BY <3>2 DEF TypeOK
    <3>4. spawned' \in BOOLEAN  BY <3>2 DEF TypeOK
    <3> QED  BY <3>1, <3>3, <3>4 DEF TypeOK
  <2>2. MutexInv' /\ PoolInv' /\ VictimInv'  BY DEF MutexInv, PoolInv, Building, VictimInv
  <2>3. FlagInv' /\ HandInv' /\ SizeInv' /\ DtorInv'
    BY DEF FlagInv, HandInv, SizeInv, DtorInv
  <2> QED  BY <1>0, <2>1, <2>2, <2>3, RoomKept
<1>2. ASSUME NEW w \in Workers, Spawn(w) PROVE Inv'
  <2> USE <1>2 DEF Spawn, MaySpawn
  <2>1. TypeOK'
    <3>1. PICK f \in {-1, 0, 1} : work_or_stop' = [work_or_stop EXCEPT ![w] = f]  OBVIOUS
    <3> QED  BY <3>1 DEF TypeOK
  <2>2. workPc[w] = "none"  BY DEF PoolInv, Building
  <2>3. MutexInv' /\ PoolInv'  BY <2>2 DEF MutexInv, PoolInv, Building, TypeOK
  <2>4. VictimInv'  BY DEF VictimInv
  <2>5. FlagInv' /\ HandInv' /\ SizeInv' /\ DtorInv'
    BY <2>2 DEF FlagInv, HandInv, SizeInv, DtorInv, TypeOK
  <2> QED  BY <1>0, <2>1, <2>3, <2>4, <2>5, RoomKept
<1>3. ASSUME Construct PROVE Inv'
  <2> USE <1>3 DEF Construct
  <2>1. victim \in Workers /\ victim \notin processors  BY DEF VictimInv
  <2>2. TypeOK'  BY <2>1 DEF TypeOK
  <2>3. MutexInv' /\ PoolInv'  BY <2>1 DEF MutexInv, PoolInv, Building, TypeOK
  <2>4. VictimInv'
    <3>1. Cardinality(processors') = Cardinality(processors) + 1
      BY <2>1, CardinalityTypes, FS_AddElement
    <3> QED  BY <3>1, CardinalityTypes, ConstantsAssumption DEF VictimInv
  <2>5. FlagInv'  BY <2>1 DEF FlagInv, TypeOK
  <2>6. HandInv' /\ SizeInv' /\ DtorInv'  BY <2>1 DEF HandInv, SizeInv, DtorInv
  <2> QED  BY <1>0, <2>2, <2>3, <2>4, <2>5, <2>6, RoomKept
<1>4. ASSUME NEW w \in Workers, Doom(w) PROVE Inv'
  <2> USE <1>4 DEF Doom, EndOfLocals
  <2>1. TypeOK'  BY DEF TypeOK
  <2>2. MutexInv' /\ PoolInv' /\ VictimInv'
    BY DEF MutexInv, PoolInv, Building, VictimInv, TypeOK
  <2>3. workPc[w] # "armed"
    <3>1. has_worked[w]
      BY CardinalityTypes, ConstantsAssumption DEF VictimInv
    <3> QED  BY <3>1 DEF FlagInv
  <2>4. FlagInv'  BY <2>3 DEF FlagInv, TypeOK
  <2>5. HandInv' /\ SizeInv' /\ DtorInv'  BY DEF HandInv, SizeInv, DtorInv
  <2> QED  BY <1>0, <2>1, <2>2, <2>4, <2>5, RoomKept
<1>5. ASSUME Erase PROVE Inv'
  <2> USE <1>5 DEF Erase
  <2>1. TypeOK'  BY DEF TypeOK
  <2>2. MutexInv' /\ PoolInv' /\ VictimInv'  BY DEF MutexInv, PoolInv, Building, VictimInv
  <2>3. FlagInv' /\ HandInv' /\ SizeInv' /\ DtorInv'
    BY DEF FlagInv, HandInv, SizeInv, DtorInv
  <2> QED  BY <1>0, <2>1, <2>2, <2>3, RoomKept
<1>6. ASSUME Join PROVE Inv'
  <2> USE <1>6 DEF Join, Free
  <2>1. victim \in processors /\ victim \in Workers  BY DEF VictimInv, TypeOK
  <2>2. TypeOK'  BY DEF TypeOK
  <2>3. MutexInv' /\ PoolInv'  BY <2>1 DEF MutexInv, PoolInv, Building, TypeOK
  <2>4. VictimInv'
    <3>1. Cardinality(processors') = Cardinality(processors) - 1
      BY <2>1, CardinalityTypes, FS_RemoveElement
    <3> QED  BY <3>1, CardinalityTypes, ConstantsAssumption DEF VictimInv
  <2>5. FlagInv'  BY <2>1 DEF FlagInv, TypeOK
  <2>6. HandInv' /\ SizeInv' /\ DtorInv'  BY <2>1 DEF HandInv, SizeInv, DtorInv, TypeOK
  <2> QED  BY <1>0, <2>2, <2>3, <2>4, <2>5, <2>6, RoomKept
<1> QED  BY <1>1, <1>2, <1>3, <1>4, <1>5, <1>6 DEF Arbitrate

--------------------------------------------------------------------------------
(* The destructor's step.                                                  *)
LEMMA DestructInv ==
    ASSUME Inv, Destruct
    PROVE  Inv'
<1> USE DEF Inv, listVars, prodVars, workVars, flagVars, arbVars
<1>0. Len(hp_jobs) \in Nat /\ Len(jobs) \in Nat  BY DEF TypeOK
<1>1. ASSUME Terminate \/ NotifyAll \/ JoinArbiter PROVE Inv'
  <2> USE <1>1 DEF Terminate, NotifyAll, JoinArbiter
  <2>1. TypeOK'  BY DEF TypeOK
  <2>2. MutexInv' /\ PoolInv' /\ VictimInv'  BY DEF MutexInv, PoolInv, Building, VictimInv
  <2>3. FlagInv' /\ HandInv' /\ SizeInv'  BY DEF FlagInv, HandInv, SizeInv
  <2>4. DtorInv'  BY DEF DtorInv
  <2> QED  BY <1>0, <2>1, <2>2, <2>3, <2>4, RoomKept
<1>2. ASSUME Destroy PROVE Inv'
  <2> USE <1>2 DEF Destroy
  <2>1. Len(hp_jobs') = 0 /\ Len(jobs') = 0 /\ hp_jobs' \in Seq(Jobs) /\ jobs' \in Seq(Jobs)
    OBVIOUS
  <2>2. TypeOK'  BY <2>1 DEF TypeOK
  <2>3. MutexInv' /\ PoolInv' /\ VictimInv'  BY DEF MutexInv, PoolInv, Building, VictimInv
  <2>4. FlagInv' /\ HandInv' /\ DtorInv'  BY DEF FlagInv, HandInv, DtorInv
  <2>5. SizeInv'  BY <2>1 DEF SizeInv
  <2> QED  BY <1>0, <2>1, <2>2, <2>3, <2>4, <2>5, RoomKept
<1>3. ASSUME NEW w \in Workers, ClearWorker(w) PROVE Inv'
  <2> USE <1>3 DEF ClearWorker, Free, dtorVars
  <2>1. arbPc = "exited"  BY DEF DtorInv
  <2>2. TypeOK'  BY DEF TypeOK
  <2>3. MutexInv' /\ PoolInv'  BY <2>1 DEF MutexInv, PoolInv, Building, TypeOK
  <2>4. VictimInv'
    <3>1. Cardinality(processors') = Cardinality(processors) - 1
      BY CardinalityTypes, FS_RemoveElement
    <3> QED  BY <2>1, <3>1, CardinalityTypes, ConstantsAssumption DEF VictimInv
  <2>5. FlagInv'  BY DEF FlagInv, TypeOK
  <2>6. HandInv' /\ SizeInv' /\ DtorInv'  BY DEF HandInv, SizeInv, DtorInv, TypeOK
  <2> QED  BY <1>0, <2>2, <2>3, <2>4, <2>5, <2>6, RoomKept
<1> QED  BY <1>1, <1>2, <1>3 DEF Destruct

--------------------------------------------------------------------------------
LEMMA StepInv == Inv /\ [Next]_vars => Inv'
<1> SUFFICES ASSUME Inv, [Next]_vars PROVE Inv'  OBVIOUS
<1>1. CASE UNCHANGED vars
  <2>1. /\ TypeOK' /\ MutexInv' /\ PoolInv' /\ VictimInv' /\ FlagInv'
        /\ HandInv' /\ SizeInv' /\ DtorInv' /\ Pushing' = Pushing
    BY <1>1 DEF Inv, vars, listVars, prodVars, workVars, flagVars, arbVars, dtorVars,
                TypeOK, MutexInv, PoolInv, Building, VictimInv, FlagInv, HandInv, SizeInv,
                DtorInv, Pushing
  <2> QED  BY <1>1, <2>1 DEF Inv, RoomInv, vars, listVars
<1> QED  BY <1>1, ProduceInv, WorkInv, ArbitrateInv, DestructInv DEF Next, Destroyed

(* In every state the threads are where the locks, the flags and the lists *)
(* say they are.                                                           *)
THEOREM Invariance == Spec => []Inv
BY InitInv, StepInv, PTL DEF Spec

(* The state keeps its types: in particular the three-valued exchange of   *)
(* work_or_stop_pending_ never leaves -1, 0, 1, and what worker::worker    *)
(* records as run is always a job.                                         *)
THEOREM TypeCorrect == Spec => []TypeOK
<1>1. Inv => TypeOK  BY DEF Inv
<1> QED  BY <1>1, Invariance, PTL

(* add_job passes max_queue_len_ by at most one job for each other         *)
(* producer, whatever the number of producers.                             *)
THEOREM QueueIsBounded == Spec => []QueueBound
<1>1. Inv => QueueBound
  <2> SUFFICES ASSUME Inv PROVE QueueBound  OBVIOUS
  <2>1. Len(hp_jobs) \in Nat /\ Len(jobs) \in Nat  BY DEF Inv, TypeOK
  <2> QED  BY <2>1, CardinalityTypes, ConstantsAssumption DEF Inv, RoomInv, QueueBound
<1> QED  BY <1>1, Invariance, PTL

LEMMA ThreadsCounted == Inv => ThreadBound
<1> SUFFICES ASSUME Inv PROVE ThreadBound  OBVIOUS
<1>1. CASE arbPc = "construct"
  <2>1. Alive = processors \cup {victim} /\ victim \notin processors
    BY <1>1 DEF Inv, Alive, PoolInv, Building, VictimInv, TypeOK
  <2>2. Cardinality(Alive) = Cardinality(processors) + 1
    BY <2>1, CardinalityTypes, FS_AddElement DEF Inv
  <2> QED  BY <1>1, <2>2, CardinalityTypes, ConstantsAssumption DEF Inv, VictimInv, ThreadBound
<1>2. CASE arbPc # "construct"
  <2>1. Alive = processors  BY <1>2 DEF Inv, Alive, PoolInv, Building, TypeOK
  <2> QED  BY <2>1 DEF Inv, VictimInv, ThreadBound
<1> QED  BY <1>1, <1>2

(* The threads of the queue are never more than max_threads_.              *)
THEOREM ThreadsAreBounded == Spec => []ThreadBound
BY ThreadsCounted, Invariance, PTL

(* When the destructor returns, no thread, job in hand or lock of the      *)
(* queue is left.                                                          *)
THEOREM QuietWhenDestroyed == Spec => []QuietAfterDestroy
<1>1. Inv => QuietAfterDestroy
  <2> SUFFICES ASSUME Inv, dtorPc = "destroyed" PROVE QuietAfterDestroy  BY DEF QuietAfterDestroy
  <2>1. arbPc = "exited" /\ processors = {}  BY DEF Inv, DtorInv
  <2>2. \A w \in Workers : workPc[w] = "none"  BY <2>1 DEF Inv, PoolInv, Building
  <2>3. Alive = {}  BY <2>2 DEF Alive
  <2>4. InHand = {}  BY <2>2 DEF Inv, HandInv, InHand
  <2>5. evt_mtp = None  BY <2>2 DEF Inv, MutexInv, TypeOK
  <2> QED  BY <2>1, <2>3, <2>4, <2>5 DEF QuietAfterDestroy
<1> QED  BY <1>1, Invariance, PTL

(* A doomed worker takes no further job.                                   *)
THEOREM DoomIsFinal == Spec => DoomedTakesNothing
<1> DEFINE NoTake == \A w \in Workers : BeingErased(w) => hand'[w] \in {hand[w], None}
<1>1. Inv /\ [Next]_vars => [NoTake]_vars
  <2> SUFFICES ASSUME Inv, Next, NEW v \in Workers, BeingErased(v)
               PROVE  hand'[v] \in {hand[v], None}
    BY DEF vars
  <2>0. v \in Workers /\ work_or_stop[v] = 1  BY DEF BeingErased, Inv, VictimInv
  <2>1. ASSUME NEW w \in Workers, Take(w) PROVE hand'[v] = hand[v]
    <3>1. v # w  BY <2>0, <2>1 DEF Take, Inv, FlagInv
    <3> QED  BY <2>0, <2>1, <3>1 DEF Take, Inv, TypeOK
  <2>2. ASSUME NEW w \in Workers, Finish(w) \/ Spawn(w) PROVE hand'[v] \in {hand[v], None}
    BY <2>0, <2>2 DEF Finish, Spawn, Inv, TypeOK
  <2>3. CASE hand' = hand  BY <2>3
  <2>4. \/ hand' = hand
        \/ \E w \in Workers : Take(w) \/ Finish(w) \/ Spawn(w)
    BY DEF Next, Produce, Work, Arbitrate, Destruct, Destroyed, vars, workVars,
           Call, Admit, Push, EnterFetch, Exit, Lock, LockForProcessing, FindNothing, Wake,
           BecomeBusy, Sample, ArbiterExit, SkipSpawn, SpawnFails, Construct, SkipKill, Erase,
           Join, Rest, Doom, Terminate, NotifyAll, JoinArbiter, Destroy, ClearWorker
  <2> QED  BY <2>1, <2>2, <2>3, <2>4
<1> QED  BY <1>1, Invariance, PTL DEF Spec, DoomedTakesNothing

--------------------------------------------------------------------------------
(***************************************************************************)
(* CommandQueue implements JobPool.  Beyond Inv this needs that a job is   *)
(* in one place at a time.                                                 *)
(***************************************************************************)
Distinct(s) == \A i, k \in 1..Len(s) : s[i] = s[k] => i = k

(* No job is twice in a list, in two hands or in two calls ...             *)
OnceInv ==
    /\ Distinct(hp_jobs) /\ Distinct(jobs)
    /\ \A v, w \in Workers : hand[v] # None /\ hand[v] = hand[w] => v = w
    /\ \A p, q \in Producers : prodJob[p] # None /\ prodJob[p] = prodJob[q] => p = q

(* ... nor in two of these places.                                         *)
ApartInv ==
    /\ Elements(hp_jobs) \cap Elements(jobs) = {}
    /\ (Elements(hp_jobs) \cup Elements(jobs)) \cap (InHand \cup done \cup InCall) = {}
    /\ InHand \cap (done \cup InCall) = {}
    /\ done \cap InCall = {}

RInv == Inv /\ OnceInv /\ ApartInv

--------------------------------------------------------------------------------
(* Lists.                                                                  *)

LEMMA EmptyList == Elements(<<>>) = {} /\ Distinct(<<>>)
BY DEF Elements, Distinct

LEMMA GrownList ==
    ASSUME NEW s \in Seq(Jobs), NEW j \in Jobs
    PROVE  /\ Elements(Append(s, j)) = Elements(s) \cup {j}
           /\ Distinct(s) /\ j \notin Elements(s) => Distinct(Append(s, j))
<1> DEFINE t == Append(s, j)
<1>1. /\ Len(s) \in Nat /\ Len(t) = Len(s) + 1 /\ t[Len(t)] = j
      /\ \A i \in 1..Len(s) : t[i] = s[i]
  OBVIOUS
<1> HIDE DEF t
<1>2. 1..Len(t) = (1..Len(s)) \cup {Len(t)}  BY <1>1
<1>3. Elements(t) = Elements(s) \cup {j}  BY <1>1, <1>2 DEF Elements
<1>4. ASSUME Distinct(s), j \notin Elements(s) PROVE Distinct(t)
  BY <1>1, <1>2, <1>4 DEF Elements, Distinct
<1> QED  BY <1>3, <1>4 DEF t

LEMMA PoppedList ==
    ASSUME NEW s \in Seq(Jobs), s # <<>>, Distinct(s)
    PROVE  /\ Head(s) \in Elements(s)
           /\ Elements(Tail(s)) = Elements(s) \ {Head(s)}
           /\ Distinct(Tail(s))
<1> DEFINE t == Tail(s)
<1>1. /\ Len(s) \in Nat /\ Len(s) > 0 /\ Len(t) = Len(s) - 1 /\ Head(s) = s[1]
      /\ \A i \in 1..Len(t) : t[i] = s[i + 1]
  OBVIOUS
<1> HIDE DEF t
<1>2. Elements(t) = {s[i] : i \in 2..Len(s)}
  <2>1. ASSUME NEW i \in 1..Len(t) PROVE t[i] \in {s[k] : k \in 2..Len(s)}
    <3>1. i + 1 \in 2..Len(s)  BY <1>1
    <3> QED  BY <1>1, <3>1
  <2>2. ASSUME NEW k \in 2..Len(s) PROVE \E i \in 1..Len(t) : t[i] = s[k]
    <3>1. k - 1 \in 1..Len(t) /\ (k - 1) + 1 = k  BY <1>1
    <3>2. t[k - 1] = s[k]  BY <1>1, <3>1
    <3> QED  BY <3>1, <3>2
  <2> QED  BY <2>1, <2>2 DEF Elements
<1>3. 1..Len(s) = {1} \cup 2..Len(s)  BY <1>1
<1>4. Elements(s) = {Head(s)} \cup {s[i] : i \in 2..Len(s)}  BY <1>1, <1>3 DEF Elements
<1>5. Head(s) \notin {s[i] : i \in 2..Len(s)}
  <2>1. ASSUME NEW i \in 2..Len(s), s[i] = s[1] PROVE FALSE  BY <1>1, <2>1 DEF Distinct
  <2> QED  BY <1>1, <2>1
<1>6. Distinct(t)
  <2> SUFFICES ASSUME NEW i \in 1..Len(t), NEW k \in 1..Len(t), t[i] = t[k] PROVE i = k
    BY DEF Distinct
  <2>1. i + 1 \in 1..Len(s) /\ k + 1 \in 1..Len(s) /\ s[i + 1] = s[k + 1]  BY <1>1
  <2>2. i + 1 = k + 1  BY <2>1 DEF Distinct
  <2> QED  BY <2>2
<1> QED  BY <1>2, <1>4, <1>5, <1>6 DEF t

--------------------------------------------------------------------------------
(* What a step does to the places a job can be in.                         *)

(* Steps other than these five move no job and do not close the queue.     *)
LEMMA OtherSteps ==
    ASSUME Inv, [Next]_vars
    PROVE  \/ \E p \in Producers : Push(p) \/ \E j \in Jobs : Call(p, j)
           \/ \E w \in Workers : Take(w) \/ Finish(w)
           \/ Destroy
           \/ UNCHANGED <<hp_jobs, jobs, hand, prodJob, done>>
              /\ (dtorPc' = "destroyed" <=> dtorPc = "destroyed")
<1>1. ASSUME NEW w \in Workers, Spawn(w) PROVE hand' = hand
  BY <1>1 DEF Spawn, Inv, TypeOK, PoolInv, Building, HandInv
<1> QED
  BY <1>1 DEF Next, Produce, Work, Arbitrate, Destruct, Destroyed, vars, listVars, prodVars,
           workVars, flagVars, arbVars, dtorVars, Spawn,
           Admit, EnterFetch, Exit, Lock, LockForProcessing, FindNothing, Wake,
           BecomeBusy, Sample, ArbiterExit, SkipSpawn, SpawnFails, Construct, SkipKill, Erase,
           Join, Rest, Doom, Terminate, NotifyAll, JoinArbiter, ClearWorker

LEMMA CallEffect ==
    ASSUME RInv, NEW p \in Producers, NEW j \in Jobs, Call(p, j)
    PROVE  /\ UNCHANGED <<hp_jobs, jobs, InHand, done, dtorPc>>
           /\ InCall' = InCall \cup {j}
           /\ OnceInv' /\ ApartInv'
<1> USE DEF RInv, Call, listVars, workVars, dtorVars
<1>1. j # None  BY ConstantsAssumption
<1>2. prodJob[p] = None /\ prodJob' = [prodJob EXCEPT ![p] = j]  BY DEF Inv, HandInv
<1>3. InCall' = InCall \cup {j}  BY <1>1, <1>2 DEF InCall, Inv, TypeOK
<1>4. InHand' = InHand  BY DEF InHand
<1>5. /\ j \notin Elements(hp_jobs) \cup Elements(jobs) \cup InHand \cup done \cup InCall
      /\ \A q \in Producers : prodJob[q] # j
  BY <1>1 DEF Submitted, InCall
<1>6. OnceInv'  BY <1>2, <1>5 DEF OnceInv, Inv, TypeOK
<1>7. Elements(hp_jobs)' = Elements(hp_jobs) /\ Elements(jobs)' = Elements(jobs)  OBVIOUS
<1>8. ApartInv'  BY <1>3, <1>4, <1>5, <1>7 DEF ApartInv
<1> QED  BY <1>3, <1>4, <1>6, <1>8

LEMMA PushEffect ==
    ASSUME RInv, NEW p \in Producers, Push(p)
    PROVE  /\ UNCHANGED <<InHand, done, dtorPc>>
           /\ dtorPc = "alive"
           /\ prodJob[p] \in Jobs
           /\ prodJob[p] \notin Elements(hp_jobs) \cup Elements(jobs) \cup InHand \cup done
           /\ OnceInv' /\ ApartInv'
<1> USE DEF RInv, Push, workVars, dtorVars
<1>1. PICK j \in Jobs : j = prodJob[p]  BY DEF Inv, HandInv, TypeOK
<1>2. j # None /\ j \in InCall  BY <1>1, ConstantsAssumption DEF InCall
<1>3. InHand' = InHand  BY DEF InHand
<1>4. InCall' = InCall \ {j}
  <2>1. \A q \in Producers : prodJob'[q] = IF q = p THEN None ELSE prodJob[q]
    BY DEF Inv, TypeOK
  <2>2. \A q \in Producers : q # p => prodJob[q] # j  BY <1>1, <1>2 DEF OnceInv
  <2> QED  BY <1>1, <2>1, <2>2 DEF InCall
<1>5. j \notin Elements(hp_jobs) \cup Elements(jobs) \cup InHand \cup done  BY <1>2 DEF ApartInv
<1>6. hp_jobs \in Seq(Jobs) /\ jobs \in Seq(Jobs)  BY DEF Inv, TypeOK
<1>7. \/ hp_jobs' = Append(hp_jobs, j) /\ jobs' = jobs
      \/ jobs' = Append(jobs, j) /\ hp_jobs' = hp_jobs
  BY <1>1
<1>8. /\ Distinct(hp_jobs') /\ Distinct(jobs')
      /\ \/ Elements(hp_jobs') = Elements(hp_jobs) \cup {j} /\ Elements(jobs') = Elements(jobs)
         \/ Elements(jobs') = Elements(jobs) \cup {j} /\ Elements(hp_jobs') = Elements(hp_jobs)
  <2>1. Distinct(hp_jobs) /\ Distinct(jobs)  BY DEF OnceInv
  <2> HIDE DEF RInv, Push
  <2>2. CASE hp_jobs' = Append(hp_jobs, j) /\ jobs' = jobs
    BY <1>5, <1>6, <2>1, <2>2, GrownList
  <2>3. CASE jobs' = Append(jobs, j) /\ hp_jobs' = hp_jobs
    BY <1>5, <1>6, <2>1, <2>3, GrownList
  <2> QED  BY <1>7, <2>2, <2>3
<1>9. OnceInv'
  <2>1. \A q, r \in Producers : prodJob'[q] # None /\ prodJob'[q] = prodJob'[r] => q = r
    BY DEF OnceInv, Inv, TypeOK
  <2>2. \A v, w \in Workers : hand'[v] # None /\ hand'[v] = hand'[w] => v = w
    BY DEF OnceInv
  <2> QED  BY <1>8, <2>1, <2>2 DEF OnceInv
<1>10. ApartInv'
  <2>1. done' = done  OBVIOUS
  <2>2. Elements(hp_jobs)' = Elements(hp_jobs') /\ Elements(jobs)' = Elements(jobs')
    BY DEF Elements
  <2> QED  BY <1>2, <1>3, <1>4, <1>5, <1>8, <2>1, <2>2 DEF ApartInv
<1>11. dtorPc = "alive"  BY DEF Inv, DtorInv
<1> QED  BY <1>1, <1>3, <1>5, <1>9, <1>10, <1>11

LEMMA TakeEffect ==
    ASSUME RInv, NEW w \in Workers, Take(w)
    PROVE  \E j \in Jobs :
               /\ \/ /\ hp_jobs # <<>> /\ j = Head(hp_jobs)
                     /\ hp_jobs' = Tail(hp_jobs) /\ jobs' = jobs
                  \/ /\ hp_jobs = <<>> /\ jobs # <<>> /\ j = Head(jobs)
                     /\ jobs' = Tail(jobs) /\ hp_jobs' = hp_jobs
               /\ InHand' = InHand \cup {j}
               /\ UNCHANGED <<done, dtorPc>>
               /\ OnceInv' /\ ApartInv'
<1> USE DEF RInv, Take, prodVars, dtorVars
<1>1. hp_jobs \in Seq(Jobs) /\ jobs \in Seq(Jobs) /\ Distinct(hp_jobs) /\ Distinct(jobs)
  BY DEF Inv, TypeOK, OnceInv
<1>2. PICK j \in Jobs :
         /\ \/ /\ hp_jobs # <<>> /\ j = Head(hp_jobs)
               /\ hp_jobs' = Tail(hp_jobs) /\ jobs' = jobs
            \/ /\ hp_jobs = <<>> /\ jobs # <<>> /\ j = Head(jobs)
               /\ jobs' = Tail(jobs) /\ hp_jobs' = hp_jobs
         /\ hand' = [hand EXCEPT ![w] = j]
  <2>1. CASE hp_jobs # <<>>  BY <1>1, <2>1, PoppedSeq
  <2>2. CASE hp_jobs = <<>>  BY <1>1, <2>2, PoppedSeq
  <2> QED  BY <2>1, <2>2
<1>3. /\ Distinct(hp_jobs') /\ Distinct(jobs')
      /\ \/ /\ j \in Elements(hp_jobs) /\ Elements(hp_jobs') = Elements(hp_jobs) \ {j}
            /\ Elements(jobs') = Elements(jobs)
         \/ /\ j \in Elements(jobs) /\ Elements(jobs') = Elements(jobs) \ {j}
            /\ Elements(hp_jobs') = Elements(hp_jobs)
  <2> HIDE DEF RInv, Take
  <2>1. CASE hp_jobs # <<>>  BY <1>1, <1>2, <2>1, PoppedList
  <2>2. CASE hp_jobs = <<>>  BY <1>1, <1>2, <2>2, PoppedList
  <2> QED  BY <2>1, <2>2
<1>4. j # None /\ hand[w] = None  BY ConstantsAssumption DEF Inv, HandInv
<1>5. \A v \in Workers : hand'[v] = IF v = w THEN j ELSE hand[v]  BY <1>2 DEF Inv, TypeOK
<1>6. InHand' = InHand \cup {j}  BY <1>4, <1>5 DEF InHand
<1>7. j \notin InHand \cup done \cup InCall  BY <1>3 DEF ApartInv
<1>8. \A v \in Workers : hand[v] # j  BY <1>4, <1>7 DEF InHand
<1>9. OnceInv'
  <2>1. \A u, v \in Workers : hand'[u] # None /\ hand'[u] = hand'[v] => u = v
    BY <1>5, <1>8 DEF OnceInv
  <2>2. \A p, q \in Producers : prodJob'[p] # None /\ prodJob'[p] = prodJob'[q] => p = q
    BY DEF OnceInv
  <2> QED  BY <1>3, <2>1, <2>2 DEF OnceInv
<1>10. ApartInv'
  <2>1. done' = done /\ InCall' = InCall  BY DEF InCall
  <2>2. Elements(hp_jobs)' = Elements(hp_jobs') /\ Elements(jobs)' = Elements(jobs')
    BY DEF Elements
  <2> QED  BY <1>3, <1>6, <1>7, <2>1, <2>2 DEF ApartInv
<1> QED  BY <1>2, <1>6, <1>9, <1>10

LEMMA FinishEffect ==
    ASSUME RInv, NEW w \in Workers, Finish(w)
    PROVE  /\ hand[w] \in Jobs /\ hand[w] \in InHand
           /\ InHand' = InHand \ {hand[w]}
           /\ done' = done \cup {hand[w]}
           /\ UNCHANGED <<hp_jobs, jobs, dtorPc>>
           /\ OnceInv' /\ ApartInv'
<1> USE DEF RInv, Finish, listVars, prodVars, dtorVars
<1>1. hand[w] \in Jobs /\ hand[w] # None  BY DEF Inv, HandInv, TypeOK
<1>2. hand[w] \in InHand  BY <1>1 DEF InHand
<1>3. \A v \in Workers : hand'[v] = IF v = w THEN None ELSE hand[v]  BY DEF Inv, TypeOK
<1>4. InHand' = InHand \ {hand[w]}
  <2>1. \A v \in Workers : v # w => hand[v] # hand[w]  BY <1>1 DEF OnceInv
  <2> QED  BY <1>1, <1>3, <2>1 DEF InHand
<1>5. OnceInv'
  <2>1. \A u, v \in Workers : hand'[u] # None /\ hand'[u] = hand'[v] => u = v
    BY <1>3 DEF OnceInv
  <2>2. \A p, q \in Producers : prodJob'[p] # None /\ prodJob'[p] = prodJob'[q] => p = q
    BY DEF OnceInv
  <2>3. Distinct(hp_jobs)' /\ Distinct(jobs)'  BY DEF OnceInv
  <2> QED  BY <2>1, <2>2, <2>3 DEF OnceInv
<1>6. ApartInv'
  <2>1. InCall' = InCall /\ done' = done \cup {hand[w]}  BY DEF InCall
  <2>2. Elements(hp_jobs)' = Elements(hp_jobs) /\ Elements(jobs)' = Elements(jobs)
    BY DEF Elements
  <2> QED  BY <1>2, <1>4, <2>1, <2>2 DEF ApartInv
<1> QED  BY <1>1, <1>2, <1>4, <1>5, <1>6

LEMMA DestroyEffect ==
    ASSUME RInv, Destroy
    PROVE  /\ InHand = {} /\ InHand' = {}
           /\ hp_jobs' = <<>> /\ jobs' = <<>> /\ done' = done
           /\ dtorPc # "destroyed" /\ dtorPc' = "destroyed"
           /\ OnceInv' /\ ApartInv'
<1> USE DEF RInv, Destroy, prodVars, workVars
<1>1. InHand = {}
  <2>1. \A w \in Workers : workPc[w] = "none"  BY DEF Inv, DtorInv, PoolInv, Building
  <2> QED  BY <2>1 DEF Inv, HandInv, InHand
<1>2. InHand' = InHand /\ InCall' = InCall  BY DEF InHand, InCall
<1>3. Elements(hp_jobs)' = {} /\ Elements(jobs)' = {} /\ Distinct(hp_jobs)' /\ Distinct(jobs)'
  BY EmptyList DEF Elements, Distinct
<1>4. OnceInv'  BY <1>3 DEF OnceInv
<1>5. ApartInv'  BY <1>2, <1>3 DEF ApartInv
<1> QED  BY <1>1, <1>2, <1>4, <1>5

--------------------------------------------------------------------------------
LEMMA StepRInv == RInv /\ [Next]_vars => RInv'
<1> SUFFICES ASSUME RInv, [Next]_vars PROVE RInv'  OBVIOUS
<1>1. Inv /\ Inv'  BY StepInv DEF RInv
<1>2. CASE UNCHANGED <<hp_jobs, jobs, hand, prodJob, done>>
  <2>1. InHand' = InHand /\ InCall' = InCall /\ done' = done  BY <1>2 DEF InHand, InCall
  <2>2. Elements(hp_jobs)' = Elements(hp_jobs) /\ Elements(jobs)' = Elements(jobs)
    BY <1>2 DEF Elements
  <2>3. Distinct(hp_jobs)' = Distinct(hp_jobs) /\ Distinct(jobs)' = Distinct(jobs)
    BY <1>2 DEF Distinct
  <2>4. OnceInv'  BY <1>2, <2>3 DEF RInv, OnceInv
  <2>5. ApartInv'  BY <2>1, <2>2 DEF RInv, ApartInv
  <2> QED  BY <1>1, <2>4, <2>5 DEF RInv
<1> QED
  BY <1>1, <1>2, OtherSteps, CallEffect, PushEffect, TakeEffect, FinishEffect, DestroyEffect
     DEF RInv

LEMMA InitRInv == Init => RInv
<1> SUFFICES ASSUME Init PROVE RInv  OBVIOUS
<1>1. Elements(hp_jobs) = {} /\ Elements(jobs) = {} /\ Distinct(hp_jobs) /\ Distinct(jobs)
  BY EmptyList DEF Init
<1>2. InHand = {} /\ InCall = {} /\ done = {}  BY DEF Init, InHand, InCall
<1> QED  BY <1>1, <1>2, InitInv DEF Init, RInv, OnceInv, ApartInv

(* In every state a job is in at most one place: in a call, in a list, in  *)
(* a worker's hand, or done.                                               *)
THEOREM OncePerJob == Spec => []RInv
BY InitRInv, StepRInv, PTL DEF Spec

(* A worker about to take a job finds fewer than max_threads_ in hand.     *)
LEMMA RoomForOneMore ==
    ASSUME RInv, NEW w \in Workers, Take(w)
    PROVE  Cardinality(InHand) < MaxThreads
<1> DEFINE Holders == {v \in Workers : hand[v] # None}
           f == [v \in Holders |-> hand[v]]
<1>1. Holders \in SUBSET (Alive \ {w}) /\ w \in Alive
  BY DEF RInv, Inv, HandInv, Alive, Take
<1>2. IsFiniteSet(Alive)
  <2>1. Alive \in SUBSET Workers  BY DEF Alive
  <2> QED  BY <2>1, ConstantsAssumption, FS_Subset
<1>3. /\ IsFiniteSet(Alive \ {w})
      /\ Cardinality(Alive \ {w}) = Cardinality(Alive) - 1
      /\ Cardinality(Alive) \in Nat
  BY <1>1, <1>2, FS_RemoveElement, FS_CardinalityType
<1>4. IsFiniteSet(Holders) /\ Cardinality(Holders) <= Cardinality(Alive) - 1
  BY <1>1, <1>3, FS_Subset
<1>5. f \in Surjection(Holders, InHand)
  <2>1. \A j \in InHand : \E v \in Holders : f[v] = j  BY DEF InHand
  <2>2. f \in [Holders -> InHand]  BY DEF InHand
  <2> QED  BY <2>1, <2>2 DEF Surjection
<1> HIDE DEF Holders, f
<1>6. IsFiniteSet(InHand) /\ Cardinality(InHand) <= Cardinality(Holders)
  BY <1>4, <1>5, FS_Surjection
<1>7. Cardinality(InHand) \in Nat /\ Cardinality(Holders) \in Nat
  BY <1>4, <1>6, FS_CardinalityType
<1>8. Cardinality(Alive) <= MaxThreads  BY ThreadsCounted DEF RInv, ThreadBound
<1> QED  BY <1>3, <1>4, <1>6, <1>7, <1>8, ConstantsAssumption

LEMMA StepPool == RInv /\ [Next]_vars => [Pool!Next]_(Pool!vars)
<1> SUFFICES ASSUME RInv, [Next]_vars PROVE [Pool!Next]_(Pool!vars)  OBVIOUS
<1>1. ASSUME NEW p \in Producers, NEW j \in Jobs, Call(p, j) PROVE UNCHANGED Pool!vars
  BY <1>1, CallEffect DEF Pool!vars
<1>2. ASSUME NEW p \in Producers, Push(p) PROVE Pool!Next
  <2>1. prodJob[p] \in Jobs  BY <1>2, PushEffect
  <2>2. prodJob[p] \notin Pool!Seen  BY <1>2, PushEffect DEF Pool!Seen, Elements
  <2>3. Pool!Accept(prodJob[p])
    BY <1>2, <2>2, PushEffect DEF Pool!Accept, Push
  <2> QED  BY <2>1, <2>3 DEF Pool!Next
<1>3. ASSUME NEW w \in Workers, Take(w) PROVE Pool!Next
  <2>1. dtorPc # "destroyed"
    BY <1>3 DEF RInv, Inv, DtorInv, PoolInv, Building, Take
  <2>2. Cardinality(InHand) < MaxThreads  BY <1>3, RoomForOneMore
  <2>3. PICK j \in Jobs :
           /\ \/ /\ hp_jobs # <<>> /\ j = Head(hp_jobs)
                 /\ hp_jobs' = Tail(hp_jobs) /\ jobs' = jobs
              \/ /\ hp_jobs = <<>> /\ jobs # <<>> /\ j = Head(jobs)
                 /\ jobs' = Tail(jobs) /\ hp_jobs' = hp_jobs
           /\ InHand' = InHand \cup {j}
           /\ UNCHANGED <<done, dtorPc>>
    BY <1>3, TakeEffect
  <2>4. \/ /\ hp_jobs # <<>>
           /\ InHand' = InHand \cup {Head(hp_jobs)}
           /\ hp_jobs' = Tail(hp_jobs)
           /\ jobs' = jobs
        \/ /\ hp_jobs = <<>>
           /\ jobs # <<>>
           /\ InHand' = InHand \cup {Head(jobs)}
           /\ jobs' = Tail(jobs)
           /\ hp_jobs' = hp_jobs
    BY <2>3
  <2>5. UNCHANGED <<done, dtorPc = "destroyed">>  BY <2>3
  <2>6. Pool!Cardinality(InHand) = Cardinality(InHand)
    BY DEF Pool!Cardinality, Cardinality
  <2>7. Pool!Start  BY <2>1, <2>2, <2>4, <2>5, <2>6 DEF Pool!Start
  <2> QED  BY <2>7 DEF Pool!Next
<1>4. ASSUME NEW w \in Workers, Finish(w) PROVE Pool!Next
  <2>1. hand[w] \in Jobs  BY <1>4, FinishEffect
  <2>2. Pool!Finish(hand[w])  BY <1>4, FinishEffect DEF Pool!Finish
  <2> QED  BY <2>1, <2>2 DEF Pool!Next
<1>5. ASSUME Destroy PROVE Pool!Next
  <2>1. Pool!Close  BY <1>5, DestroyEffect DEF Pool!Close
  <2> QED  BY <2>1 DEF Pool!Next
<1>6. ASSUME UNCHANGED <<hp_jobs, jobs, hand, prodJob, done>>,
             dtorPc' = "destroyed" <=> dtorPc = "destroyed"
      PROVE  UNCHANGED Pool!vars
  BY <1>6 DEF Pool!vars, InHand
<1> QED  BY <1>1, <1>2, <1>3, <1>4, <1>5, <1>6, OtherSteps DEF RInv

(* The queue implements the abstract pool: whatever the workers, the       *)
(* arbiter and the destructor do, no accepted job is lost, repeated or     *)
(* overtaken in its line, and urgent jobs go first.                        *)
THEOREM ImplementsPool == Spec => PoolSpec
<1>1. Init => Pool!Init
  BY DEF Init, Pool!Init, InHand
<1> QED  BY <1>1, StepPool, OncePerJob, PTL DEF Spec, PoolSpec, Pool!Spec
================================================================================
