----------------------------- MODULE SupportProofs -----------------------------
(***************************************************************************)
(* Three components of src/support.  The readers and writers lock is       *)
(* exact, and nobody overtakes a caller of the preferred kind, for any     *)
(* finite set of callers.  deferred_command_queue for any number of        *)
(* processors and jobs, any fire times and any clock: its waits, and where *)
(* its jobs are.  The ring buffer's slots and its refinement of the        *)
(* sliding window, for every capacity.                                     *)
(***************************************************************************)
EXTENDS RwLock, DeferredQueue, RingBuffer, FiniteSetTheorems, SequenceTheorems, TLAPS

--------------------------------------------------------------------------------
(* rw_lock.                                                                *)

WaitsToRead == {"ask_read", "try_read"}
WaitsToWrite == {"ask_write", "try_write"}
Holds == {"got_read", "read", "upgrade", "upgrading"}
Writes == {"got_write", "upgraded", "write"}

(* The numbers of pending callers are those of the callers that wait, or   *)
(* that have the lock and have not yet returned.                           *)
CountedToRead == WaitsToRead \cup {"got_read"}
CountedToWrite == WaitsToWrite \cup {"got_write"}

PendingExact ==
    /\ pending["reader"] = Cardinality(In(CountedToRead))
    /\ pending["writer"] = Cardinality(In(CountedToWrite))

(* Those ahead wait, nobody is ahead of a caller of the preferred kind, or *)
(* of one that has found nobody waiting.                                   *)
Preferred == IF prefersWriters THEN WaitsToWrite ELSE WaitsToRead

AheadWaits ==
    \A t \in Callers :
        /\ ahead[t] \subseteq In(Preferred)
        /\ rwPc[t] \in Preferred => ahead[t] = {}
        /\ rwPc[t] \in {"try_read", "try_write"} => ahead[t] = {}

RwInv == RwTypeOK /\ CounterExact /\ PendingExact /\ AheadWaits

--------------------------------------------------------------------------------
LEMMA InIsFinite == ASSUME NEW L PROVE IsFiniteSet(In(L)) /\ Cardinality(In(L)) \in Nat
  BY RwLockConstants, FS_Subset, FS_CardinalityType DEF In

(* A step moves its caller from one set of callers to another.             *)
LEMMA Moved ==
    ASSUME RwTypeOK, NEW t \in Callers, NEW from, NEW to, Step(t, from, to), NEW L
    PROVE  In(L)' = IF to \in L THEN In(L) \cup {t} ELSE In(L) \ {t}
  BY DEF RwTypeOK, Step, In

LEMMA Counted ==
    ASSUME RwTypeOK, NEW t \in Callers, NEW from, NEW to, Step(t, from, to), NEW L
    PROVE  Cardinality(In(L))' =
               CASE to \in L /\ from \notin L -> Cardinality(In(L)) + 1
                 [] to \notin L /\ from \in L -> Cardinality(In(L)) - 1
                 [] OTHER -> Cardinality(In(L))
<1>1. t \in In(L) <=> from \in L
  BY DEF Step, In
<1>2. In(L)' = IF to \in L THEN In(L) \cup {t} ELSE In(L) \ {t}
  BY Moved
<1>3. IsFiniteSet(In(L)) /\ Cardinality(In(L)) \in Nat
  BY InIsFinite
<1>4. CASE to \in L /\ from \notin L
  <2>1. Cardinality(In(L) \cup {t}) = Cardinality(In(L)) + 1
    BY <1>1, <1>3, <1>4, FS_AddElement
  <2> QED  BY <1>2, <1>4, <2>1
<1>5. CASE to \notin L /\ from \in L
  <2>1. Cardinality(In(L) \ {t}) = Cardinality(In(L)) - 1
    BY <1>1, <1>3, <1>5, FS_RemoveElement
  <2> QED  BY <1>2, <1>5, <2>1
<1>6. CASE (to \in L) = (from \in L)
  <2>1. In(L)' = In(L)
    BY <1>1, <1>2, <1>6
  <2> QED  BY <1>6, <2>1
<1> QED  BY <1>4, <1>5, <1>6

(* CounterExact in terms of cardinalities.                                 *)
CountsHold == /\ Cardinality(In(Holds)) = IF current = -1 THEN 0 ELSE current
        /\ Cardinality(In(Writes)) = IF current = -1 THEN 1 ELSE 0

LEMMA ExactIsCounted == CounterExact <=> CountsHold
<1>1. Readers = In(Holds) /\ Writers = In(Writes)
  BY DEF Readers, Writers, Holds, Writes
<1>2. /\ IsFiniteSet(In(Holds)) /\ Cardinality(In(Holds)) \in Nat
      /\ IsFiniteSet(In(Writes)) /\ Cardinality(In(Writes)) \in Nat
  BY InIsFinite
<1>3. (Cardinality(In(Holds)) = 0 <=> Readers = {}) /\ (Cardinality(In(Writes)) = 0 <=> Writers = {})
  BY <1>1, <1>2, FS_EmptySet
<1>4. Cardinality(In(Writes)) = 1 <=> \E t \in Callers : Writers = {t}
  <2>1. \A t : Writers = {t} => t \in Callers
    BY DEF Writers, In
  <2> QED  BY <1>1, <1>2, <2>1, FS_Singleton
<1> QED  BY <1>1, <1>2, <1>3, <1>4 DEF CounterExact, CountsHold

LEMMA RwInitInv == RwInit => RwInv
<1> SUFFICES ASSUME RwInit PROVE RwInv
  OBVIOUS
<1>1. In(Holds) = {} /\ In(Writes) = {} /\ In(CountedToRead) = {} /\ In(CountedToWrite) = {}
  BY DEF RwInit, In, Holds, Writes, WaitsToRead, WaitsToWrite, CountedToRead, CountedToWrite
<1>2. RwTypeOK
  BY DEF RwInit, RwTypeOK
<1>3. CounterExact
  BY <1>1, ExactIsCounted, FS_EmptySet DEF RwInit, CountsHold
<1>4. PendingExact
  BY <1>1, FS_EmptySet DEF RwInit, PendingExact, Kinds
<1>5. AheadWaits
  BY DEF RwInit, AheadWaits
<1> QED  BY <1>2, <1>3, <1>4, <1>5 DEF RwInv

--------------------------------------------------------------------------------
LEMMA TypeStep == ASSUME RwTypeOK, NEW t \in Callers, RwStep(t) PROVE RwTypeOK'
<1> USE DEF RwTypeOK
<1>0. \A kind \in Kinds, n \in Int : Count(kind, n) => pending' \in [Kinds -> Int]
  BY DEF Count
<1>1. \A s \in Callers : \A from, to : Step(s, from, to) => rwPc' = [rwPc EXCEPT ![s] = to]
  BY DEF Step
<1>2. StopsWaiting(t) => ahead' \in [Callers -> SUBSET Callers]
  BY DEF StopsWaiting
<1>3. CASE CallRead(t) \/ CallWrite(t) \/ CallUpgrade(t) \/ CountUpgrader(t)
  BY <1>0, <1>1, <1>3 DEF CallRead, CallWrite, CallUpgrade, CountUpgrader, Kinds, In
<1>4. CASE AskRead(t) \/ AskWrite(t) \/ Retry(t)
  BY <1>1, <1>4 DEF AskRead, AskWrite, Retry
<1>5. CASE TryRead(t) \/ TryWrite(t) \/ TryUpgrade(t) \/ TakeOff(t) \/ GiveUp(t)
  BY <1>0, <1>1, <1>2, <1>5 DEF TryRead, TryWrite, TryUpgrade, TakeOff, GiveUp, Kinds
<1>6. CASE Downgrade(t) \/ Unlock(t)
  BY <1>1, <1>6 DEF Downgrade, Unlock
<1> QED  BY <1>3, <1>4, <1>5, <1>6 DEF RwStep, RwProgress

(* The readers and writers that a step adds or takes away are those that   *)
(* it counts.                                                              *)
LEMMA CountStep == ASSUME RwTypeOK, CountsHold, NEW t \in Callers, RwStep(t) PROVE CountsHold'
<1>0. Cardinality(In(Holds)) \in Nat /\ Cardinality(In(Writes)) \in Nat /\ current \in Int
  BY InIsFinite DEF RwTypeOK
<1>1. ASSUME NEW from, NEW to, Step(t, from, to), from \notin Holds \cup Writes,
             to \notin Holds \cup Writes, current' = current
      PROVE  CountsHold'
  BY <1>1, Counted DEF CountsHold
<1>2. ASSUME NEW from, NEW to, Step(t, from, to), current' = current,
             \/ from \in Holds /\ to \in Holds
             \/ from \in Writes /\ to \in Writes
      PROVE  CountsHold'
  BY <1>2, Counted DEF CountsHold, Holds, Writes
<1>3. CASE CallRead(t) \/ CallWrite(t)
  BY <1>1, <1>3 DEF CallRead, CallWrite, Holds, Writes
<1>4. CASE CallUpgrade(t) \/ CountUpgrader(t) \/ TakeOff(t)
  BY <1>2, <1>4 DEF CallUpgrade, CountUpgrader, TakeOff, Holds, Writes
<1>5. CASE AskRead(t) \/ AskWrite(t) \/ Retry(t) \/ GiveUp(t)
  BY <1>1, <1>5 DEF AskRead, AskWrite, Retry, GiveUp, Holds, Writes
<1>6. CASE TryRead(t)
  <2>1. Step(t, "try_read", "got_read") /\ current >= 0 /\ current' = current + 1
    BY <1>6 DEF TryRead
  <2>2. Cardinality(In(Holds))' = Cardinality(In(Holds)) + 1
    BY <2>1, Counted DEF Holds, Writes
  <2>3. Cardinality(In(Writes))' = Cardinality(In(Writes))
    BY <2>1, Counted DEF Holds, Writes
  <2> QED  BY <1>0, <2>1, <2>2, <2>3 DEF CountsHold
<1>7. CASE TryWrite(t)
  <2>1. Step(t, "try_write", "got_write") /\ current = 0 /\ current' = -1
    BY <1>7 DEF TryWrite
  <2>2. Cardinality(In(Holds))' = Cardinality(In(Holds))
    BY <2>1, Counted DEF Holds, Writes
  <2>3. Cardinality(In(Writes))' = Cardinality(In(Writes)) + 1
    BY <2>1, Counted DEF Holds, Writes
  <2> QED  BY <1>0, <2>1, <2>2, <2>3 DEF CountsHold
<1>8. CASE TryUpgrade(t)
  <2>1. Step(t, "upgrading", "upgraded") /\ current = 1 /\ current' = -1
    BY <1>8 DEF TryUpgrade
  <2>2. Cardinality(In(Holds))' = Cardinality(In(Holds)) - 1
    BY <2>1, Counted DEF Holds, Writes
  <2>3. Cardinality(In(Writes))' = Cardinality(In(Writes)) + 1
    BY <2>1, Counted DEF Holds, Writes
  <2> QED  BY <1>0, <2>1, <2>2, <2>3 DEF CountsHold
<1>9. CASE Downgrade(t)
  <2>1. Step(t, "write", "read") /\ current = -1 /\ current' = 1
    BY <1>9 DEF Downgrade
  <2>2. Cardinality(In(Holds))' = Cardinality(In(Holds)) + 1
    BY <2>1, Counted DEF Holds, Writes
  <2>3. Cardinality(In(Writes))' = Cardinality(In(Writes)) - 1
    BY <2>1, Counted DEF Holds, Writes
  <2> QED  BY <1>0, <2>1, <2>2, <2>3 DEF CountsHold
<1>10. CASE Unlock(t)
  <2>1. CASE Step(t, "read", "out") /\ current > 0 /\ current' = current - 1
    <3>1. Cardinality(In(Holds))' = Cardinality(In(Holds)) - 1
      BY <2>1, Counted DEF Holds, Writes
    <3>2. Cardinality(In(Writes))' = Cardinality(In(Writes))
      BY <2>1, Counted DEF Holds, Writes
    <3> QED  BY <1>0, <2>1, <3>1, <3>2 DEF CountsHold
  <2>2. CASE Step(t, "write", "out") /\ current = -1 /\ current' = 0
    <3>1. Cardinality(In(Holds))' = Cardinality(In(Holds))
      BY <2>2, Counted DEF Holds, Writes
    <3>2. Cardinality(In(Writes))' = Cardinality(In(Writes)) - 1
      BY <2>2, Counted DEF Holds, Writes
    <3> QED  BY <1>0, <2>2, <3>1, <3>2 DEF CountsHold
  <2> QED  BY <1>10, <2>1, <2>2 DEF Unlock
<1> QED  BY <1>3, <1>4, <1>5, <1>6, <1>7, <1>8, <1>9, <1>10 DEF RwStep, RwProgress

--------------------------------------------------------------------------------
(* Who begins to wait is counted, and who no longer waits is not.          *)
LEMMA PendingStep == ASSUME RwTypeOK, PendingExact, NEW t \in Callers, RwStep(t) PROVE PendingExact'
<1>0. /\ Cardinality(In(CountedToRead)) \in Nat /\ Cardinality(In(CountedToWrite)) \in Nat
      /\ pending \in [Kinds -> Int]
  BY InIsFinite DEF RwTypeOK
<1>1. ASSUME NEW from, NEW to, Step(t, from, to), pending'["reader"] = pending["reader"],
             pending'["writer"] = pending["writer"],
             (from \in CountedToRead) = (to \in CountedToRead),
             (from \in CountedToWrite) = (to \in CountedToWrite)
      PROVE  PendingExact'
  <2>1. Cardinality(In(CountedToRead))' = Cardinality(In(CountedToRead))
    BY <1>1, Counted
  <2>2. Cardinality(In(CountedToWrite))' = Cardinality(In(CountedToWrite))
    BY <1>1, Counted
  <2> QED  BY <1>1, <2>1, <2>2 DEF PendingExact
<1>2. ASSUME NEW from, NEW to, Step(t, from, to), Count("reader", 1),
             from \notin CountedToRead \cup CountedToWrite, to \in CountedToRead
      PROVE  PendingExact'
  <2>1. Cardinality(In(CountedToRead))' = Cardinality(In(CountedToRead)) + 1
    BY <1>2, Counted
  <2>2. Cardinality(In(CountedToWrite))' = Cardinality(In(CountedToWrite))
    BY <1>2, Counted DEF CountedToRead, CountedToWrite, WaitsToRead, WaitsToWrite
  <2> QED  BY <1>0, <1>2, <2>1, <2>2 DEF PendingExact, Count, Kinds
<1>3. ASSUME NEW from, NEW to, Step(t, from, to), Count("reader", -1),
             from \in CountedToRead, to \notin CountedToRead \cup CountedToWrite
      PROVE  PendingExact'
  <2>1. Cardinality(In(CountedToRead))' = Cardinality(In(CountedToRead)) - 1
    BY <1>3, Counted
  <2>2. Cardinality(In(CountedToWrite))' = Cardinality(In(CountedToWrite))
    BY <1>3, Counted DEF CountedToRead, CountedToWrite, WaitsToRead, WaitsToWrite
  <2> QED  BY <1>0, <1>3, <2>1, <2>2 DEF PendingExact, Count, Kinds
<1>4. ASSUME NEW from, NEW to, Step(t, from, to), Count("writer", 1),
             from \notin CountedToRead \cup CountedToWrite, to \in CountedToWrite
      PROVE  PendingExact'
  <2>1. Cardinality(In(CountedToWrite))' = Cardinality(In(CountedToWrite)) + 1
    BY <1>4, Counted
  <2>2. Cardinality(In(CountedToRead))' = Cardinality(In(CountedToRead))
    BY <1>4, Counted DEF CountedToRead, CountedToWrite, WaitsToRead, WaitsToWrite
  <2> QED  BY <1>0, <1>4, <2>1, <2>2 DEF PendingExact, Count, Kinds
<1>5. ASSUME NEW from, NEW to, Step(t, from, to), Count("writer", -1),
             from \in CountedToWrite, to \notin CountedToRead \cup CountedToWrite
      PROVE  PendingExact'
  <2>1. Cardinality(In(CountedToWrite))' = Cardinality(In(CountedToWrite)) - 1
    BY <1>5, Counted
  <2>2. Cardinality(In(CountedToRead))' = Cardinality(In(CountedToRead))
    BY <1>5, Counted DEF CountedToRead, CountedToWrite, WaitsToRead, WaitsToWrite
  <2> QED  BY <1>0, <1>5, <2>1, <2>2 DEF PendingExact, Count, Kinds
<1> USE DEF CountedToRead, CountedToWrite, WaitsToRead, WaitsToWrite
<1>6. CASE CallRead(t)
  BY <1>2, <1>6 DEF CallRead
<1>7. CASE CallWrite(t)
  BY <1>4, <1>7 DEF CallWrite
<1>8. CASE CountUpgrader(t)
  <2>1. pending'["reader"] = pending["reader"] /\ pending'["writer"] = pending["writer"]
    BY <1>0, <1>8 DEF CountUpgrader, Count, Kinds
  <2> QED  BY <1>1, <1>8, <2>1 DEF CountUpgrader
<1>9. CASE CallUpgrade(t) \/ AskRead(t) \/ AskWrite(t) \/ Retry(t) \/ Downgrade(t) \/ Unlock(t)
  BY <1>1, <1>9 DEF CallUpgrade, AskRead, AskWrite, Retry, Downgrade, Unlock
<1>10. CASE TryRead(t) \/ TryWrite(t) \/ TryUpgrade(t)
  BY <1>1, <1>10 DEF TryRead, TryWrite, TryUpgrade
<1>11. CASE TakeOff(t)
  <2>1. CASE Step(t, "upgraded", "write") /\ Count("upgrader", -1)
    <3>1. pending'["reader"] = pending["reader"] /\ pending'["writer"] = pending["writer"]
      BY <1>0, <2>1 DEF Count, Kinds
    <3> QED  BY <1>1, <2>1, <3>1
  <2> QED  BY <1>3, <1>5, <1>11, <2>1 DEF TakeOff
<1>12. CASE GiveUp(t)
  BY <1>3, <1>5, <1>12 DEF GiveUp
<1> QED  BY <1>6, <1>7, <1>8, <1>9, <1>10, <1>11, <1>12 DEF RwStep, RwProgress

(* The look at the callers that wait finds nobody only if nobody of the    *)
(* preferred kind is ahead; those that call later are not.                 *)
LEMMA LookFindsNobody ==
    ASSUME RwTypeOK, PendingExact, AheadWaits, NEW t \in Callers, AskRead(t) \/ AskWrite(t)
    PROVE  ahead[t] = {}
<1>1. /\ IsFiniteSet(In(CountedToRead)) /\ IsFiniteSet(In(CountedToWrite))
      /\ In(WaitsToRead) \subseteq In(CountedToRead) /\ In(WaitsToWrite) \subseteq In(CountedToWrite)
  BY InIsFinite DEF In, CountedToRead, CountedToWrite
<1>2. CASE AskRead(t)
  <2>1. CASE prefersWriters
    <3>1. In(CountedToWrite) = {}
      BY <1>1, <1>2, <2>1, FS_EmptySet DEF AskRead, PendingExact
    <3> QED  BY <1>1, <2>1, <3>1 DEF AheadWaits, Preferred
  <2>2. CASE ~prefersWriters
    BY <1>2, <2>2 DEF AheadWaits, Preferred, AskRead, Step, WaitsToRead
  <2> QED  BY <2>1, <2>2
<1>3. CASE AskWrite(t)
  <2>1. CASE prefersWriters
    BY <1>3, <2>1 DEF AheadWaits, Preferred, AskWrite, Step, WaitsToWrite
  <2>2. CASE ~prefersWriters
    <3>1. In(CountedToRead) = {}
      BY <1>1, <1>3, <2>2, FS_EmptySet DEF AskWrite, PendingExact
    <3> QED  BY <1>1, <2>2, <3>1 DEF AheadWaits, Preferred
  <2> QED  BY <2>1, <2>2
<1> QED  BY <1>2, <1>3

LEMMA AheadStep ==
    ASSUME RwTypeOK, PendingExact, AheadWaits, NEW t \in Callers, RwStep(t)
    PROVE  AheadWaits'
<1> USE DEF RwTypeOK, WaitsToRead, WaitsToWrite, Preferred
<1>1. ASSUME NEW from, NEW to, Step(t, from, to), UNCHANGED <<ahead, prefersWriters>>,
             (from \in WaitsToRead) = (to \in WaitsToRead),
             (from \in WaitsToWrite) = (to \in WaitsToWrite),
             to \in {"try_read", "try_write"} => ahead[t] = {}
      PROVE  AheadWaits'
  BY <1>1 DEF AheadWaits, Step, In
<1>2. ASSUME NEW from, NEW to, Step(t, from, to), UNCHANGED prefersWriters, StopsWaiting(t)
      PROVE  AheadWaits'
  BY <1>2 DEF AheadWaits, Step, In, StopsWaiting
<1>3. CASE CallRead(t)
  BY <1>3 DEF AheadWaits, CallRead, Step, In
<1>4. CASE CallWrite(t)
  BY <1>4 DEF AheadWaits, CallWrite, Step, In
<1>5. CASE AskRead(t) \/ AskWrite(t)
  <2>1. ahead[t] = {}
    BY <1>5, LookFindsNobody
  <2> QED  BY <1>1, <1>5, <2>1 DEF AskRead, AskWrite
<1>6. CASE CallUpgrade(t) \/ CountUpgrader(t) \/ Retry(t) \/ TryUpgrade(t)
           \/ TakeOff(t) \/ Downgrade(t) \/ Unlock(t)
  BY <1>1, <1>6 DEF CallUpgrade, CountUpgrader, Retry, TryUpgrade, TakeOff, Downgrade, Unlock
<1>7. CASE TryRead(t) \/ TryWrite(t) \/ GiveUp(t)
  BY <1>2, <1>7 DEF TryRead, TryWrite, GiveUp
<1> QED  BY <1>3, <1>4, <1>5, <1>6, <1>7 DEF RwStep, RwProgress

--------------------------------------------------------------------------------
(* The invariant is inductive.                                             *)
THEOREM RwInductive == RwSpec => []RwInv
<1>1. RwInv /\ [RwNext]_rwVars => RwInv'
  <2> SUFFICES ASSUME RwInv, [RwNext]_rwVars PROVE RwInv'
    OBVIOUS
  <2>0. (CounterExact <=> CountsHold) /\ (CounterExact <=> CountsHold)'
    BY ExactIsCounted, PTL
  <2>1. CASE UNCHANGED rwVars
    <3>1. CounterExact' /\ PendingExact'
      BY <2>1 DEF RwInv, CounterExact, PendingExact, Readers, Writers, In, rwVars
    <3>2. RwTypeOK' /\ AheadWaits'
      BY <2>1 DEF RwInv, RwTypeOK, AheadWaits, Preferred, In, rwVars
    <3> QED  BY <3>1, <3>2 DEF RwInv
  <2>2. ASSUME NEW t \in Callers, RwStep(t) PROVE RwInv'
    BY <2>0, <2>2, TypeStep, CountStep, PendingStep, AheadStep DEF RwInv
  <2> QED  BY <2>1, <2>2 DEF RwNext
<1> QED  BY <1>1, RwInitInv, PTL DEF RwSpec

(* The counter is the number of readers, or -1 for a single writer and no  *)
(* reader: rw_lock excludes writers from one another and from readers.     *)
THEOREM CounterExactAlways == RwSpec => []CounterExact
<1>1. RwInv => CounterExact
  BY DEF RwInv
<1> QED  BY <1>1, RwInductive, PTL

(* Nobody overtakes a caller of the preferred kind that already waited     *)
(* when he called, although rw_lock looks and tries in two operations.     *)
THEOREM PreferredFirstAlways == RwSpec => PreferredFirst
<1>1. ASSUME RwInv
      PROVE  \A t \in Callers :
                rwPc[t] \in {"try_read", "try_write"} /\ rwPc'[t] \in {"got_read", "got_write"}
                    => ahead[t] = {}
  BY <1>1 DEF RwInv, AheadWaits
<1> QED  BY <1>1, RwInductive, PTL DEF RwSpec, PreferredFirst

--------------------------------------------------------------------------------
(* deferred_command_queue.                                                 *)

(* What the invariants need of the types.                                  *)
DqTypes ==
    /\ clock \in Nat
    /\ dqJobs \subseteq Entries
    /\ procPc \in [Processors -> {"idle", "check", "wait", "sleepy", "asleep", "run", "over"}]
    /\ wakeAt \in [Processors -> Int]

(* Only a processor with the lock is between its test and its wait.        *)
LockedFetch == \A p \in Processors : procPc[p] \in {"check", "wait", "sleepy"} => dqLock = p

(* A wait that is about to begin is no longer than the first job allows.   *)
WaitsFit ==
    \A p \in Processors :
        procPc[p] \in {"sleepy", "asleep"} /\ wakeAt[p] # Never =>
            \A e \in dqJobs : wakeAt[p] <= e.at \/ wakeAt[p] <= clock

(* After the destructor's notification nobody gets past the flag.          *)
NobodyFetches ==
    /\ destructorPc # "none" => dqTerm
    /\ destructorPc \in {"join", "gone"} =>
         \A p \in Processors : procPc[p] \notin {"check", "wait", "sleepy", "asleep"}

DqInv == DqTypes /\ LockedFetch /\ WaitsFit /\ NobodyFetches

LEMMA DqInitInv == DqInit => DqInv
<1> SUFFICES ASSUME DqInit PROVE DqInv
  OBVIOUS
<1>1. DqTypes
  BY DEF DqInit, DqTypes
<1>2. (\A p \in Processors : procPc[p] = "idle") /\ destructorPc = "none"
  BY DEF DqInit
<1> QED  BY <1>1, <1>2 DEF DqInv, LockedFetch, WaitsFit, NobodyFetches

LEMMA EntriesHaveTimes == \A e \in Entries : e.at \in Nat
<1>1. FireTimes \subseteq Nat
  BY DeferredQueueConstants
<1>2. \A e \in Entries : e.at \in FireTimes
  BY DEF Entries
<1> QED  BY <1>1, <1>2

LEMMA DqStepInv == DqInv /\ [DqNext]_dqVars => DqInv'
<1> SUFFICES ASSUME DqInv, [DqNext]_dqVars PROVE DqInv'
  OBVIOUS
<1> USE DeferredQueueConstants
    DEF DqInv, DqTypes, LockedFetch, WaitsFit, NobodyFetches, jobsVars, procVars, Nobody
<1>0. \A e \in dqJobs : e.at \in Nat
  BY EntriesHaveTimes
<1>1. CASE Pass
  BY <1>0, <1>1 DEF Pass
<1>2. ASSUME NEW j \in Timers, TestLength(j) PROVE DqInv'
  BY <1>2 DEF TestLength
<1>3. ASSUME NEW j \in Timers, NEW at \in FireTimes, AddJob(j, at) PROVE DqInv'
  <2>1. /\ dqLock = Nobody /\ UNCHANGED <<clock, dqLock, dqTerm, wakeAt, destructorPc>>
        /\ procPc' = [p \in Processors |-> IF procPc[p] = "asleep" THEN "idle" ELSE procPc[p]]
    BY <1>3 DEF AddJob, NotifyAllProcessors
  <2>2. dqJobs' \subseteq Entries
    BY <1>3 DEF AddJob, Entries
  <2>3. \A p \in Processors : procPc'[p] \notin {"check", "wait", "sleepy", "asleep"}
    BY <2>1
  <2> QED  BY <2>1, <2>2, <2>3
<1>4. ASSUME NEW p \in Processors, EnterLoop(p) PROVE DqInv'
  BY <1>4 DEF EnterLoop, MoveProcessor
<1>5. ASSUME NEW p \in Processors, CheckFirst(p) PROVE DqInv'
  BY <1>5 DEF CheckFirst, MoveProcessor
<1>6. ASSUME NEW p \in Processors, ComputeWait(p) PROVE DqInv'
  <2>1. CASE dqTerm
    BY <1>6, <2>1 DEF ComputeWait, MoveProcessor
  <2>2. CASE ~dqTerm
    <3>1. PICK t \in -1..Horizon + DefaultWait : WaitEnds(t) /\ wakeAt' = [wakeAt EXCEPT ![p] = t]
      BY <1>6, <2>2 DEF ComputeWait
    <3>2. t # Never => \A e \in dqJobs : t <= e.at \/ t <= clock
      BY <1>0, <3>1 DEF WaitEnds, IsFirst, DefaultWait
    <3>3. /\ procPc' = [procPc EXCEPT ![p] = "sleepy"] /\ procPc[p] = "wait"
          /\ UNCHANGED <<clock, dqJobs, dqTerm, dqLock, destructorPc>>
      BY <1>6, <2>2 DEF ComputeWait, MoveProcessor
    <3>4. t \in Int
      BY <3>1 DEF DefaultWait
    <3> QED  BY <2>2, <3>1, <3>2, <3>3, <3>4
  <2> QED  BY <2>1, <2>2
<1>7. ASSUME NEW p \in Processors, FallAsleep(p) PROVE DqInv'
  BY <1>7 DEF FallAsleep, MoveProcessor
<1>8. ASSUME NEW p \in Processors, TimeOut(p) \/ WakeUp(p) PROVE DqInv'
  BY <1>8 DEF TimeOut, WakeUp, MoveProcessor
<1>9. ASSUME NEW p \in Processors, RunJob(p) PROVE DqInv'
  BY <1>9 DEF RunJob, MoveProcessor
<1>10. CASE TerminateQueue
  BY <1>10 DEF TerminateQueue
<1>11. CASE NotifyEnd
  BY <1>11 DEF NotifyEnd, NotifyAllProcessors
<1>12. CASE JoinProcessors
  BY <1>12 DEF JoinProcessors
<1>13. CASE UNCHANGED dqVars
  BY <1>13 DEF dqVars
<1> QED  BY <1>1, <1>2, <1>3, <1>4, <1>5, <1>6, <1>7, <1>8, <1>9, <1>10, <1>11, <1>12, <1>13
      DEF DqNext, ProcessorStep, DestructorStep

LEMMA DqInductive == DqSpec => []DqInv
  BY DqInitInv, DqStepInv, PTL DEF DqSpec

(* No processor sleeps past the time of the first job, unless its wait was *)
(* computed from a negative number.                                        *)
THEOREM WakesInTimeAlways == DqSpec => []WakesInTime
<1>1. DqInv => WakesInTime
  BY DEF DqInv, WaitsFit, WakesInTime
<1> QED  BY <1>1, DqInductive, PTL

(* Nobody the destructor joins is asleep.                                  *)
THEOREM NoSleeperJoinedAlways == DqSpec => []NoSleeperJoined
<1>1. DqInv => NoSleeperJoined
  BY DEF DqInv, NobodyFetches, NoSleeperJoined
<1> QED  BY <1>1, DqInductive, PTL

--------------------------------------------------------------------------------
(* The jobs.                                                               *)

(* A processor has a job in hand from fetch_job's return to the job's end. *)
HandsFull == \A p \in Processors : inHand[p] # NoTimer <=> procPc[p] = "run"

JobsInv == DqTypeOK /\ IsFiniteSet(dqJobs) /\ HandsFull /\ JobsAccounted

LEMMA JobsInitInv == DqInit => JobsInv
<1> SUFFICES ASSUME DqInit PROVE JobsInv
  OBVIOUS
<1>1. DqTypeOK
  <2>1. clock \in 0..Horizon
    BY DeferredQueueConstants DEF DqInit
  <2>2. /\ adderPc \in [Timers -> {"out", "admitted", "added", "overwritten"}]
        /\ procPc \in [Processors -> {"idle", "check", "wait", "sleepy", "asleep", "run", "over"}]
        /\ inHand \in [Processors -> Timers \cup {NoTimer}]
        /\ wakeAt \in [Processors -> Int]
    BY DEF DqInit
  <2>3. /\ dqJobs \subseteq Entries /\ approxSize \in Nat /\ fired \subseteq Timers
        /\ dqLock \in Processors \cup {Nobody} /\ destructorPc \in {"none", "notify", "join", "gone"}
    BY DEF DqInit
  <2>4. dqTerm \in BOOLEAN
    BY DEF DqInit
  <2> QED  BY <2>1, <2>2, <2>3, <2>4 DEF DqTypeOK
<1>3. IsFiniteSet(dqJobs) /\ HandsFull
  BY FS_EmptySet DEF DqInit, HandsFull
<1>2. Pending = {} /\ Running = {} /\ fired = {} /\ \A j \in Timers : adderPc[j] # "added"
  BY DEF DqInit, Pending, Running
<1> QED  BY <1>1, <1>2, <1>3 DEF JobsInv, JobsAccounted, DqInit

(* The entries after a job is added, and after one is taken.               *)
LEMMA FewEntries ==
    ASSUME IsFiniteSet(dqJobs), NEW S \in SUBSET dqJobs, NEW x
    PROVE  /\ IsFiniteSet(S) /\ Cardinality(S) \in Nat
           /\ IsFiniteSet(S \cup {x}) /\ Cardinality(S \cup {x}) \in Nat
  BY FS_Subset, FS_AddElement, FS_CardinalityType

LEMMA AddKeepsJobs ==
    ASSUME JobsInv, NEW j \in Timers, NEW at \in FireTimes, AddJob(j, at)
    PROVE  JobsInv'
<1> DEFINE new == [at |-> at, job |-> j]
           rest == {e \in dqJobs : e.at # at}
<1>0. /\ DqTypeOK /\ IsFiniteSet(dqJobs) /\ HandsFull /\ JobsAccounted
      /\ adderPc[j] = "admitted"
      /\ dqJobs' = rest \cup {new} /\ approxSize' = Cardinality(dqJobs')
      /\ adderPc' = [k \in Timers |-> IF k = j THEN "added"
                                      ELSE IF [at |-> at, job |-> k] \in dqJobs THEN "overwritten"
                                      ELSE adderPc[k]]
      /\ procPc' = [p \in Processors |-> IF procPc[p] = "asleep" THEN "idle" ELSE procPc[p]]
      /\ UNCHANGED <<clock, dqTerm, dqLock, inHand, wakeAt, destructorPc, fired>>
  BY DEF JobsInv, AddJob, NotifyAllProcessors
<1>1. new \in Entries /\ new.job = j /\ new.at = at /\ rest \subseteq dqJobs
  BY DEF Entries
<1>2. \A e \in dqJobs : e \in Entries /\ e = [at |-> e.at, job |-> e.job] /\ e.job \in Timers
  BY <1>0 DEF DqTypeOK, Entries
<1>3. j \notin Pending \cup Running \cup fired
  BY <1>0 DEF JobsAccounted
<1>4. IsFiniteSet(dqJobs') /\ approxSize' \in Nat
  BY <1>0, <1>1, FewEntries
<1>5. DqTypeOK'
  <2>1. dqJobs' \subseteq Entries
    BY <1>0, <1>1, <1>2
  <2>2. adderPc' \in [Timers -> {"out", "admitted", "added", "overwritten"}]
    BY <1>0 DEF DqTypeOK
  <2>3. procPc' \in [Processors -> {"idle", "check", "wait", "sleepy", "asleep", "run", "over"}]
    BY <1>0 DEF DqTypeOK
  <2> QED  BY <1>0, <1>4, <2>1, <2>2, <2>3 DEF DqTypeOK
<1>6. HandsFull'
  BY <1>0 DEF HandsFull, DqTypeOK
<1>7. Pending' = {e.job : e \in rest} \cup {j} /\ Running' = Running /\ fired' = fired
  BY <1>0, <1>1 DEF Pending, Running
<1>8. \A e, f \in dqJobs' : e.job = f.job => e = f
  <2>1. \A e \in rest : e.job # j
    BY <1>1, <1>3 DEF Pending
  <2> QED  BY <1>0, <1>1, <2>1 DEF JobsAccounted
<1>9. {k \in Timers : adderPc'[k] = "added"}
        = {j} \cup {k \in Timers : adderPc[k] = "added" /\ [at |-> at, job |-> k] \notin dqJobs}
  BY <1>0
<1>10. {e.job : e \in rest} = {k \in Pending : [at |-> at, job |-> k] \notin dqJobs}
  <2>1. ASSUME NEW e \in rest PROVE e.job \in Pending /\ [at |-> at, job |-> e.job] \notin dqJobs
    <3>1. e \in dqJobs /\ e.at # at /\ e.job \in Pending
      BY DEF Pending
    <3>2. [at |-> at, job |-> e.job].at = at /\ [at |-> at, job |-> e.job].job = e.job
      OBVIOUS
    <3> QED  BY <1>0, <3>1, <3>2 DEF JobsAccounted
  <2>2. ASSUME NEW e \in dqJobs, [at |-> at, job |-> e.job] \notin dqJobs PROVE e \in rest
    BY <1>2, <2>2
  <2> QED  BY <2>1, <2>2 DEF Pending
<1>11. \A k \in Running \cup fired : [at |-> at, job |-> k] \notin dqJobs
  <2>1. \A k : [at |-> at, job |-> k] \in dqJobs => k \in Pending
    <3>1. \A k : [at |-> at, job |-> k].job = k
      OBVIOUS
    <3> QED  BY <3>1 DEF Pending
  <2> QED  BY <1>0, <2>1 DEF JobsAccounted
<1> HIDE DEF new, rest
<1>12. Pending' \cup Running' \cup fired' = {k \in Timers : adderPc'[k] = "added"}
  <2>1. Pending \cup Running \cup fired = {k \in Timers : adderPc[k] = "added"}
    BY <1>0 DEF JobsAccounted
  <2> QED  BY <1>7, <1>9, <1>10, <1>11, <2>1
<1>13. Pending' \cap Running' = {} /\ Pending' \cap fired' = {} /\ Running' \cap fired' = {}
  BY <1>0, <1>3, <1>7, <1>10 DEF JobsAccounted
<1>14. \A p, q \in Processors : inHand'[p] = inHand'[q] /\ inHand'[p] # NoTimer => p = q
  BY <1>0 DEF JobsAccounted
<1> QED  BY <1>4, <1>5, <1>6, <1>8, <1>12, <1>13, <1>14 DEF JobsInv, JobsAccounted

LEMMA TakeKeepsJobs ==
    ASSUME JobsInv, NEW p \in Processors, CheckFirst(p)
    PROVE  JobsInv'
<1>0. /\ DqTypeOK /\ IsFiniteSet(dqJobs) /\ HandsFull /\ JobsAccounted
      /\ procPc[p] = "check" /\ inHand[p] = NoTimer
      /\ UNCHANGED <<clock, dqTerm, adderPc, wakeAt, destructorPc, fired>>
  BY DEF JobsInv, HandsFull, CheckFirst, MoveProcessor
<1>1. CASE procPc' = [procPc EXCEPT ![p] = "wait"] /\ UNCHANGED <<jobsVars, inHand, dqLock>>
  <2>1. DqTypeOK' /\ HandsFull'
    BY <1>0, <1>1 DEF DqTypeOK, HandsFull, jobsVars
  <2> QED  BY <1>0, <1>1, <2>1 DEF JobsInv, JobsAccounted, Pending, Running, jobsVars
<1>2. ASSUME NEW e \in dqJobs, procPc' = [procPc EXCEPT ![p] = "run"],
             inHand' = [inHand EXCEPT ![p] = e.job], dqJobs' = dqJobs \ {e},
             approxSize' = Cardinality(dqJobs'), dqLock' = Nobody
      PROVE  JobsInv'
  <2>1. e.job \in Timers /\ e.job # NoTimer /\ e.job \in Pending
    BY <1>0, DeferredQueueConstants DEF DqTypeOK, Entries, Pending
  <2>2. IsFiniteSet(dqJobs') /\ approxSize' \in Nat
    BY <1>0, <1>2, FewEntries
  <2>3. DqTypeOK'
    BY <1>0, <1>2, <2>1, <2>2 DEF DqTypeOK
  <2>4. HandsFull'
    BY <1>0, <1>2, <2>1 DEF DqTypeOK, HandsFull
  <2>5. Pending' = Pending \ {e.job}
    BY <1>0, <1>2 DEF Pending, JobsAccounted
  <2>6. Running' = Running \cup {e.job}
    BY <1>0, <1>2, <2>1 DEF Running, DqTypeOK
  <2>7. e.job \notin Running
    BY <1>0, <2>1 DEF JobsAccounted
  <2>8. \A q, r \in Processors : inHand'[q] = inHand'[r] /\ inHand'[q] # NoTimer => q = r
    <3>1. \A q \in Processors : inHand[q] # e.job
      BY <2>1, <2>7 DEF Running
    <3> QED  BY <1>0, <1>2, <3>1 DEF JobsAccounted, DqTypeOK
  <2>9. \A f, g \in dqJobs' : f.job = g.job => f = g
    BY <1>0, <1>2 DEF JobsAccounted
  <2> QED  BY <1>0, <2>1, <2>2, <2>3, <2>4, <2>5, <2>6, <2>7, <2>8, <2>9 DEF JobsInv, JobsAccounted
<1> QED  BY <1>1, <1>2 DEF CheckFirst, MoveProcessor

LEMMA JobsStepInv == JobsInv /\ [DqNext]_dqVars => JobsInv'
<1> SUFFICES ASSUME JobsInv, [DqNext]_dqVars PROVE JobsInv'
  OBVIOUS
<1>0. DqTypeOK /\ IsFiniteSet(dqJobs) /\ HandsFull /\ JobsAccounted
  BY DEF JobsInv
(* A step that leaves the jobs where they are.                             *)
<1>1. ASSUME UNCHANGED <<dqJobs, inHand, fired>>, DqTypeOK', HandsFull',
             \A j \in Timers : adderPc'[j] = "added" <=> adderPc[j] = "added"
      PROVE  JobsInv'
  <2>1. Pending' = Pending /\ Running' = Running /\ fired' = fired
    BY <1>1 DEF Pending, Running
  <2>2. {j \in Timers : adderPc'[j] = "added"} = {j \in Timers : adderPc[j] = "added"}
    BY <1>1
  <2> QED  BY <1>0, <1>1, <2>1, <2>2 DEF JobsInv, JobsAccounted
<1>2. CASE Pass
  <2>1. DqTypeOK' /\ HandsFull'
    BY <1>0, <1>2, DeferredQueueConstants DEF Pass, DqTypeOK, HandsFull, jobsVars, procVars
  <2> QED  BY <1>1, <1>2, <2>1 DEF Pass, jobsVars, procVars
<1>3. ASSUME NEW j \in Timers, TestLength(j) PROVE JobsInv'
  <2>1. DqTypeOK' /\ HandsFull'
    BY <1>0, <1>3 DEF TestLength, DqTypeOK, HandsFull, jobsVars, procVars
  <2>2. \A k \in Timers : adderPc'[k] = "added" <=> adderPc[k] = "added"
    BY <1>0, <1>3 DEF TestLength, DqTypeOK
  <2> QED  BY <1>1, <1>3, <2>1, <2>2 DEF TestLength, jobsVars, procVars
<1>4. ASSUME NEW j \in Timers, NEW at \in FireTimes, AddJob(j, at) PROVE JobsInv'
  BY <1>4, AddKeepsJobs
<1>5. ASSUME NEW p \in Processors, CheckFirst(p) PROVE JobsInv'
  BY <1>5, TakeKeepsJobs
<1>6. ASSUME NEW p \in Processors, EnterLoop(p) \/ FallAsleep(p) \/ TimeOut(p) \/ WakeUp(p)
      PROVE  JobsInv'
  <2>1. DqTypeOK' /\ HandsFull'
    BY <1>0, <1>6 DEF EnterLoop, FallAsleep, TimeOut, WakeUp, MoveProcessor, DqTypeOK, HandsFull,
                      jobsVars
  <2> QED  BY <1>1, <1>6, <2>1 DEF EnterLoop, FallAsleep, TimeOut, WakeUp, jobsVars
<1>7. ASSUME NEW p \in Processors, ComputeWait(p) PROVE JobsInv'
  <2>1. \A t \in -1..Horizon + DefaultWait : t \in Int
    OBVIOUS
  <2>2. DqTypeOK'
    BY <1>0, <1>7, <2>1 DEF ComputeWait, MoveProcessor, DqTypeOK, jobsVars
  <2>3. HandsFull'
    BY <1>0, <1>7 DEF ComputeWait, MoveProcessor, DqTypeOK, HandsFull
  <2> QED  BY <1>1, <1>7, <2>2, <2>3 DEF ComputeWait, jobsVars
<1>8. ASSUME NEW p \in Processors, RunJob(p) PROVE JobsInv'
  <2>1. /\ procPc[p] = "run" /\ procPc' = [procPc EXCEPT ![p] = "idle"]
        /\ fired' = fired \cup {inHand[p]} /\ inHand' = [inHand EXCEPT ![p] = NoTimer]
        /\ UNCHANGED <<clock, jobsVars, dqTerm, dqLock, adderPc, wakeAt, destructorPc>>
    BY <1>8 DEF RunJob, MoveProcessor
  <2>2. inHand[p] \in Timers /\ inHand[p] # NoTimer /\ inHand[p] \in Running
    BY <1>0, <2>1 DEF HandsFull, DqTypeOK, Running
  <2>3. DqTypeOK' /\ HandsFull'
    BY <1>0, <2>1, <2>2 DEF DqTypeOK, HandsFull, jobsVars
  <2>4. Pending' = Pending
    BY <2>1 DEF Pending, jobsVars
  <2>5. Running' = Running \ {inHand[p]}
    BY <1>0, <2>1, <2>2 DEF Running, DqTypeOK, JobsAccounted
  <2>6. \A q, r \in Processors : inHand'[q] = inHand'[r] /\ inHand'[q] # NoTimer => q = r
    BY <1>0, <2>1 DEF JobsAccounted, DqTypeOK
  <2> QED  BY <1>0, <2>1, <2>2, <2>3, <2>4, <2>5, <2>6 DEF JobsInv, JobsAccounted, jobsVars
<1>9. CASE TerminateQueue \/ JoinProcessors
  <2>1. DqTypeOK' /\ HandsFull'
    BY <1>0, <1>9 DEF TerminateQueue, JoinProcessors, DqTypeOK, HandsFull, jobsVars, procVars
  <2> QED  BY <1>1, <1>9, <2>1 DEF TerminateQueue, JoinProcessors, jobsVars, procVars
<1>10. CASE NotifyEnd
  <2>1. DqTypeOK' /\ HandsFull'
    BY <1>0, <1>10 DEF NotifyEnd, NotifyAllProcessors, DqTypeOK, HandsFull, jobsVars
  <2> QED  BY <1>1, <1>10, <2>1 DEF NotifyEnd, jobsVars
<1>11. CASE UNCHANGED dqVars
  <2>1. DqTypeOK' /\ HandsFull'
    BY <1>0, <1>11 DEF dqVars, DqTypeOK, HandsFull, jobsVars, procVars
  <2> QED  BY <1>1, <1>11, <2>1 DEF dqVars, jobsVars, procVars
<1> QED  BY <1>2, <1>3, <1>4, <1>5, <1>6, <1>7, <1>8, <1>9, <1>10, <1>11
      DEF DqNext, ProcessorStep, DestructorStep

(* No job is lost, run twice or in two hands, for any number of processors *)
(* that race for the first entry and of jobs that take the fire times of   *)
(* others.                                                                 *)
THEOREM JobsAccountedAlways == DqSpec => [](DqTypeOK /\ JobsAccounted)
<1>1. JobsInv => DqTypeOK /\ JobsAccounted
  BY DEF JobsInv
<1> QED  BY <1>1, JobsInitInv, JobsStepInv, PTL DEF DqSpec

--------------------------------------------------------------------------------
(* ring_buffer.                                                            *)

C == Capacity
Idx(p, i) == (p + i) % Capacity

(* How far a slot is from the first one.                                   *)
Off(p, s) == IF s >= p THEN s - p ELSE s - p + C

RbInv == RbTypeOK /\ SlotsHoldWindow

--------------------------------------------------------------------------------
(* Arithmetic of the indices.                                              *)

LEMMA Modulo == \A x \in Nat : x < 2 * Capacity => x % Capacity = IF x < Capacity THEN x ELSE x - Capacity
  BY RingBufferConstants

LEMMA Index == \A p \in Slots, i \in 0..C : Idx(p, i) = IF p + i < C THEN p + i ELSE p + i - C
<1> SUFFICES ASSUME NEW p \in Slots, NEW i \in 0..C
             PROVE  Idx(p, i) = IF p + i < C THEN p + i ELSE p + i - C
  OBVIOUS
<1>1. p + i \in Nat /\ p + i < 2 * Capacity
  BY RingBufferConstants DEF Slots, C
<1>2. (p + i) % Capacity = IF p + i < Capacity THEN p + i ELSE (p + i) - Capacity
  BY <1>1, Modulo
<1> QED  BY <1>2, RingBufferConstants DEF Idx, C, Slots

LEMMA IndexInSlots == \A p \in Slots, i \in 0..C : Idx(p, i) \in Slots
  BY Index, RingBufferConstants DEF Slots, C

(* The window from p on, n slots long.                                     *)
LEMMA WindowIs ==
    ASSUME NEW p \in Slots, NEW n \in 0..C, NEW s \in Slots
    PROVE  (\E i \in 0..n - 1 : s = Idx(p, i)) <=> Off(p, s) < n
<1>1. ASSUME NEW i \in 0..n - 1, s = Idx(p, i) PROVE Off(p, s) < n
  <2>1. s = IF p + i < C THEN p + i ELSE p + i - C
    BY <1>1, Index, RingBufferConstants DEF C
  <2> QED  BY <1>1, <2>1, RingBufferConstants DEF Off, Slots, C
<1>2. ASSUME Off(p, s) < n PROVE \E i \in 0..n - 1 : s = Idx(p, i)
  <2>1. Off(p, s) \in 0..n - 1
    BY <1>2, RingBufferConstants DEF Off, Slots, C
  <2>2. Off(p, s) \in 0..C
    BY <2>1, RingBufferConstants DEF C
  <2>3. s = Idx(p, Off(p, s))
    BY <2>2, Index, RingBufferConstants DEF Off, Slots, C
  <2> QED  BY <2>1, <2>3
<1> QED  BY <1>1, <1>2

(* What is at which offset, from a slot and from the one after it.         *)
LEMMA Offsets ==
    ASSUME NEW p \in Slots
    PROVE  /\ \A i \in 0..C - 1 : Idx(p, i) \in Slots /\ Off(p, Idx(p, i)) = i
           /\ \A s \in Slots : Off(p, s) \in 0..C - 1 /\ s = Idx(p, Off(p, s))
           /\ \A s \in Slots : Off(Idx(p, 1), s) = IF s = p THEN C - 1 ELSE Off(p, s) - 1
<1>1. \A i \in 0..C : Idx(p, i) = IF p + i < C THEN p + i ELSE p + i - C
  BY Index
<1>2. \A i \in 0..C - 1 : Idx(p, i) \in Slots /\ Off(p, Idx(p, i)) = i
  BY <1>1, RingBufferConstants DEF Off, Slots, C
<1>3. \A s \in Slots : Off(p, s) \in 0..C - 1 /\ s = Idx(p, Off(p, s))
  BY <1>1, RingBufferConstants DEF Off, Slots, C
<1>4. \A s \in Slots : Off(Idx(p, 1), s) = IF s = p THEN C - 1 ELSE Off(p, s) - 1
  <2>1. Idx(p, 1) = IF p + 1 < C THEN p + 1 ELSE 0
    BY <1>1, RingBufferConstants DEF Slots, C
  <2> QED  BY <2>1, RingBufferConstants DEF Off, Slots, C
<1> QED  BY <1>2, <1>3, <1>4

LEMMA NextIndex ==
    ASSUME NEW p \in Slots, NEW i \in 0..C - 1
    PROVE  Idx(Idx(p, 1), i) = IF i = C - 1 THEN p ELSE Idx(p, i + 1)
<1>1. Idx(p, 1) = IF p + 1 < C THEN p + 1 ELSE 0
  BY Index, RingBufferConstants DEF Slots, C
<1>2. Idx(p, 1) \in Slots /\ i \in 0..C /\ i + 1 \in 0..C
  BY IndexInSlots, RingBufferConstants DEF C
<1>3. Idx(Idx(p, 1), i) = IF Idx(p, 1) + i < C THEN Idx(p, 1) + i ELSE Idx(p, 1) + i - C
  BY <1>2, Index
<1>4. Idx(p, i + 1) = IF p + (i + 1) < C THEN p + (i + 1) ELSE p + (i + 1) - C
  BY <1>2, Index
<1> QED  BY <1>1, <1>3, <1>4, RingBufferConstants DEF Slots, C

--------------------------------------------------------------------------------
(* Which slots hold objects.                                               *)

(* SlotsHoldWindow in terms of offsets.                                    *)
Held(b, p, n) == \A s \in Slots : b[s] # Dead <=> Off(p, s) < n

LEMMA HeldIs == pos \in Slots /\ size \in 0..C => (SlotsHoldWindow <=> Held(buff, pos, size))
  BY WindowIs DEF SlotsHoldWindow, Held, wrp_idx, Idx

LEMMA RbInitInv == RbInit => RbInv
<1> SUFFICES ASSUME RbInit PROVE RbInv
  OBVIOUS
<1>1. RbTypeOK
  <2>1. 0 \in Slots /\ 0 \in 0..Capacity
    BY RingBufferConstants DEF Slots
  <2> QED  BY <2>1 DEF RbInit, RbTypeOK
<1>2. SlotsHoldWindow
  BY RingBufferConstants DEF RbInit, SlotsHoldWindow
<1> QED  BY <1>1, <1>2 DEF RbInv

(* A value pushed, in either branch; the position may move or stay.        *)
LEMMA PushHeld ==
    ASSUME RbTypeOK, Held(buff, pos, size), NEW v \in Values,
           \/ /\ size = Capacity /\ buff' = [buff EXCEPT ![pos] = v]
              /\ pos' \in {pos, wrp_idx(1)} /\ size' = size
           \/ /\ size # Capacity /\ buff' = [buff EXCEPT ![wrp_idx(size)] = v]
              /\ pos' = pos /\ size' = size + 1
    PROVE  /\ buff' \in [Slots -> Values \cup {Dead}] /\ pos' \in Slots /\ size' \in 0..Capacity
           /\ Held(buff', pos', size')
<1>0. v # Dead /\ Capacity \in Nat \ {0} /\ pos \in Slots /\ size \in 0..C
  BY RingBufferConstants DEF RbTypeOK, C
<1>1. CASE size = Capacity /\ buff' = [buff EXCEPT ![pos] = v] /\ pos' \in {pos, wrp_idx(1)}
           /\ size' = size
  <2>1. pos' \in Slots
    BY <1>0, <1>1, IndexInSlots DEF wrp_idx, Idx, C
  <2>2. \A s \in Slots : Off(pos, s) < size /\ Off(pos', s) < size
    <3>1. \A p \in Slots, s \in Slots : Off(p, s) \in 0..C - 1
      BY Offsets
    <3> QED  BY <1>0, <1>1, <2>1, <3>1 DEF C
  <2> QED  BY <1>0, <1>1, <2>1, <2>2 DEF Held, RbTypeOK
<1>2. CASE size # Capacity /\ buff' = [buff EXCEPT ![wrp_idx(size)] = v] /\ pos' = pos
           /\ size' = size + 1
  <2>1. size \in 0..C - 1 /\ size + 1 \in 0..C
    BY <1>0, <1>2 DEF C
  <2>2. wrp_idx(size) \in Slots /\ Off(pos, wrp_idx(size)) = size
    BY <1>0, <2>1, Offsets DEF wrp_idx, Idx
  <2>3. \A s \in Slots : Off(pos, s) \in 0..C - 1 /\ (Off(pos, s) = size => s = wrp_idx(size))
    BY <1>0, Offsets DEF wrp_idx, Idx
  <2>4. \A s \in Slots : Off(pos, s) < size + 1 <=> Off(pos, s) < size \/ s = wrp_idx(size)
    BY <2>1, <2>2, <2>3 DEF C
  <2> QED  BY <1>0, <1>2, <2>1, <2>2, <2>4 DEF Held, RbTypeOK, C
<1> QED  BY <1>1, <1>2

LEMMA PopHeld ==
    ASSUME RbTypeOK, Held(buff, pos, size), RbPopFront \/ RbPopBack
    PROVE  RbTypeOK' /\ Held(buff', pos', size')
<1>0. Capacity \in Nat \ {0} /\ pos \in Slots /\ size \in 1..C /\ size - 1 \in 0..C - 1
  BY RingBufferConstants DEF RbTypeOK, RbPopFront, RbPopBack, C
<1>1. CASE RbPopFront
  <2>1. pos' = Idx(pos, 1) /\ pos' \in Slots /\ size' = size - 1 /\ buff' = [buff EXCEPT ![pos] = Dead]
    BY <1>0, <1>1, IndexInSlots DEF RbPopFront, wrp_idx, Idx, C
  <2>2. \A s \in Slots : Off(pos', s) = IF s = pos THEN C - 1 ELSE Off(pos, s) - 1
    BY <1>0, <2>1, Offsets
  <2>3. \A s \in Slots : Off(pos, s) \in 0..C - 1
    BY <1>0, Offsets
  <2>4. RbTypeOK'
    BY <1>0, <1>1, <2>1 DEF RbTypeOK, RbPopFront, C
  <2>5. \A s \in Slots : Off(pos', s) < size - 1 <=> s # pos /\ Off(pos, s) < size
    BY <1>0, <2>2, <2>3 DEF C
  <2> QED  BY <1>0, <2>1, <2>4, <2>5 DEF Held, RbTypeOK
<1>2. CASE RbPopBack
  <2>1. pos' = pos /\ size' = size - 1 /\ buff' = [buff EXCEPT ![wrp_idx(size - 1)] = Dead]
    BY <1>2 DEF RbPopBack
  <2>2. wrp_idx(size - 1) \in Slots /\ Off(pos, wrp_idx(size - 1)) = size - 1
    BY <1>0, Offsets DEF wrp_idx, Idx
  <2>3. \A s \in Slots : Off(pos, s) \in 0..C - 1 /\ (Off(pos, s) = size - 1 => s = wrp_idx(size - 1))
    BY <1>0, Offsets DEF wrp_idx, Idx
  <2>4. \A s \in Slots : Off(pos, s) < size - 1 <=> Off(pos, s) < size /\ s # wrp_idx(size - 1)
    BY <1>0, <2>2, <2>3 DEF C
  <2>5. RbTypeOK'
    <3>1. size' \in 0..Capacity
      BY <1>0, <2>1 DEF C
    <3> QED  BY <1>2, <2>1, <3>1 DEF RbTypeOK, RbPopBack
  <2> QED  BY <1>0, <2>1, <2>2, <2>4, <2>5 DEF Held, RbTypeOK
<1> QED  BY <1>1, <1>2

LEMMA ClearHeld ==
    ASSUME RbTypeOK, Held(buff, pos, size), RbClear \/ Copy
    PROVE  RbTypeOK' /\ Held(buff', pos', size')
<1>0. Capacity \in Nat \ {0} /\ pos \in Slots /\ size \in 0..C /\ 0 \in Slots
  BY RingBufferConstants DEF RbTypeOK, C, Slots
<1>1. \A s \in Slots : Off(0, s) = s
  BY <1>0 DEF Off, Slots
<1>2. CASE RbClear
  <2>1. \A s \in Slots : buff'[s] = Dead
    BY <1>0, <1>2, WindowIs DEF RbClear, Held, wrp_idx, Idx
  <2>2. RbTypeOK'
    BY <1>0, <1>2 DEF RbTypeOK, RbClear
  <2> QED  BY <1>0, <1>1, <1>2, <2>1, <2>2 DEF Held, RbClear, Slots
<1>3. CASE Copy
  <2>1. \A s \in Slots : s < size => Contents[s + 1] = buff[Idx(pos, s)]
    BY <1>0 DEF Contents, wrp_idx, Idx, Slots, C
  <2>2. \A s \in Slots : s < size => Idx(pos, s) \in Slots /\ buff[Idx(pos, s)] # Dead
    BY <1>0, Offsets DEF Held, Slots, C
  <2>3. RbTypeOK'
    BY <1>0, <1>3, <2>1, <2>2 DEF RbTypeOK, Copy, C
  <2>4. \A s \in Slots : buff'[s] # Dead <=> s < size
    BY <1>3, <2>1, <2>2 DEF Copy
  <2> QED  BY <1>0, <1>1, <1>3, <2>3, <2>4 DEF Held, Copy
<1> QED  BY <1>2, <1>3

LEMMA RbStepInv == RbInv /\ [RbNext]_rbVars => RbInv'
<1> SUFFICES ASSUME RbInv, [RbNext]_rbVars PROVE RbInv'
  OBVIOUS
<1>0. RbTypeOK /\ Held(buff, pos, size)
  BY HeldIs DEF RbInv, RbTypeOK, C
<1>1. SUFFICES RbTypeOK' /\ Held(buff', pos', size')
  <2>1. (pos \in Slots /\ size \in 0..C => (SlotsHoldWindow <=> Held(buff, pos, size)))'
    BY HeldIs, PTL
  <2> QED  BY <2>1 DEF RbInv, RbTypeOK, C, Slots, Held, Off
<1>2. CASE UNCHANGED rbVars
  BY <1>0, <1>2 DEF RbTypeOK, rbVars
<1>3. ASSUME NEW v \in Values, PushCopy(v) PROVE RbTypeOK' /\ Held(buff', pos', size')
  <2>1. assignable' \in BOOLEAN /\ stuck' \in BOOLEAN
    BY <1>0, <1>3 DEF PushCopy, RbTypeOK
  <2> QED  BY <1>0, <1>3, <2>1, PushHeld DEF PushCopy, RbTypeOK
<1>4. ASSUME NEW v \in Values, PushMove(v) PROVE RbTypeOK' /\ Held(buff', pos', size')
  <2>1. assignable' \in BOOLEAN /\ stuck' \in BOOLEAN
    BY <1>0, <1>4 DEF PushMove, RbTypeOK
  <2> QED  BY <1>0, <1>4, <2>1, PushHeld DEF PushMove, RbTypeOK
<1>5. CASE RbPopFront \/ RbPopBack
  BY <1>0, <1>5, PopHeld
<1>6. CASE RbClear \/ Copy
  BY <1>0, <1>6, ClearHeld
<1> QED  BY <1>2, <1>3, <1>4, <1>5, <1>6 DEF RbNext

(* The invariant is inductive.                                             *)
THEOREM RbInductive == RbSpec => []RbInv
  BY RbInitInv, RbStepInv, PTL DEF RbSpec

(* Exactly the slots of the window hold objects: push and pop never        *)
(* destroy an object twice, leak one or read one after its end.            *)
THEOREM SlotsHoldWindowAlways == RbSpec => []SlotsHoldWindow
<1>1. RbInv => SlotsHoldWindow
  BY DEF RbInv
<1> QED  BY <1>1, RbInductive, PTL

--------------------------------------------------------------------------------
(* The refinement.                                                         *)

Cells == Values \cup {Dead}

(* The contents of a buffer b with n elements from p on.                   *)
SeqFrom(b, p, n) == [i \in 1..n |-> b[Idx(p, i - 1)]]

(* One slot overwritten; the provers see an equality of names only.        *)
Upd(b, p, v) == [b EXCEPT ![p] = v]

LEMMA ContentsIs == Contents = SeqFrom(buff, pos, size)
  BY DEF Contents, SeqFrom, wrp_idx, Idx

LEMMA HeldSeqType ==
    ASSUME NEW b \in [Slots -> Cells], NEW p \in Slots, NEW n \in 0..C
    PROVE  /\ SeqFrom(b, p, n) \in Seq(Cells)
           /\ Len(SeqFrom(b, p, n)) = n
           /\ \A i \in 1..n : SeqFrom(b, p, n)[i] = b[Idx(p, i - 1)] /\ Idx(p, i - 1) \in Slots
<1>1. n \in Nat /\ \A i \in 1..n : i - 1 \in 0..C
  BY RingBufferConstants DEF C
<1>2. \A i \in 1..n : Idx(p, i - 1) \in Slots
  BY <1>1, IndexInSlots
<1> QED  BY <1>1, <1>2 DEF SeqFrom

LEMMA PushFull ==
    ASSUME NEW b \in [Slots -> Cells], NEW p \in Slots, NEW v \in Cells,
           NEW b2 \in [Slots -> Cells], NEW q \in Slots
    PROVE  b2 = Upd(b, p, v) /\ q = Idx(p, 1) =>
             SeqFrom(b2, q, C) = Append(Tail(SeqFrom(b, p, C)), v)
<1> DEFINE s == SeqFrom(b, p, C)
           t == SeqFrom(b2, q, C)
           u == Append(Tail(s), v)
<1>0. C \in Nat \ {0} /\ C \in 0..C
  BY RingBufferConstants DEF C
<1>1. /\ s \in Seq(Cells) /\ Len(s) = C
      /\ \A i \in 1..C : s[i] = b[Idx(p, i - 1)] /\ Idx(p, i - 1) \in Slots
  BY <1>0, HeldSeqType
<1>2. /\ t \in Seq(Cells) /\ Len(t) = C
      /\ \A i \in 1..C : t[i] = b2[Idx(q, i - 1)] /\ Idx(q, i - 1) \in Slots
  BY <1>0, HeldSeqType
<1> SUFFICES ASSUME b2 = Upd(b, p, v), q = Idx(p, 1) PROVE t = u
  OBVIOUS
<1>3. /\ u \in Seq(Cells) /\ Len(u) = C
      /\ \A i \in 1..C : u[i] = IF i = C THEN v ELSE s[i + 1]
  <2> HIDE DEF s
  <2>1. s # <<>>
    BY <1>0, <1>1
  <2>2. /\ Tail(s) \in Seq(Cells) /\ Len(Tail(s)) = C - 1
        /\ \A i \in 1..C - 1 : Tail(s)[i] = s[i + 1]
    BY <1>1, <2>1, HeadTailProperties
  <2> QED  BY <1>0, <2>2
<1>4. \A i \in 1..C : t[i] = u[i]
  <2> SUFFICES ASSUME NEW i \in 1..C PROVE t[i] = u[i]
    OBVIOUS
  <2>1. i - 1 \in 0..C - 1 /\ i \in 0..C
    BY <1>0
  <2>2. Idx(q, i - 1) = IF i = C THEN p ELSE Idx(p, i)
    <3>1. Idx(Idx(p, 1), i - 1) = IF i - 1 = C - 1 THEN p ELSE Idx(p, (i - 1) + 1)
      BY <2>1, NextIndex
    <3>2. (i - 1) + 1 = i /\ (i - 1 = C - 1 <=> i = C)
      BY <1>0
    <3> QED  BY <3>1, <3>2
  <2>3. CASE i = C
    BY <1>0, <1>2, <1>3, <2>2, <2>3 DEF Upd
  <2>4. CASE i # C
    <3>1. i + 1 \in 1..C /\ (i + 1) - 1 = i
      BY <1>0, <2>4
    <3>2. Idx(p, i) \in Slots /\ Idx(p, i) # p
      <4>1. i \in 1..C - 1 /\ i \in 0..C - 1 /\ 0 \in 0..C - 1
        BY <1>0, <2>4
      <4>2. Idx(p, i) \in Slots
        BY <2>1, IndexInSlots
      <4>3. Off(p, Idx(p, i)) = i
        BY <4>1, Offsets
      <4>4. Off(p, p) = 0
        BY RingBufferConstants DEF Off, Slots, C
      <4> QED  BY <4>1, <4>2, <4>3, <4>4
    <3>3. b2[Idx(p, i)] = b[Idx(p, i)]
      BY <3>2 DEF Upd
    <3>4. t[i] = b[Idx(p, i)]
      BY <1>2, <2>2, <2>4, <3>3
    <3>5. s[i + 1] = b[Idx(p, i)]
      BY <1>1, <3>1
    <3> QED  BY <1>3, <2>4, <3>4, <3>5
  <2> QED  BY <2>3, <2>4
<1>5. t = u
  <2> HIDE DEF t, u
  <2> QED  BY <1>2, <1>3, <1>4, SeqEqual
<1> QED  BY <1>5

LEMMA PushRoom ==
    ASSUME NEW b \in [Slots -> Cells], NEW p \in Slots, NEW n \in 0..C - 1, NEW v \in Cells,
           NEW b2 \in [Slots -> Cells], NEW m \in 0..C
    PROVE  b2 = Upd(b, Idx(p, n), v) /\ m = n + 1 =>
             SeqFrom(b2, p, m) = Append(SeqFrom(b, p, n), v)
<1> DEFINE s == SeqFrom(b, p, n)
           t == SeqFrom(b2, p, m)
           u == Append(s, v)
<1>0. /\ C \in Nat \ {0} /\ n \in 0..C /\ n \in Nat /\ Idx(p, n) \in Slots
  BY IndexInSlots, RingBufferConstants DEF C
<1>1. /\ s \in Seq(Cells) /\ Len(s) = n
      /\ \A i \in 1..n : s[i] = b[Idx(p, i - 1)] /\ Idx(p, i - 1) \in Slots
  BY <1>0, HeldSeqType
<1>2. /\ t \in Seq(Cells) /\ Len(t) = m
      /\ \A i \in 1..m : t[i] = b2[Idx(p, i - 1)] /\ Idx(p, i - 1) \in Slots
  BY <1>0, HeldSeqType
<1> SUFFICES ASSUME b2 = Upd(b, Idx(p, n), v), m = n + 1 PROVE t = u
  OBVIOUS
<1>3. u \in Seq(Cells) /\ Len(u) = m /\ \A i \in 1..m : u[i] = IF i = m THEN v ELSE s[i]
  <2> HIDE DEF s
  <2> QED  BY <1>0, <1>1
<1>4. \A i \in 1..m : t[i] = u[i]
  <2> SUFFICES ASSUME NEW i \in 1..m PROVE t[i] = u[i]
    OBVIOUS
  <2>1. CASE i = m
    <3>1. i - 1 = n
      BY <1>0, <2>1
    <3> QED  BY <1>0, <1>2, <1>3, <2>1, <3>1 DEF Upd
  <2>2. CASE i # m
    <3>1. i \in 1..n /\ i - 1 \in 0..C - 1 /\ n \in 0..C - 1 /\ i - 1 # n
      BY <1>0, <2>2
    <3>2. Off(p, Idx(p, i - 1)) = i - 1 /\ Off(p, Idx(p, n)) = n
      BY <3>1, Offsets
    <3>3. Idx(p, i - 1) # Idx(p, n)
      BY <3>1, <3>2
    <3> QED  BY <1>0, <1>1, <1>2, <1>3, <2>2, <3>1, <3>3 DEF Upd
  <2> QED  BY <2>1, <2>2
<1>5. t = u
  <2> HIDE DEF t, u
  <2> QED  BY <1>2, <1>3, <1>4, SeqEqual
<1> QED  BY <1>5

LEMMA PopFirst ==
    ASSUME NEW b \in [Slots -> Cells], NEW p \in Slots, NEW n \in 1..C,
           NEW b2 \in [Slots -> Cells], NEW q \in Slots, NEW m \in 0..C
    PROVE  b2 = Upd(b, p, Dead) /\ q = Idx(p, 1) /\ m = n - 1 =>
             SeqFrom(b2, q, m) = Tail(SeqFrom(b, p, n))
<1> DEFINE s == SeqFrom(b, p, n)
           t == SeqFrom(b2, q, m)
           u == Tail(s)
<1>0. C \in Nat \ {0} /\ n \in 0..C /\ n \in Nat
  BY RingBufferConstants DEF C
<1>1. /\ s \in Seq(Cells) /\ Len(s) = n
      /\ \A i \in 1..n : s[i] = b[Idx(p, i - 1)] /\ Idx(p, i - 1) \in Slots
  BY <1>0, HeldSeqType
<1>2. /\ t \in Seq(Cells) /\ Len(t) = m
      /\ \A i \in 1..m : t[i] = b2[Idx(q, i - 1)] /\ Idx(q, i - 1) \in Slots
  BY <1>0, HeldSeqType
<1> SUFFICES ASSUME b2 = Upd(b, p, Dead), q = Idx(p, 1), m = n - 1 PROVE t = u
  OBVIOUS
<1>3. u \in Seq(Cells) /\ Len(u) = m /\ \A i \in 1..m : u[i] = s[i + 1]
  <2> HIDE DEF s
  <2>1. s # <<>>
    BY <1>0, <1>1
  <2> QED  BY <1>0, <1>1, <2>1, HeadTailProperties
<1>4. \A i \in 1..m : t[i] = u[i]
  <2> SUFFICES ASSUME NEW i \in 1..m PROVE t[i] = u[i]
    OBVIOUS
  <2>1. /\ i \in 0..C - 1 /\ i - 1 \in 0..C - 1 /\ i - 1 # C - 1 /\ (i - 1) + 1 = i /\ i # 0
        /\ 0 \in 0..C - 1 /\ i + 1 \in 1..n /\ (i + 1) - 1 = i
    BY <1>0
  <2>2. Idx(q, i - 1) = Idx(p, i)
    BY <2>1, NextIndex
  <2>3. Off(p, Idx(p, i)) = i
    BY <2>1, Offsets
  <2>4. Off(p, p) = 0
    BY RingBufferConstants DEF Off, Slots, C
  <2>5. Idx(p, i) # p
    BY <2>1, <2>3, <2>4
  <2>6. t[i] = b2[Idx(p, i)] /\ Idx(p, i) \in Slots
    BY <1>2, <2>2
  <2>7. s[i + 1] = b[Idx(p, i)]
    BY <1>1, <2>1
  <2> QED  BY <1>3, <2>5, <2>6, <2>7 DEF Upd
<1>5. t = u
  <2> HIDE DEF t, u
  <2> QED  BY <1>2, <1>3, <1>4, SeqEqual
<1> QED  BY <1>5

LEMMA PopLast ==
    ASSUME NEW b \in [Slots -> Cells], NEW p \in Slots, NEW n \in 1..C,
           NEW b2 \in [Slots -> Cells], NEW m \in 0..C
    PROVE  b2 = Upd(b, Idx(p, m), Dead) /\ m = n - 1 =>
             SeqFrom(b2, p, m) = SubSeq(SeqFrom(b, p, n), 1, m)
<1> DEFINE s == SeqFrom(b, p, n)
           t == SeqFrom(b2, p, m)
           u == SubSeq(s, 1, m)
<1>0. C \in Nat \ {0} /\ n \in 0..C /\ n \in Nat
  BY RingBufferConstants DEF C
<1>1. /\ s \in Seq(Cells) /\ Len(s) = n
      /\ \A i \in 1..n : s[i] = b[Idx(p, i - 1)] /\ Idx(p, i - 1) \in Slots
  BY <1>0, HeldSeqType
<1>2. /\ t \in Seq(Cells) /\ Len(t) = m
      /\ \A i \in 1..m : t[i] = b2[Idx(p, i - 1)] /\ Idx(p, i - 1) \in Slots
  BY <1>0, HeldSeqType
<1> SUFFICES ASSUME b2 = Upd(b, Idx(p, m), Dead), m = n - 1 PROVE t = u
  OBVIOUS
<1>3. u \in Seq(Cells) /\ Len(u) = m /\ \A i \in 1..m : u[i] = s[i]
  <2> HIDE DEF s
  <2>1. m \in 0..Len(s) /\ m <= Len(s) /\ m \in Nat
    BY <1>0, <1>1
  <2> QED  BY <1>0, <1>1, <2>1, SubSeqProperties
<1>4. \A i \in 1..m : t[i] = u[i]
  <2> SUFFICES ASSUME NEW i \in 1..m PROVE t[i] = u[i]
    OBVIOUS
  <2>1. i \in 1..n /\ i - 1 \in 0..C - 1 /\ m \in 0..C - 1 /\ i - 1 # m
    BY <1>0
  <2>2. Off(p, Idx(p, i - 1)) = i - 1 /\ Off(p, Idx(p, m)) = m
    BY <2>1, Offsets
  <2>3. Idx(p, i - 1) # Idx(p, m)
    BY <2>1, <2>2
  <2> QED  BY <1>1, <1>2, <1>3, <2>1, <2>3 DEF Upd
<1>5. t = u
  <2> HIDE DEF t, u
  <2> QED  BY <1>2, <1>3, <1>4, SeqEqual
<1> QED  BY <1>5

LEMMA ContentsType ==
    pos \in Slots /\ size \in 0..C /\ buff \in [Slots -> Cells] =>
      Contents \in Seq(Cells) /\ Len(Contents) = size
  BY ContentsIs, HeldSeqType

(* Each operation maps to the operation of the same name, or to a stutter. *)
LEMMA RbStepWindow ==
    RbInv /\ RbInv' /\ [RbNext]_rbVars => [~stuck' => Window!WindowNext \/ UNCHANGED Contents]_rbVars
<1> SUFFICES ASSUME RbInv, RbInv', RbNext, ~stuck'
             PROVE  Window!WindowNext \/ UNCHANGED Contents
  OBVIOUS
<1>0. /\ Capacity \in Nat \ {0} /\ pos \in Slots /\ size \in 0..C /\ buff \in [Slots -> Cells]
      /\ pos' \in Slots /\ size' \in 0..C /\ buff' \in [Slots -> Cells]
  BY RingBufferConstants DEF RbInv, RbTypeOK, C, Cells
<1>1. Contents = SeqFrom(buff, pos, size) /\ Contents' = SeqFrom(buff', pos', size')
  <2>1. (Contents = SeqFrom(buff, pos, size))'
    BY ContentsIs, PTL
  <2> QED  BY <2>1, ContentsIs
<1>2. Len(Contents) = size /\ Contents \in Seq(Cells)
  BY <1>0, ContentsType
<1>3. Len(Contents') = size' /\ Contents' \in Seq(Cells)
  <2>1. (pos \in Slots /\ size \in 0..C /\ buff \in [Slots -> Cells] =>
           Contents \in Seq(Cells) /\ Len(Contents) = size)'
    BY ContentsType, PTL
  <2> QED  BY <1>0, <2>1 DEF C, Slots, Cells
<1>4. ASSUME NEW v \in Values, PushCopy(v) \/ PushMove(v) PROVE Window!WindowNext
  <2>0. v \in Cells
    BY DEF Cells
  <2>1. CASE size = Capacity
    <3>1. pos' = Idx(pos, 1) /\ buff' = Upd(buff, pos, v) /\ size' = C /\ size = C
      BY <1>0, <1>4, <2>1 DEF PushCopy, PushMove, wrp_idx, Idx, C, Upd
    <3>2. Contents' = Append(Tail(Contents), v)
      <4>1. SeqFrom(buff', pos', C) = Append(Tail(SeqFrom(buff, pos, C)), v)
        BY <1>0, <2>0, <3>1, PushFull
      <4> QED  BY <1>1, <3>1, <4>1
    <3> QED  BY <1>2, <2>1, <3>2 DEF Window!WindowNext, Window!Push
  <2>2. CASE size # Capacity
    <3>1. pos' = pos /\ buff' = Upd(buff, Idx(pos, size), v) /\ size' = size + 1
      BY <1>0, <1>4, <2>2 DEF PushCopy, PushMove, wrp_idx, Idx, C, Upd
    <3>2. size \in 0..C - 1
      BY <1>0, <2>2 DEF C
    <3>3. Contents' = Append(Contents, v)
      <4>1. SeqFrom(buff', pos', size') = Append(SeqFrom(buff, pos, size), v)
        BY <1>0, <2>0, <3>1, <3>2, PushRoom
      <4> QED  BY <1>1, <3>1, <4>1
    <3> QED  BY <1>2, <2>2, <3>3 DEF Window!WindowNext, Window!Push
  <2> QED  BY <2>1, <2>2
<1>5. ASSUME size > 0 PROVE size \in 1..C /\ Contents # <<>>
  BY <1>0, <1>2, <1>5 DEF C
<1>6. CASE RbPopFront
  <2>1. size > 0 /\ pos' = Idx(pos, 1) /\ buff' = Upd(buff, pos, Dead) /\ size' = size - 1
    BY <1>6 DEF RbPopFront, wrp_idx, Idx, Upd
  <2>2. Contents' = Tail(Contents)
    <3>1. SeqFrom(buff', pos', size') = Tail(SeqFrom(buff, pos, size))
      BY <1>0, <1>5, <2>1, PopFirst
    <3> QED  BY <1>1, <3>1
  <2> QED  BY <1>5, <2>1, <2>2 DEF Window!WindowNext, Window!PopFront
<1>7. CASE RbPopBack
  <2>1. size > 0 /\ pos' = pos /\ size' = size - 1 /\ buff' = Upd(buff, Idx(pos, size'), Dead)
    BY <1>7 DEF RbPopBack, wrp_idx, Idx, Upd
  <2>2. Contents' = SubSeq(Contents, 1, size')
    <3>1. SeqFrom(buff', pos', size') = SubSeq(SeqFrom(buff, pos, size), 1, size')
      BY <1>0, <1>5, <2>1, PopLast
    <3> QED  BY <1>1, <3>1
  <2> QED  BY <1>2, <1>5, <2>1, <2>2 DEF Window!WindowNext, Window!PopBack
<1>8. CASE RbClear
  <2>1. Contents' \in Seq(Cells) /\ Len(Contents') = 0
    BY <1>8, <1>3 DEF RbClear
  <2>2. Contents' = <<>>
    BY <2>1
  <2> QED  BY <2>2 DEF Window!WindowNext, Window!Clear
<1>9. CASE Copy
  <2>1. size' = size /\ pos' = 0
    BY <1>9 DEF Copy
  <2>2. Contents' \in Seq(Cells) /\ Len(Contents') = size
    BY <1>3, <2>1
  <2>3. ASSUME NEW i \in 1..size PROVE Contents'[i] = Contents[i]
    <3>1. i - 1 \in Slots /\ i - 1 < size /\ (i - 1) + 1 = i /\ Idx(0, i - 1) = i - 1
      <4>1. i - 1 \in Slots /\ i - 1 \in 0..C /\ 0 \in Slots /\ i - 1 < size /\ (i - 1) + 1 = i
        BY <1>0 DEF Slots, C
      <4>2. Idx(0, i - 1) = i - 1
        BY <1>0, <4>1, Index DEF Slots, C
      <4> QED  BY <4>1, <4>2
    <3>2. Contents'[i] = buff'[i - 1]
      BY <1>0, <1>1, <2>1, <3>1, HeldSeqType
    <3>3. buff'[i - 1] = Contents[(i - 1) + 1]
      BY <1>9, <3>1 DEF Copy
    <3> QED  BY <3>1, <3>2, <3>3
  <2>4. Contents' = Contents
    <3> DEFINE s == Contents'
               t == Contents
    <3>1. /\ s \in Seq(Cells) /\ t \in Seq(Cells) /\ Len(s) = Len(t) /\ Len(t) = size
          /\ \A i \in 1..size : s[i] = t[i]
      BY <1>2, <2>2, <2>3
    <3> HIDE DEF s, t
    <3>2. s = t
      BY <3>1, SeqEqual
    <3> QED  BY <3>2 DEF s, t
  <2> QED  BY <2>4
<1> QED  BY <1>4, <1>6, <1>7, <1>8, <1>9 DEF RbNext

(* For every capacity the buffer is a window of the last values pushed,    *)
(* unless one was moved into a full buffer of a type without assignment.   *)
THEOREM KeepsLastValuesAlways == RbSpec => KeepsLastValues
<1>1. RbInit => Window!WindowInit
  BY DEF RbInit, Window!WindowInit, Contents
<1> QED  BY <1>1, RbInductive, RbStepWindow, PTL DEF RbSpec, KeepsLastValues
================================================================================
