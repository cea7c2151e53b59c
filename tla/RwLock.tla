--------------------------------- MODULE RwLock ---------------------------------
(***************************************************************************)
(* lins::rw_lock (src/support/threading/rw_lock.hpp), the lock-free        *)
(* readers and writers lock: one atomic counter, -1 for a writer, n for n  *)
(* readers, and the numbers of callers that wait.  A call first looks at   *)
(* those who wait, then tries to change the counter, and is taken off      *)
(* those who wait when it returns: three atomic operations, and other      *)
(* threads can come in between.  Callers unlock what they hold, and        *)
(* upgrade() is called by a reader.                                        *)
(***************************************************************************)
EXTENDS Integers, FiniteSets

CONSTANT Callers

ASSUME RwLockConstants == IsFiniteSet(Callers)

VARIABLES
    current,         (* current_                                           *)
    pending,         (* pending_readers_, _writers_, _upgraders_           *)
    rwPc,            (* where each thread is in a call, or what it holds   *)
    prefersWriters,  (* prefer_writers_                                    *)
    ahead            (* history: the callers of the preferred kind that    *)
                     (* waited already when a thread called, and still do  *)

rwVars == <<current, pending, rwPc, prefersWriters, ahead>>

Kinds == {"reader", "writer", "upgrader"}
In(labels) == {t \in Callers : rwPc[t] \in labels}
Readers == In({"got_read", "read", "upgrade", "upgrading"})
Writers == In({"got_write", "upgraded", "write"})

RwTypeOK ==
    /\ current \in Int
    /\ pending \in [Kinds -> Int]
    /\ rwPc \in [Callers -> {"out", "ask_read", "try_read", "got_read", "read",
                             "ask_write", "try_write", "got_write", "write",
                             "upgrade", "upgrading", "upgraded"}]
    /\ prefersWriters \in BOOLEAN
    /\ ahead \in [Callers -> SUBSET Callers]

RwInit ==
    /\ current = 0
    /\ pending = [k \in Kinds |-> 0]
    /\ rwPc = [t \in Callers |-> "out"]
    /\ prefersWriters \in BOOLEAN
    /\ ahead = [t \in Callers |-> {}]

Step(t, from, to) == rwPc[t] = from /\ rwPc' = [rwPc EXCEPT ![t] = to]
Count(kind, n) == pending' = [pending EXCEPT ![kind] = @ + n]

(* t no longer waits, with the lock or without it.                         *)
StopsWaiting(t) == ahead' = [s \in Callers |-> IF s = t THEN {} ELSE ahead[s] \ {t}]

--------------------------------------------------------------------------------
(* lock(w = false), lock(w = true), their try_lock, upgrade: the call.     *)

CallRead(t) ==
    /\ Step(t, "out", "ask_read")
    /\ Count("reader", 1)
    /\ ahead' = [ahead EXCEPT ![t] = IF prefersWriters THEN In({"ask_write", "try_write"}) ELSE {}]
    /\ UNCHANGED <<current, prefersWriters>>

CallWrite(t) ==
    /\ Step(t, "out", "ask_write")
    /\ Count("writer", 1)
    /\ ahead' = [ahead EXCEPT ![t] = IF prefersWriters THEN {} ELSE In({"ask_read", "try_read"})]
    /\ UNCHANGED <<current, prefersWriters>>

(* The caller is a reader, so the counter is positive.                     *)
CallUpgrade(t) ==
    /\ Step(t, "read", "upgrade")
    /\ current > 0
    /\ UNCHANGED <<current, pending, prefersWriters, ahead>>

CountUpgrader(t) ==
    /\ Step(t, "upgrade", "upgrading")
    /\ Count("upgrader", 1)
    /\ UNCHANGED <<current, prefersWriters, ahead>>

--------------------------------------------------------------------------------
(* The look at those who wait.                                             *)

AskRead(t) ==
    /\ Step(t, "ask_read", "try_read")
    /\ pending["upgrader"] = 0
    /\ prefersWriters => pending["writer"] = 0
    /\ UNCHANGED <<current, pending, prefersWriters, ahead>>

(* Faulty variant: writers never give way to readers.                      *)
AskWriteAlways(t) ==
    /\ Step(t, "ask_write", "try_write")
    /\ pending["upgrader"] = 0
    /\ UNCHANGED <<current, pending, prefersWriters, ahead>>

AskWrite(t) ==
    /\ Step(t, "ask_write", "try_write")
    /\ pending["upgrader"] = 0
    /\ prefersWriters \/ pending["reader"] = 0
    /\ UNCHANGED <<current, pending, prefersWriters, ahead>>

--------------------------------------------------------------------------------
(* The compare_exchange on the counter; on failure the caller looks again. *)

Retry(t) ==
    /\ \/ Step(t, "try_read", "ask_read") \/ Step(t, "try_write", "ask_write")
    /\ current # 0
    /\ UNCHANGED <<current, pending, prefersWriters, ahead>>

TryRead(t) ==
    /\ Step(t, "try_read", "got_read")
    /\ current >= 0
    /\ current' = current + 1
    /\ StopsWaiting(t)
    /\ UNCHANGED <<pending, prefersWriters>>

TryWrite(t) ==
    /\ Step(t, "try_write", "got_write")
    /\ current = 0
    /\ current' = -1
    /\ StopsWaiting(t)
    /\ UNCHANGED <<pending, prefersWriters>>

(* Faulty variant: the lock is taken whoever else reads.                   *)
TryUpgradeAnyway(t) ==
    /\ Step(t, "upgrading", "upgraded")
    /\ current > 0
    /\ current' = -1
    /\ UNCHANGED <<pending, prefersWriters, ahead>>

TryUpgrade(t) ==
    /\ Step(t, "upgrading", "upgraded")
    /\ current = 1
    /\ current' = -1
    /\ UNCHANGED <<pending, prefersWriters, ahead>>

(* The call returns with the lock: shut_on_destroy.                        *)
TakeOff(t) ==
    /\ \/ Step(t, "got_read", "read") /\ Count("reader", -1)
       \/ Step(t, "got_write", "write") /\ Count("writer", -1)
       \/ Step(t, "upgraded", "write") /\ Count("upgrader", -1)
    /\ UNCHANGED <<current, prefersWriters, ahead>>

(* Faulty variant: a caller that gives up stays counted.                   *)
GiveUpCounted(t) ==
    /\ Step(t, "ask_read", "out") \/ Step(t, "ask_write", "out")
    /\ StopsWaiting(t)
    /\ UNCHANGED <<current, pending, prefersWriters>>

(* The timeout is over, or the only attempt of try_lock has failed.        *)
GiveUp(t) ==
    /\ \/ Step(t, "ask_read", "out") /\ Count("reader", -1)
       \/ Step(t, "ask_write", "out") /\ Count("writer", -1)
    /\ StopsWaiting(t)
    /\ UNCHANGED <<current, prefersWriters>>

--------------------------------------------------------------------------------
(* downgrade, unlock.                                                      *)

Downgrade(t) ==
    /\ Step(t, "write", "read")
    /\ current = -1
    /\ current' = 1
    /\ UNCHANGED <<pending, prefersWriters, ahead>>

Unlock(t) ==
    /\ \/ Step(t, "read", "out") /\ current > 0 /\ current' = current - 1
       \/ Step(t, "write", "out") /\ current = -1 /\ current' = 0
    /\ UNCHANGED <<pending, prefersWriters, ahead>>

RwProgress(t) == \/ CountUpgrader(t) \/ AskRead(t) \/ AskWrite(t) \/ Retry(t)
                 \/ TryRead(t) \/ TryWrite(t) \/ TryUpgrade(t) \/ TakeOff(t) \/ Unlock(t)

RwStep(t) == \/ CallRead(t) \/ CallWrite(t) \/ CallUpgrade(t)
             \/ RwProgress(t) \/ GiveUp(t) \/ Downgrade(t)

RwNext == \E t \in Callers : RwStep(t)

RwSpec == RwInit /\ [][RwNext]_rwVars

--------------------------------------------------------------------------------
(* Properties.                                                             *)

(* The counter is the number of readers, or -1 for a single writer and no  *)
(* reader, whatever the interleaving of locks, upgrades and timeouts.      *)
CounterExact ==
    \/ Writers = {} /\ current = Cardinality(Readers)
    \/ /\ current = -1 /\ Readers = {}
       /\ \E t \in Callers : Writers = {t}

(* Nobody overtakes a caller of the preferred kind that already waited     *)
(* when he called, although the look at those who wait and the attempt     *)
(* are two operations.                                                     *)
PreferredFirst ==
    [][\A t \in Callers :
          rwPc[t] \in {"try_read", "try_write"} /\ rwPc'[t] \in {"got_read", "got_write"} => ahead[t] = {}
      ]_rwVars

(* Who can proceed does.  An upgrader gets the lock, however many readers  *)
(* keep coming, unless a second reader upgrades as well: those two wait    *)
(* for each other.  And once callers no longer time out, a free lock does  *)
(* not stay free while some wait for it: nobody waits for a caller that    *)
(* has left.                                                               *)
Waiters == In({"ask_read", "ask_write", "try_read", "try_write"})
GivesUp(t) == rwPc[t] \in {"ask_read", "ask_write"} /\ rwPc'[t] = "out"

WaitersProceed ==
    /\ \A t \in Callers :
          (rwPc[t] = "upgrading") ~>
              \/ rwPc[t] = "write"
              \/ \E s \in Callers \ {t} : rwPc[s] \in {"upgrade", "upgrading"}
    /\ <>[][\A t \in Callers : ~GivesUp(t)]_rwVars =>
          ((current = 0 /\ Waiters # {}) ~> (current # 0 \/ Waiters = {}))
================================================================================
