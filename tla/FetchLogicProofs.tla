---------------------------- MODULE FetchLogicProofs ----------------------------
(***************************************************************************)
(* FetchLogic for any number of workers, days, jobs, crashes and faults:   *)
(* its types, that no day gets lost between the two files but what a crash *)
(* puts at stake, and that no save overwrites newer contents.              *)
(***************************************************************************)
EXTENDS FetchLogic, TLAPS

Fetching == {"request", "add", "save", "write_data", "processed", "schedule"}
Added == {"save", "write_data", "processed", "unschedule"}
Saved == {"write_data", "processed", "unschedule"}

(* Who can be where, and with what date.                                   *)
Places ==
    \A w \in Workers :
        /\ pc[w] = "schedule" => w \in Regular
        /\ pc[w] \in {"pick", "unschedule"} => w \in Retry
        /\ pc[w] \in Fetching => date[w] \in Days
        /\ pc[w] = "unschedule" => date[w] \in Keys

(* A worker that has a file open holds its lock.                           *)
Holders ==
    \A w \in Workers :
        /\ pc[w] = "write_data" => strgLock = w
        /\ pc[w] = "write_sched" => schedLock = w

(* What is in the data file is in memory, and what a worker has added.     *)
Memory ==
    /\ Parse(dataFile) \subseteq db
    /\ \A w \in Workers : pc[w] \in Added /\ date[w] \in Days => date[w] \in db

(* Without faults a save has reached the file when it is over.             *)
SavesArrive ==
    faults = 0 => \A w \in Workers : pc[w] \in Saved /\ date[w] \in Days => date[w] \in DataView

FileInv == TypeOK /\ Places /\ Holders /\ Memory /\ StoredIsKept
FetchInv == FileInv /\ SavesArrive /\ NoGap

--------------------------------------------------------------------------------
LEMMA ParseType == TypeOK => Parse(dataFile) \subseteq Days /\ Parse(schedFile) \subseteq Keys
  BY DEF TypeOK, Parse

(* What the files can hold.                                                *)
LEMMA FileTypes ==
    /\ Broken \in [ok : BOOLEAN, dates : SUBSET Days]
    /\ Broken \in [ok : BOOLEAN, dates : SUBSET Keys]
    /\ \A S \in SUBSET Days : Holding(S) \in [ok : BOOLEAN, dates : SUBSET Days]
    /\ \A S \in SUBSET Keys : Holding(S) \in [ok : BOOLEAN, dates : SUBSET Keys]
<1>1. TRUE \in BOOLEAN /\ FALSE \in BOOLEAN
  OBVIOUS
<1> QED  BY <1>1, Zenon DEF Broken, Holding

LEMMA KeysAreNumbers == Keys \subseteq Nat /\ Days \subseteq Keys /\ NoDate \notin Keys /\ Malformed \notin Days
  BY FetchConstants DEF Keys, Days, Malformed, NoDate

LEMMA FetchInitInv == Init => FetchInv
<1> SUFFICES ASSUME Init PROVE FetchInv
  OBVIOUS
<1>1. TypeOK
  <2>1. /\ 1 \in Days /\ Malformed \in Keys /\ 1 \in 0..MaxPending /\ 0 \in 0..MaxPending
        /\ 0 \in 0..MaxCrashes /\ 0 \in 0..MaxFaults
    BY FetchConstants DEF Days, Keys, Malformed
  <2>2. /\ dataFile \in [ok : BOOLEAN, dates : SUBSET Days]
        /\ schedFile \in [ok : BOOLEAN, dates : SUBSET Keys]
    BY <2>1, FileTypes DEF Init
  <2> QED  BY <2>1, <2>2 DEF Init, TypeOK
<1> QED  BY <1>1 DEF Init, FetchInv, FileInv, Places, Holders, Memory, SavesArrive, StoredIsKept, NothingForgotten, NoGap,
              Parse, Broken, Fetching, Added, Saved

(* The type invariant in three parts.                                      *)
CountersOK ==
    /\ day \in Days
    /\ regularJobs \in 0..MaxPending /\ retryJobs \in 0..MaxPending
    /\ crashes \in 0..MaxCrashes /\ faults \in 0..MaxFaults
ContentsOK ==
    /\ dataFile \in [ok : BOOLEAN, dates : SUBSET Days]
    /\ schedFile \in [ok : BOOLEAN, dates : SUBSET Keys]
    /\ db \subseteq Days /\ due \subseteq Days /\ stored \subseteq Days
    /\ exposed \subseteq Keys
WorkersOK ==
    /\ pc \in [Workers -> {"idle", "pick", "request", "add", "save", "write_data", "processed",
                           "schedule", "unschedule", "write_sched"}]
    /\ date \in [Workers -> Keys \cup {NoDate}]
    /\ unsaved \in [Workers -> SUBSET Keys]
    /\ failed \in [Workers -> SUBSET Days]
    /\ strgLock \in Workers \cup {Free} /\ schedLock \in Workers \cup {Free}

LEMMA TypeParts == TypeOK <=> CountersOK /\ ContentsOK /\ WorkersOK
  BY DEF TypeOK, CountersOK, ContentsOK, WorkersOK

LEMMA FetchCountersStep == FileInv /\ [Next]_vars => CountersOK'
<1> SUFFICES ASSUME CountersOK, [Next]_vars PROVE CountersOK'
  BY TypeParts DEF FileInv
<1> USE FetchConstants DEF CountersOK, files, queues, locks, accidents, history
<1>1. CASE RegularTick \/ RetryTick
  BY <1>1 DEF RegularTick, RetryTick
<1>2. CASE NextDay
  BY <1>2 DEF NextDay, Days
<1>3. CASE Crash
  BY <1>3 DEF Crash
<1>4. ASSUME NEW w \in Workers, BeginToday(w) \/ BeginRetry(w) PROVE CountersOK'
  BY <1>4 DEF BeginToday, BeginRetry
<1>5. ASSUME NEW w \in Workers,
             Pick(w) \/ ReplyBad(w) \/ ReplyOk(w) \/ Add(w) \/ Processed(w) PROVE CountersOK'
  BY <1>5 DEF Pick, ReplyBad, ReplyOk, Add, Processed
<1>6. ASSUME NEW w \in Workers,
             OpenData(w) \/ WriteData(w) \/ Schedule(w) \/ Unschedule(w) \/ WriteSchedule(w)
      PROVE  CountersOK'
  <2>1. UNCHANGED <<day, regularJobs, retryJobs, crashes>> /\ (Fault \/ UNCHANGED faults)
    BY <1>6 DEF OpenData, WriteData, Schedule, Unschedule, WriteSchedule, OpenSchedule
  <2> QED  BY <2>1 DEF Fault
<1>7. CASE UNCHANGED vars
  BY <1>7 DEF vars
<1> QED  BY <1>1, <1>2, <1>3, <1>4, <1>5, <1>6, <1>7 DEF Next, Job

(* What a crash can lose are keys of the files.                            *)
LEMMA AtStakeType == TypeOK /\ Places => AtStake \subseteq Keys
<1> SUFFICES ASSUME TypeOK, Places PROVE AtStake \subseteq Keys
  OBVIOUS
<1>1. \A w \in Regular : InHand(w) => date[w] \in Keys
  BY KeysAreNumbers DEF InHand, Places, Fetching, TypeOK, Workers
<1>2. db \subseteq Keys
  BY KeysAreNumbers DEF TypeOK
<1>3. schedLock # Free => unsaved[schedLock] \subseteq Keys
  BY DEF TypeOK
<1> QED  BY <1>1, <1>2, <1>3 DEF AtStake

LEMMA FetchContentsStep == FileInv /\ [Next]_vars => ContentsOK'
<1> SUFFICES ASSUME TypeOK, Places, [Next]_vars PROVE ContentsOK'
  BY DEF FileInv
<1>0. /\ Parse(dataFile) \subseteq Days /\ Parse(schedFile) \subseteq Keys
      /\ day \in Days /\ ContentsOK /\ WorkersOK /\ AtStake \subseteq Keys
  BY ParseType, TypeParts, AtStakeType DEF CountersOK
<1> USE DEF ContentsOK, files, queues, locks, accidents, history
<1>1. CASE RegularTick \/ RetryTick \/ NextDay \/ Crash
  BY <1>0, <1>1 DEF RegularTick, RetryTick, NextDay, Crash
<1>2. ASSUME NEW w \in Workers,
             BeginToday(w) \/ BeginRetry(w) \/ Pick(w) \/ ReplyBad(w) \/ ReplyOk(w) \/ Processed(w)
      PROVE  ContentsOK'
  BY <1>0, <1>2 DEF BeginToday, BeginRetry, Pick, ReplyBad, ReplyOk, Processed
<1>3. ASSUME NEW w \in Workers, Add(w) PROVE ContentsOK'
  BY <1>0, <1>3 DEF Add, Places, Fetching
<1>4. ASSUME NEW w \in Workers, OpenData(w) \/ WriteData(w) PROVE ContentsOK'
  <2>1. UNCHANGED <<schedFile, db, due, exposed>> /\ stored' \in {stored, stored \cup db}
    BY <1>4 DEF OpenData, WriteData
  <2>2. dataFile' \in {dataFile, Broken, Holding(db)}
    BY <1>4 DEF OpenData, WriteData
  <2> QED  BY <1>0, <2>1, <2>2, FileTypes
<1>5. ASSUME NEW w \in Workers, Schedule(w) \/ Unschedule(w) \/ WriteSchedule(w) PROVE ContentsOK'
  <2>1. UNCHANGED <<dataFile, db, due, exposed, stored>>
    BY <1>5 DEF Schedule, Unschedule, WriteSchedule
  <2>2. schedFile' \in {schedFile, Broken, Holding(unsaved[w])}
    BY <1>5 DEF Schedule, Unschedule, WriteSchedule, OpenSchedule
  <2> QED  BY <1>0, <2>1, <2>2, FileTypes DEF WorkersOK
<1>6. CASE UNCHANGED vars
  BY <1>0, <1>6 DEF vars
<1> QED  BY <1>1, <1>2, <1>3, <1>4, <1>5, <1>6 DEF Next, Job

LEMMA FetchWorkersStep == FileInv /\ [Next]_vars => WorkersOK'
<1> SUFFICES ASSUME TypeOK, Places, [Next]_vars PROVE WorkersOK'
  BY DEF FileInv
<1>0. /\ Parse(schedFile) \subseteq Keys /\ day \in Days /\ Days \subseteq Keys /\ WorkersOK
  BY ParseType, TypeParts, KeysAreNumbers DEF CountersOK
<1> USE DEF WorkersOK, With, Goto, files, queues, locks, accidents, history
<1>1. CASE RegularTick \/ RetryTick \/ NextDay
  BY <1>0, <1>1 DEF RegularTick, RetryTick, NextDay
<1>2. CASE Crash
  BY <1>0, <1>2 DEF Crash
<1>3. ASSUME NEW w \in Workers, BeginToday(w) \/ BeginRetry(w) PROVE WorkersOK'
  BY <1>0, <1>3 DEF BeginToday, BeginRetry
<1>4. ASSUME NEW w \in Workers, Pick(w) PROVE WorkersOK'
  BY <1>0, <1>4 DEF Pick
<1>5. ASSUME NEW w \in Workers, ReplyBad(w) PROVE WorkersOK'
  <2>1. date[w] \in Days
    BY <1>5 DEF ReplyBad, Places, Fetching
  <2> QED  BY <1>0, <1>5, <2>1 DEF ReplyBad
<1>6. ASSUME NEW w \in Workers, ReplyOk(w) \/ Add(w) \/ Processed(w) PROVE WorkersOK'
  BY <1>0, <1>6 DEF ReplyOk, Add, Processed
<1>7. ASSUME NEW w \in Workers, OpenData(w) \/ WriteData(w) PROVE WorkersOK'
  BY <1>0, <1>7 DEF OpenData, WriteData
<1>8. ASSUME NEW w \in Workers, NEW keys \in SUBSET Keys, OpenSchedule(w, keys), UNCHANGED strgLock,
             UNCHANGED failed
      PROVE  WorkersOK'
  BY <1>0, <1>8 DEF OpenSchedule, AfterSchedule
<1>9. ASSUME NEW w \in Workers, Schedule(w) \/ Unschedule(w) PROVE WorkersOK'
  <2>1. UNCHANGED strgLock /\ UNCHANGED failed
    BY <1>9 DEF Schedule, Unschedule
  <2>2. CASE \E keys \in SUBSET Keys : OpenSchedule(w, keys)
    BY <1>8, <2>1, <2>2
  <2>3. CASE Goto(w, "pick") /\ UNCHANGED <<schedFile, schedLock, unsaved, faults>>
    BY <1>0, <2>1, <2>3
  <2>4. Schedule(w) => date[w] \in Keys
    BY <1>0 DEF Schedule, Places, Fetching
  <2> QED  BY <1>0, <1>9, <2>2, <2>3, <2>4 DEF Schedule, Unschedule
<1>10. ASSUME NEW w \in Workers, WriteSchedule(w) PROVE WorkersOK'
  BY <1>0, <1>10 DEF WriteSchedule, AfterSchedule
<1>11. CASE UNCHANGED vars
  BY <1>0, <1>11 DEF vars
<1> QED  BY <1>1, <1>2, <1>3, <1>4, <1>5, <1>6, <1>7, <1>9, <1>10, <1>11 DEF Next, Job

LEMMA FetchPlacesStep == FileInv /\ [Next]_vars => Places' /\ Holders'
<1> SUFFICES ASSUME FileInv, [Next]_vars PROVE Places' /\ Holders'
  OBVIOUS
<1> USE FetchConstants DEF FileInv, TypeOK, Places, Holders, Workers, Fetching,
      files, queues, locks, accidents, history
<1>0. Parse(schedFile) \subseteq Keys
  BY ParseType
<1>1. CASE RegularTick \/ RetryTick \/ NextDay
  BY <1>1 DEF RegularTick, RetryTick, NextDay
<1>2. CASE Crash
  <2>1. \A w \in Workers : pc'[w] = "idle"
    BY <1>2 DEF Crash
  <2> QED  BY <2>1
<1>3. ASSUME NEW w \in Workers, BeginToday(w) \/ BeginRetry(w) PROVE Places' /\ Holders'
  BY <1>3 DEF BeginToday, BeginRetry, With, Goto
<1>4. ASSUME NEW w \in Workers, Pick(w) PROVE Places' /\ Holders'
  <2>1. w \in Retry /\ UNCHANGED <<strgLock, schedLock>>
    BY <1>4 DEF Pick
  <2>2. CASE Goto(w, "idle")
    BY <2>1, <2>2 DEF Goto, With
  <2>3. ASSUME NEW last \in Keys, With(w, IF last \in Days THEN "request" ELSE "unschedule", last)
        PROVE  Places' /\ Holders'
    <3>1. CASE last \in Days
      BY <2>1, <2>3, <3>1 DEF With
    <3>2. CASE last \notin Days
      BY <2>1, <2>3, <3>2 DEF With
    <3> QED  BY <3>1, <3>2
  <2> QED  BY <1>0, <1>4, <2>2, <2>3 DEF Pick
<1>5. ASSUME NEW w \in Workers, ReplyBad(w) \/ ReplyOk(w) \/ Add(w) \/ Processed(w)
      PROVE  Places' /\ Holders'
  <2>1. UNCHANGED <<strgLock, schedLock>> /\ date[w] \in Days
    BY <1>5 DEF ReplyBad, ReplyOk, Add, Processed
  <2>2. ASSUME NEW label \in {"schedule", "pick", "idle", "add", "save", "unschedule"},
               Goto(w, label), label = "schedule" => w \in Regular,
               label \in {"pick", "unschedule"} => w \notin Regular
        PROVE  Places' /\ Holders'
    <3>1. pc' = [pc EXCEPT ![w] = label] /\ (label # "idle" => date' = [date EXCEPT ![w] = date[w]])
      BY <2>2 DEF Goto, With
    <3>2. \A x \in Workers : x # w => date'[x] = date[x] /\ pc'[x] = pc[x]
      BY <2>2 DEF Goto, With
    <3>3. pc'[w] = label /\ (label # "idle" => date'[w] = date[w])
      BY <2>2, <3>1
    <3> QED  BY <2>1, <2>2, <3>2, <3>3, KeysAreNumbers
  <2> QED  BY <1>5, <2>2 DEF ReplyBad, ReplyOk, Add, Processed
<1>6. ASSUME NEW w \in Workers, OpenData(w) \/ WriteData(w) PROVE Places' /\ Holders'
  BY <1>6 DEF OpenData, WriteData, With, Goto
<1>7. ASSUME NEW w \in Workers, Schedule(w) \/ Unschedule(w) \/ WriteSchedule(w)
      PROVE  Places' /\ Holders'
  BY <1>7 DEF Schedule, Unschedule, WriteSchedule, OpenSchedule, AfterSchedule, With, Goto
<1>8. CASE UNCHANGED vars
  BY <1>8 DEF vars
<1> QED  BY <1>1, <1>2, <1>3, <1>4, <1>5, <1>6, <1>7, <1>8 DEF Next, Job

--------------------------------------------------------------------------------
(* Memory and files.                                                       *)

LEMMA FetchMemoryStep == FileInv /\ [Next]_vars => Memory'
<1> SUFFICES ASSUME FileInv, [Next]_vars PROVE Memory'
  OBVIOUS
<1>0. TypeOK /\ Places /\ Memory /\ WorkersOK
  BY TypeParts DEF FileInv
<1> USE DEF Memory, Added, files, queues, locks, accidents, history
<1>1. CASE RegularTick \/ RetryTick \/ NextDay
  BY <1>0, <1>1 DEF RegularTick, RetryTick, NextDay, Parse
<1>2. CASE Crash
  BY <1>0, <1>2 DEF Crash, Parse
<1>3. ASSUME NEW w \in Workers, BeginToday(w) \/ BeginRetry(w) \/ ReplyBad(w) \/ ReplyOk(w)
      PROVE  Memory'
  BY <1>0, <1>3 DEF BeginToday, BeginRetry, ReplyBad, ReplyOk, With, Goto, Parse, WorkersOK
<1>4. ASSUME NEW w \in Workers, Pick(w) PROVE Memory'
  BY <1>0, <1>4 DEF Pick, With, Goto, Parse, WorkersOK
<1>5. ASSUME NEW w \in Workers, Add(w) \/ Processed(w) PROVE Memory'
  BY <1>0, <1>5 DEF Add, Processed, With, Goto, Parse, WorkersOK
<1>6. ASSUME NEW w \in Workers, OpenData(w) \/ WriteData(w) PROVE Memory'
  BY <1>0, <1>6 DEF OpenData, WriteData, Broken, Holding, With, Goto, Parse, WorkersOK
<1>7. ASSUME NEW w \in Workers, Schedule(w) \/ Unschedule(w) \/ WriteSchedule(w) PROVE Memory'
  BY <1>0, <1>7 DEF Schedule, Unschedule, WriteSchedule, OpenSchedule, AfterSchedule, With, Goto,
       Parse, WorkersOK
<1>8. CASE UNCHANGED vars
  BY <1>0, <1>8 DEF vars, Parse
<1> QED  BY <1>1, <1>2, <1>3, <1>4, <1>5, <1>6, <1>7, <1>8 DEF Next, Job

LEMMA FetchStoredStep == FileInv /\ [Next]_vars => StoredIsKept'
<1> SUFFICES ASSUME TypeOK, StoredIsKept, [Next]_vars PROVE StoredIsKept'
  BY DEF FileInv
<1> USE DEF StoredIsKept, NothingForgotten, files, queues, locks, accidents, history
<1>1. CASE Crash
  BY <1>1, FetchConstants DEF Crash, TypeOK
<1>2. ASSUME NEW w \in Workers, Add(w) PROVE StoredIsKept'
  BY <1>2 DEF Add
<1>3. ASSUME NEW w \in Workers, OpenData(w) PROVE StoredIsKept'
  BY <1>3 DEF OpenData, Broken
<1>4. ASSUME NEW w \in Workers, WriteData(w) PROVE StoredIsKept'
  BY <1>4 DEF WriteData, Holding
<1>5. CASE UNCHANGED <<crashes, stored, db, dataFile>>
  BY <1>5
<1> QED  BY <1>1, <1>2, <1>3, <1>4, <1>5
      DEF Next, Job, vars, RegularTick, RetryTick, NextDay, BeginToday, BeginRetry, Pick, ReplyBad,
          ReplyOk, Processed, Schedule, Unschedule, WriteSchedule

LEMMA FileInductive == FileInv /\ [Next]_vars => FileInv'
  BY FetchCountersStep, FetchContentsStep, FetchWorkersStep, FetchPlacesStep, FetchMemoryStep,
     FetchStoredStep, TypeParts, PTL DEF FileInv

LEMMA FileInvAlways == Spec => []FileInv
<1>1. Init => FileInv
  BY FetchInitInv DEF FetchInv
<1> QED  BY <1>1, FileInductive, PTL DEF Spec

(* Every state of every run is of the declared types.                      *)
THEOREM FetchTypeOK == Spec => []TypeOK
<1>1. FileInv => TypeOK
  BY DEF FileInv
<1> QED  BY <1>1, FileInvAlways, PTL

(* What a save has written stays in the storage and in a file that can be  *)
(* read as long as the process lives, whatever fails and whoever saves.    *)
THEOREM StoredIsKeptAlways == Spec => []StoredIsKept
<1>1. FileInv => StoredIsKept
  BY DEF FileInv
<1> QED  BY <1>1, FileInvAlways, PTL

--------------------------------------------------------------------------------
(* No gap between the files, while there are no faults.                    *)

Alive == FetchInv /\ FileInv' /\ [Next]_vars /\ ~Crash /\ faults = 0 /\ faults' = 0

LEMMA FaultsStay == FetchInv /\ [Next]_vars /\ faults' = 0 => faults = 0
  BY FetchConstants
     DEF FetchInv, FileInv, TypeOK, Next, Job, vars, files, queues, locks, accidents, history, Fault,
         RegularTick, RetryTick, NextDay, Crash, BeginToday, BeginRetry, Pick, ReplyBad, ReplyOk, Add,
         OpenData, WriteData, Processed, Schedule, Unschedule, WriteSchedule, OpenSchedule

(* What the data file shows, or is about to show, only grows.              *)
LEMMA DataViewGrows == Alive => DataView \subseteq DataView'
<1> SUFFICES ASSUME Alive PROVE DataView \subseteq DataView'
  OBVIOUS
<1>0. /\ FileInv /\ FileInv' /\ [Next]_vars /\ ~Crash /\ ~Fault
  BY DEF Alive, FetchInv, Fault
<1>1. /\ Free \notin Workers /\ Parse(dataFile) \subseteq db
      /\ \A w \in Workers : pc[w] = "write_data" => strgLock = w
  BY <1>0, FetchConstants DEF FileInv, Memory, Holders
<1> USE DEF DataView, files, queues, locks, accidents, history
<1>2. ASSUME NEW w \in Workers, OpenData(w) PROVE DataView \subseteq DataView'
  BY <1>0, <1>1, <1>2 DEF OpenData
<1>3. ASSUME NEW w \in Workers, WriteData(w) PROVE DataView \subseteq DataView'
  BY <1>0, <1>1, <1>3 DEF WriteData, Holding, Parse
<1>4. ASSUME NEW w \in Workers, Add(w) PROVE DataView \subseteq DataView'
  BY <1>4 DEF Add, Parse
<1>5. CASE UNCHANGED <<dataFile, strgLock, db>>
  BY <1>5 DEF Parse
<1> QED  BY <1>0, <1>2, <1>3, <1>4, <1>5
      DEF Next, Job, vars, RegularTick, RetryTick, NextDay, BeginToday, BeginRetry, Pick, ReplyBad,
          ReplyOk, Processed, Schedule, Unschedule, WriteSchedule

(* What the schedule shows, or is about to show, loses only the date that  *)
(* is unscheduled, and gains the one that is scheduled.                    *)
LEMMA ScheduleViewKeeps ==
    Alive => /\ \A d \in ScheduleView : d \in ScheduleView' \/ \E w \in Workers : Unschedule(w) /\ d = date[w]
             /\ \A w \in Workers : Schedule(w) => date[w] \in ScheduleView'
<1> SUFFICES ASSUME Alive
             PROVE  /\ \A d \in ScheduleView : d \in ScheduleView' \/ \E w \in Workers : Unschedule(w) /\ d = date[w]
                    /\ \A w \in Workers : Schedule(w) => date[w] \in ScheduleView'
  OBVIOUS
<1>0. /\ FileInv /\ [Next]_vars /\ ~Crash /\ ~Fault
  BY DEF Alive, FetchInv, Fault
<1>1. /\ Free \notin Workers /\ unsaved \in [Workers -> SUBSET Keys]
      /\ \A w \in Workers : pc[w] = "write_sched" => schedLock = w
  BY <1>0, FetchConstants DEF FileInv, Holders, TypeOK
<1> USE DEF ScheduleView, files, queues, locks, accidents, history
<1>2. ASSUME NEW w \in Workers, NEW keys, OpenSchedule(w, keys), schedLock = Free
      PROVE  ScheduleView = Parse(schedFile) /\ ScheduleView' = keys
  BY <1>0, <1>1, <1>2 DEF OpenSchedule
<1>3. ASSUME NEW w \in Workers, Schedule(w)
      PROVE  date[w] \in ScheduleView' /\ ScheduleView \subseteq ScheduleView'
  BY <1>2, <1>3 DEF Schedule
<1>4. ASSUME NEW w \in Workers, Unschedule(w)
      PROVE  \A d \in ScheduleView : d \in ScheduleView' \/ d = date[w]
  <2>1. CASE date[w] \in Parse(schedFile)
    BY <1>2, <1>4, <2>1 DEF Unschedule
  <2>2. CASE date[w] \notin Parse(schedFile)
    BY <1>4, <2>2 DEF Unschedule, Parse
  <2> QED  BY <2>1, <2>2
<1>5. ASSUME NEW w \in Workers, WriteSchedule(w) PROVE ScheduleView \subseteq ScheduleView'
  BY <1>0, <1>1, <1>5 DEF WriteSchedule, Holding, Parse
<1>6. CASE UNCHANGED <<schedFile, schedLock, unsaved>>
  BY <1>3, <1>6 DEF Parse
<1>7. ASSUME NEW w \in Workers, Schedule(w) PROVE ScheduleView \subseteq ScheduleView'
  BY <1>3, <1>7
<1>8. \/ \E w \in Workers : Schedule(w) \/ Unschedule(w) \/ WriteSchedule(w)
      \/ UNCHANGED <<schedFile, schedLock, unsaved>>
  BY <1>0 DEF Next, Job, vars, RegularTick, RetryTick, NextDay, BeginToday, BeginRetry, Pick,
       ReplyBad, ReplyOk, Add, OpenData, WriteData, Processed
<1> QED  BY <1>3, <1>4, <1>5, <1>6, <1>7, <1>8

(* A save that is over has reached the file.                               *)
LEMMA SavesArriveStep == Alive => SavesArrive'
<1> SUFFICES ASSUME Alive, NEW x \in Workers, pc'[x] \in Saved, (date'[x] \in Days)
             PROVE  date'[x] \in DataView'
  BY DEF SavesArrive, Days, Saved
<1>0. /\ FileInv /\ FileInv' /\ [Next]_vars /\ ~Crash /\ ~Fault
      /\ \A w \in Workers : pc[w] \in Saved /\ date[w] \in Days => date[w] \in DataView
      /\ \A w \in Workers : pc[w] \in Added /\ date[w] \in Days => date[w] \in db
      /\ WorkersOK /\ Free \notin Workers
  <2>1. FetchInv /\ FileInv' /\ [Next]_vars /\ ~Crash /\ ~Fault /\ faults = 0
    BY DEF Alive, Fault
  <2>2. WorkersOK
    BY <2>1, TypeParts DEF FetchInv, FileInv
  <2> QED  BY <2>1, <2>2, FetchConstants DEF FetchInv, FileInv, SavesArrive, Memory
<1>1. DataView \subseteq DataView'
  BY DataViewGrows
<1>2. CASE pc[x] \in Saved /\ date'[x] = date[x]
  BY <1>0, <1>1, <1>2
<1>3. ASSUME OpenData(x) PROVE date'[x] \in DataView'
  <2>1. date'[x] = date[x] /\ pc[x] \in Added /\ db' = db /\ strgLock' = x
    BY <1>0, <1>3 DEF OpenData, Goto, With, Added, WorkersOK
  <2> QED  BY <1>0, <2>1 DEF DataView
<1>4. ASSUME Pick(x) PROVE date'[x] \notin Days
  <2>1. pc'[x] = "unschedule"
    BY <1>0, <1>4 DEF Pick, Goto, With, Saved, WorkersOK
  <2> QED  BY <1>0, <1>4, <2>1 DEF Pick, Goto, With, WorkersOK
<1>5. (pc[x] \in Saved /\ date'[x] = date[x]) \/ OpenData(x) \/ Pick(x)
  <2>1. CASE UNCHANGED <<pc, date>>
    BY <2>1
  <2>2. ASSUME NEW w \in Workers, Job(w), w # x PROVE pc[x] \in Saved /\ date'[x] = date[x]
    <3>1. pc'[x] = pc[x] /\ date'[x] = date[x]
      BY <1>0, <2>2 DEF Job, BeginToday, BeginRetry, Pick, ReplyBad, ReplyOk, Add, OpenData, WriteData,
           Processed, Schedule, Unschedule, WriteSchedule, OpenSchedule, Goto, With, WorkersOK
    <3> QED  BY <3>1
  <2>3. CASE WriteData(x) \/ Processed(x)
    BY <1>0, <2>3 DEF WriteData, Processed, Goto, With, Saved, WorkersOK
  <2>4. CASE BeginToday(x) \/ BeginRetry(x) \/ ReplyBad(x) \/ ReplyOk(x) \/ Add(x)
    BY <1>0, <2>4 DEF BeginToday, BeginRetry, ReplyBad, ReplyOk, Add, Goto, With, Saved, WorkersOK
  <2>5. CASE Schedule(x) \/ Unschedule(x) \/ WriteSchedule(x)
    BY <1>0, <2>5 DEF Schedule, Unschedule, WriteSchedule, OpenSchedule, AfterSchedule, Goto, With, Saved, WorkersOK
  <2> QED  BY <1>0, <2>1, <2>2, <2>3, <2>4, <2>5 DEF Next, Job, vars, RegularTick, RetryTick, NextDay
<1> QED  BY <1>2, <1>3, <1>4, <1>5

(* Each day due stays in a file or in a worker's hands.                    *)
LEMMA NoGapStep == Alive => NoGap'
<1> DEFINE InHands(w, d) == date[w] = d /\ pc[w] \in {"request", "add", "save", "schedule"}
<1> SUFFICES ASSUME Alive, NEW d \in due', d \notin exposed'
             PROVE  d \in DataView' \cup ScheduleView' \/ \E w \in Regular : InHands(w, d)'
  BY DEF NoGap, InHand
<1>0. /\ FileInv /\ [Next]_vars /\ ~Crash /\ ~Fault /\ due \subseteq Days /\ WorkersOK
      /\ Regular \subseteq Workers
      /\ \A w \in Workers : pc[w] \in Saved /\ date[w] \in Days => date[w] \in DataView
      /\ \A w \in Workers : pc[w] = "unschedule" => w \notin Regular
  <2>1. FetchInv /\ [Next]_vars /\ ~Crash /\ ~Fault /\ faults = 0
    BY DEF Alive, Fault
  <2>2. WorkersOK /\ due \subseteq Days
    BY <2>1, TypeParts DEF FetchInv, FileInv, ContentsOK
  <2> QED  BY <2>1, <2>2, FetchConstants DEF FetchInv, FileInv, SavesArrive, Places, Workers
<1>1. DataView \subseteq DataView'
  BY DataViewGrows
<1>2. CASE d \notin due \/ d \in exposed
  <2>1. PICK w \in Workers : BeginToday(w)
    BY <1>0, <1>2 DEF Next, Job, vars, files, queues, locks, accidents, history, RegularTick, RetryTick,
         NextDay, BeginRetry, Pick, ReplyBad, ReplyOk, Add, OpenData, WriteData, Processed, Schedule,
         Unschedule, WriteSchedule
  <2>2. w \in Regular /\ InHands(w, d)'
    BY <1>0, <1>2, <2>1 DEF BeginToday, With, WorkersOK
  <2> QED  BY <2>2
<1>3. CASE d \in DataView
  BY <1>1, <1>3
<1>4. CASE d \in ScheduleView /\ d \in due
  <2>1. CASE d \in ScheduleView'
    BY <2>1
  <2>2. ASSUME NEW w \in Workers, Unschedule(w), d = date[w] PROVE d \in DataView
    BY <1>0, <1>4, <2>2 DEF Unschedule, Saved
  <2> QED  BY <1>1, <1>4, <2>1, <2>2, ScheduleViewKeeps
<1>5. ASSUME NEW w \in Regular, InHands(w, d), d \in due
      PROVE  d \in DataView' \cup ScheduleView' \/ InHands(w, d)'
  <2>0. w \in Workers /\ date[w] = d /\ d \in Days /\ pc[w] \in {"request", "add", "save", "schedule"}
    BY <1>0, <1>5
  <2>1. CASE ~Job(w)
    <3>1. pc'[w] = pc[w] /\ date'[w] = date[w]
      <4>1. CASE UNCHANGED <<pc, date>>
        BY <4>1
      <4>2. ASSUME NEW x \in Workers, Job(x) PROVE pc'[w] = pc[w] /\ date'[w] = date[w]
        BY <1>0, <2>0, <2>1, <4>2
           DEF Job, BeginToday, BeginRetry, Pick, ReplyBad, ReplyOk, Add, OpenData, WriteData,
               Processed, Schedule, Unschedule, WriteSchedule, OpenSchedule, Goto, With, WorkersOK
      <4> QED  BY <1>0, <4>1, <4>2 DEF Next, vars, RegularTick, RetryTick, NextDay
    <3> QED  BY <2>0, <3>1
  <2>2. CASE ReplyBad(w) \/ ReplyOk(w) \/ Add(w)
    BY <1>0, <2>0, <2>2 DEF ReplyBad, ReplyOk, Add, Goto, With, WorkersOK
  <2>3. CASE OpenData(w)
    <3>1. pc'[w] = "write_data" /\ date'[w] = d
      BY <1>0, <2>0, <2>3 DEF OpenData, Goto, With, WorkersOK
    <3>2. SavesArrive' /\ faults' = 0
      BY SavesArriveStep DEF Alive
    <3> QED  BY <2>0, <3>1, <3>2 DEF SavesArrive, Saved, Days
  <2>4. CASE Schedule(w)
    BY <2>0, <2>4, ScheduleViewKeeps
  <2>5. CASE BeginToday(w) \/ BeginRetry(w) \/ Pick(w) \/ WriteData(w) \/ Processed(w)
             \/ Unschedule(w) \/ WriteSchedule(w)
    BY <2>0, <2>5 DEF BeginToday, BeginRetry, Pick, WriteData, Processed, Unschedule, WriteSchedule
  <2> QED  BY <2>1, <2>2, <2>3, <2>4, <2>5 DEF Job
<1>6. d \in due \ exposed => d \in DataView \cup ScheduleView \/ \E w \in Regular : InHands(w, d)
  BY DEF Alive, FetchInv, NoGap, InHand
<1> QED  BY <1>2, <1>3, <1>4, <1>5, <1>6

(* A crash: what is due and not at stake is in a file that keeps it.       *)
LEMMA CrashStep == FetchInv /\ Crash => SavesArrive' /\ NoGap'
<1> SUFFICES ASSUME FetchInv, Crash PROVE SavesArrive' /\ NoGap'
  OBVIOUS
<1>1. /\ \A w \in Workers : pc'[w] = "idle"
      /\ strgLock' = Free /\ schedLock' = Free
      /\ exposed' = exposed \cup AtStake
      /\ UNCHANGED <<dataFile, schedFile, due, faults>>
  BY DEF Crash, files
<1>2. DataView' = Parse(dataFile) /\ ScheduleView' = Parse(schedFile)
  BY <1>1 DEF DataView, ScheduleView, Parse
<1>3. SavesArrive'
  BY <1>1 DEF SavesArrive, Saved
<1>4. ASSUME faults = 0, NEW d \in due, d \notin exposed, d \notin AtStake
      PROVE  d \in Parse(dataFile) \cup Parse(schedFile)
  <2>1. d \in DataView \cup ScheduleView \/ \E w \in Regular : date[w] = d /\ InHand(w)
    BY <1>4 DEF FetchInv, NoGap
  <2>2. ~\E w \in Regular : date[w] = d /\ InHand(w)
    BY <1>4 DEF AtStake
  <2>3. CASE d \in DataView
    BY <1>4, <2>3 DEF DataView, AtStake
  <2>4. CASE d \in ScheduleView
    BY <1>4, <2>4 DEF ScheduleView, AtStake
  <2> QED  BY <2>1, <2>2, <2>3, <2>4
<1> QED  BY <1>1, <1>2, <1>3, <1>4 DEF NoGap

LEMMA FetchInductive == FetchInv /\ [Next]_vars => FetchInv'
<1> SUFFICES ASSUME FetchInv, [Next]_vars PROVE FetchInv'
  OBVIOUS
<1>1. FileInv'
  BY FileInductive DEF FetchInv
<1>2. CASE Crash
  BY <1>1, <1>2, CrashStep DEF FetchInv
<1>3. CASE ~Crash /\ faults' = 0
  BY <1>1, <1>3, FaultsStay, SavesArriveStep, NoGapStep DEF FetchInv, Alive
<1>4. CASE faults' # 0
  BY <1>1, <1>4 DEF FetchInv, SavesArrive, NoGap
<1> QED  BY <1>2, <1>3, <1>4

(* No day is lost between the worker, the data file and the schedule,      *)
(* whatever the order of saves, replies and crashes, but a day that a      *)
(* crash finds in a regular worker's hands or in a file being rewritten.   *)
THEOREM NoGapAlways == Spec => []NoGap
<1>1. FetchInv => NoGap
  BY DEF FetchInv
<1> QED  BY <1>1, FetchInitInv, FetchInductive, PTL DEF Spec
================================================================================
