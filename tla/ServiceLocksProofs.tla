-------------------------- MODULE ServiceLocksProofs --------------------------
(***************************************************************************)
(* ServiceLocks for any number of fetchers and cron threads: who holds     *)
(* which lock can be read off what each thread still has to release, every *)
(* stretch nests its locks in one order, and the LOG statement that reads  *)
(* the configuration is the only exception.  And LogConfig, the            *)
(* configuration and the log under those locks, for any schedules, names,  *)
(* loggers and number of edits.                                            *)
(***************************************************************************)
EXTENDS LogConfig, ServiceLocks, SequenceTheorems, TLAPS

(* The locks that s releases from its i-th operation on without acquiring  *)
(* them first: those held when that operation is next.                     *)
OpenFrom(s, i) ==
    {l \in Locks : \E k \in i..Len(s) : s[k] = Rel(l) /\ \A j \in i..(k - 1) : s[j] # Acq(l)}

(* The order in which the program nests its locks ...                      *)
Order == ({"strg"} \X {"config", "log", "data"}) \cup ({"sched"} \X {"config", "log"})
            \cup ({"config"} \X {"log", "data"})

(* ... and the nesting of LogFlushing.                                     *)
Flush == <<"log", "config">>
Allowed(t) == IF t \in Fetchers THEN Order \cup {Flush} ELSE Order

(* s acquires only what it does not hold and what its nesting allows, and  *)
(* what it acquires it releases, once.                                     *)
TidyAt(s, i, nesting) ==
    /\ s[i].op = "acquire" =>
           /\ OpenFrom(s, i + 1) = OpenFrom(s, i) \cup {s[i].lock}
           /\ s[i].lock \notin OpenFrom(s, i)
           /\ \A h \in OpenFrom(s, i) : <<h, s[i].lock>> \in nesting
    /\ s[i].op = "release" => OpenFrom(s, i + 1) = OpenFrom(s, i) \ {s[i].lock}

Tidy(s, nesting) == s \in Seq(Operations) /\ \A i \in 1..Len(s) : TidyAt(s, i, nesting)

(* A stretch begins, and so ends, without locks.                           *)
Closed(s, nesting) == Tidy(s, nesting) /\ OpenFrom(s, 1) = {}

(* A thread holds what it still has to release, and nothing else.          *)
HoldersInv ==
    \A t \in Threads :
        /\ Tidy(todo[t], Allowed(t))
        /\ \A l \in Locks : holder[l] = t <=> l \in OpenFrom(todo[t], 1)

LocksInv == TypeOK /\ HoldersInv

--------------------------------------------------------------------------------
(* Operations and the locks they leave open.                               *)

LEMMA OperationFacts ==
    /\ \A l \in Locks : /\ Acq(l) \in Operations /\ Acq(l).op = "acquire" /\ Acq(l).lock = l
                        /\ Rel(l) \in Operations /\ Rel(l).op = "release" /\ Rel(l).lock = l
    /\ \A o \in Operations : /\ o.op \in {"acquire", "release"} /\ o.lock \in Locks
                             /\ o.op = "acquire" => o = Acq(o.lock)
                             /\ o.op = "release" => o = Rel(o.lock)
BY DEF Acq, Rel, Operations

LEMMA OpenConcat ==
    ASSUME NEW a \in Seq(Operations), NEW b \in Seq(Operations), OpenFrom(b, 1) = {}
    PROVE  /\ \A i \in 1..(Len(a) + 1) : OpenFrom(a \o b, i) = OpenFrom(a, i)
           /\ \A i \in 1..(Len(b) + 1) : OpenFrom(a \o b, Len(a) + i) = OpenFrom(b, i)
<1> DEFINE c == a \o b
           m == Len(a)
           n == Len(b)
<1>1. /\ m \in Nat /\ n \in Nat /\ Len(c) = m + n
      /\ \A i \in 1..m : c[i] = a[i]
      /\ \A i \in 1..n : c[m + i] = b[i]
  BY ConcatProperties, LenProperties
<1> HIDE DEF c, m, n
<1>2. ASSUME NEW i \in 1..(n + 1) PROVE OpenFrom(c, m + i) = OpenFrom(b, i)
  <2>1. ASSUME NEW l \in Locks, NEW k \in i..n, b[k] = Rel(l), \A j \in i..(k - 1) : b[j] # Acq(l)
        PROVE  l \in OpenFrom(c, m + i)
    <3>1. m + k \in (m + i)..(m + n) /\ c[m + k] = Rel(l)
      BY <1>1, <2>1
    <3>2. ASSUME NEW j \in (m + i)..(m + k - 1) PROVE c[j] # Acq(l)
      <4>1. j - m \in i..(k - 1) /\ j - m \in 1..n /\ j = m + (j - m)
        BY <1>1
      <4> QED  BY <1>1, <2>1, <4>1
    <3> QED  BY <1>1, <3>1, <3>2 DEF OpenFrom
  <2>2. ASSUME NEW l \in Locks, NEW k \in (m + i)..(m + n), c[k] = Rel(l),
               \A j \in (m + i)..(k - 1) : c[j] # Acq(l)
        PROVE  l \in OpenFrom(b, i)
    <3>1. k - m \in i..n /\ b[k - m] = Rel(l)
      <4>1. k - m \in i..n /\ k - m \in 1..n /\ k = m + (k - m)
        BY <1>1
      <4> QED  BY <1>1, <2>2, <4>1
    <3>2. ASSUME NEW j \in i..(k - m - 1) PROVE b[j] # Acq(l)
      <4>1. m + j \in (m + i)..(k - 1) /\ j \in 1..n
        BY <1>1
      <4> QED  BY <1>1, <2>2, <4>1
    <3> QED  BY <1>1, <3>1, <3>2 DEF OpenFrom, n
  <2> QED  BY <1>1, <2>1, <2>2 DEF OpenFrom, n
<1>3. ASSUME NEW i \in 1..(m + 1) PROVE OpenFrom(c, i) = OpenFrom(a, i)
  <2>1. ASSUME NEW l \in OpenFrom(a, i) PROVE l \in OpenFrom(c, i)
    <3>1. PICK k \in i..m : a[k] = Rel(l) /\ \A j \in i..(k - 1) : a[j] # Acq(l)
      BY DEF OpenFrom, m
    <3>2. k \in i..Len(c) /\ c[k] = Rel(l) /\ \A j \in i..(k - 1) : c[j] # Acq(l)
      <4>1. k \in i..Len(c) /\ k \in 1..m /\ \A j \in i..(k - 1) : j \in 1..m
        BY <1>1
      <4> QED  BY ONLY <1>1, <3>1, <4>1
    <3> QED  BY <3>2 DEF OpenFrom
  <2>2. ASSUME NEW l \in OpenFrom(c, i) PROVE l \in OpenFrom(a, i)
    <3>1. PICK k \in i..(m + n) : c[k] = Rel(l) /\ \A j \in i..(k - 1) : c[j] # Acq(l)
      BY <1>1 DEF OpenFrom
    <3>2. CASE k \in 1..m
      <4>1. k \in i..m /\ a[k] = Rel(l) /\ \A j \in i..(k - 1) : a[j] # Acq(l)
        BY <1>1, <3>1, <3>2
      <4> QED  BY <4>1 DEF OpenFrom, m
    <3>3. CASE k > m
      <4>1. k \in (m + 1)..Len(c) /\ \A j \in (m + 1)..(k - 1) : c[j] # Acq(l)
        BY <1>1, <3>1, <3>3
      <4>2. l \in OpenFrom(c, m + 1)
        BY <3>1, <4>1 DEF OpenFrom
      <4>3. 1 \in 1..(n + 1)
        BY <1>1
      <4> QED  BY <1>2, <4>2, <4>3
    <3> QED  BY <1>1, <3>1, <3>2, <3>3
  <2> QED  BY <2>1, <2>2
<1> QED  BY <1>2, <1>3 DEF c, m, n

LEMMA OpenAround ==
    ASSUME NEW l \in Locks, NEW a \in Seq(Operations), OpenFrom(a, 1) = {},
           \A i \in 1..Len(a) : a[i].lock # l
    PROVE  LET s == Around(l, a) IN
           /\ s \in Seq(Operations) /\ Len(s) = Len(a) + 2
           /\ s[1] = Acq(l) /\ s[Len(a) + 2] = Rel(l) /\ \A i \in 1..Len(a) : s[i + 1] = a[i]
           /\ OpenFrom(s, 1) = {} /\ OpenFrom(s, Len(a) + 3) = {}
           /\ \A i \in 1..(Len(a) + 1) : OpenFrom(s, i + 1) = OpenFrom(a, i) \cup {l}
<1> DEFINE s == Around(l, a)
           n == Len(a)
<1>1. /\ n \in Nat /\ s \in Seq(Operations) /\ Len(s) = n + 2
      /\ s[1] = Acq(l) /\ s[n + 2] = Rel(l) /\ \A i \in 1..n : s[i + 1] = a[i]
  <2>1. <<Acq(l)>> \in Seq(Operations) /\ <<Rel(l)>> \in Seq(Operations)
    BY OperationFacts
  <2>2. /\ <<Acq(l)>> \o a \in Seq(Operations) /\ Len(<<Acq(l)>> \o a) = n + 1
        /\ (<<Acq(l)>> \o a)[1] = Acq(l)
        /\ \A i \in 1..n : (<<Acq(l)>> \o a)[i + 1] = a[i]
    BY <2>1, ConcatProperties, LenProperties
  <2> QED  BY <2>1, <2>2, ConcatProperties, LenProperties DEF Around
<1> HIDE DEF s, n
<1>2. \A i \in 1..n : a[i] # Acq(l) /\ a[i] # Rel(l)
  BY OperationFacts DEF n
<1>3. \A m \in Locks \ {l} : Acq(l) # Acq(m) /\ Acq(l) # Rel(m) /\ Rel(l) # Rel(m)
  BY OperationFacts
<1>4. Acq(l) # Rel(l)
  BY OperationFacts
<1>5. ASSUME NEW i \in 1..(n + 1) PROVE OpenFrom(s, i + 1) = OpenFrom(a, i) \cup {l}
  <2>1. l \in OpenFrom(s, i + 1)
    <3>1. n + 2 \in (i + 1)..Len(s)
      BY <1>1
    <3>2. ASSUME NEW j \in (i + 1)..(n + 1) PROVE s[j] # Acq(l)
      <4>1. j - 1 \in 1..n /\ j = (j - 1) + 1
        BY <1>1
      <4> QED  BY <1>1, <1>2, <4>1
    <3>3. \A j \in (i + 1)..((n + 2) - 1) : s[j] # Acq(l)
      BY <1>1, <3>2
    <3> QED  BY <1>1, <3>1, <3>3 DEF OpenFrom
  <2>2. ASSUME NEW m \in OpenFrom(a, i) PROVE m \in OpenFrom(s, i + 1)
    <3>1. PICK k \in i..n : m \in Locks /\ a[k] = Rel(m) /\ \A j \in i..(k - 1) : a[j] # Acq(m)
      BY DEF OpenFrom, n
    <3>2. k + 1 \in (i + 1)..Len(s) /\ s[k + 1] = Rel(m)
      BY <1>1, <3>1
    <3>3. ASSUME NEW j \in (i + 1)..k PROVE s[j] # Acq(m)
      <4>1. j - 1 \in i..(k - 1) /\ j - 1 \in 1..n /\ j = (j - 1) + 1
        BY <1>1
      <4> QED  BY <1>1, <3>1, <4>1
    <3>4. \A j \in (i + 1)..((k + 1) - 1) : s[j] # Acq(m)
      BY <1>1, <3>3
    <3> QED  BY <3>1, <3>2, <3>4 DEF OpenFrom
  <2>3. ASSUME NEW m \in OpenFrom(s, i + 1), m # l PROVE m \in OpenFrom(a, i)
    <3>1. PICK k \in (i + 1)..(n + 2) : /\ m \in Locks /\ s[k] = Rel(m)
                                       /\ \A j \in (i + 1)..(k - 1) : s[j] # Acq(m)
      BY <1>1 DEF OpenFrom
    <3>2. k # n + 2
      BY <1>1, <1>3, <2>3, <3>1
    <3>3. k - 1 \in i..n /\ k = (k - 1) + 1
      BY <1>1, <3>2
    <3>4. a[k - 1] = Rel(m)
      BY <1>1, <3>1, <3>3
    <3>5. ASSUME NEW j \in i..((k - 1) - 1) PROVE a[j] # Acq(m)
      <4>1. j + 1 \in (i + 1)..(k - 1) /\ j \in 1..n
        BY <1>1, <3>3
      <4> QED  BY <1>1, <3>1, <4>1
    <3> QED  BY <3>1, <3>3, <3>4, <3>5 DEF OpenFrom, n
  <2> QED  BY <2>1, <2>2, <2>3
<1>6. OpenFrom(s, 1) = {}
  <2>1. ASSUME NEW m \in OpenFrom(s, 1) PROVE FALSE
    <3>1. PICK k \in 1..(n + 2) : m \in Locks /\ s[k] = Rel(m) /\ \A j \in 1..(k - 1) : s[j] # Acq(m)
      BY <1>1 DEF OpenFrom
    <3>2. k # 1
      BY <1>1, <1>3, <1>4, <3>1
    <3>3. 1 \in 1..(k - 1) /\ k \in 2..Len(s)
      BY <1>1, <3>2
    <3>4. m # l
      BY <1>1, <3>1, <3>3
    <3>5. m \in OpenFrom(s, 2)
      BY <1>1, <3>1, <3>3 DEF OpenFrom
    <3>6. OpenFrom(s, 1 + 1) = OpenFrom(a, 1) \cup {l}
      BY <1>1, <1>5
    <3> QED  BY <3>4, <3>5, <3>6
  <2> QED  BY <2>1
<1>7. OpenFrom(s, n + 3) = {}
  BY <1>1 DEF OpenFrom
<1> QED  BY <1>1, <1>5, <1>6, <1>7 DEF s, n

--------------------------------------------------------------------------------
(* Stretches.                                                              *)

(* s is closed and uses the locks of U only.                               *)
Part(s, U, nesting) ==
    Closed(s, nesting) /\ U \subseteq Locks /\ \A i \in 1..Len(s) : s[i].lock \in U

LEMMA NothingIsTidy == ASSUME NEW nesting PROVE Part(<<>>, {}, nesting)
<1>1. <<>> \in Seq(Operations) /\ Len(<<>>) = 0
  OBVIOUS
<1> QED  BY <1>1 DEF Part, Closed, Tidy, OpenFrom

LEMMA ConcatIsTidy ==
    ASSUME NEW nesting, NEW a, NEW b, NEW U, NEW V, Part(a, U, nesting), Part(b, V, nesting)
    PROVE  Part(a \o b, U \cup V, nesting)
<1> DEFINE c == a \o b
           m == Len(a)
           n == Len(b)
<1>0. a \in Seq(Operations) /\ b \in Seq(Operations) /\ OpenFrom(a, 1) = {} /\ OpenFrom(b, 1) = {}
  BY DEF Part, Closed, Tidy
<1>1. /\ m \in Nat /\ n \in Nat /\ c \in Seq(Operations) /\ Len(c) = m + n
      /\ \A i \in 1..m : c[i] = a[i]
      /\ \A i \in 1..n : c[m + i] = b[i]
  BY <1>0, ConcatProperties, LenProperties
<1>2. /\ \A i \in 1..(m + 1) : OpenFrom(c, i) = OpenFrom(a, i)
      /\ \A i \in 1..(n + 1) : OpenFrom(c, m + i) = OpenFrom(b, i)
  BY <1>0, OpenConcat
<1>3. ASSUME NEW i \in 1..m PROVE TidyAt(c, i, nesting) /\ c[i].lock \in U
  <2>1. c[i] = a[i] /\ OpenFrom(c, i) = OpenFrom(a, i) /\ OpenFrom(c, i + 1) = OpenFrom(a, i + 1)
    <3>1. i \in 1..(m + 1) /\ i + 1 \in 1..(m + 1)
      BY <1>1
    <3> QED  BY <1>1, <1>2, <3>1
  <2>2. TidyAt(a, i, nesting) /\ a[i].lock \in U
    BY DEF Part, Closed, Tidy
  <2> QED  BY <2>1, <2>2 DEF TidyAt
<1>4. ASSUME NEW i \in 1..n PROVE TidyAt(c, m + i, nesting) /\ c[m + i].lock \in V
  <2>1. /\ c[m + i] = b[i] /\ OpenFrom(c, m + i) = OpenFrom(b, i)
        /\ OpenFrom(c, (m + i) + 1) = OpenFrom(b, i + 1)
    <3>1. i \in 1..(n + 1) /\ i + 1 \in 1..(n + 1) /\ (m + i) + 1 = m + (i + 1)
      BY <1>1
    <3> QED  BY <1>1, <1>2, <3>1
  <2>2. TidyAt(b, i, nesting) /\ b[i].lock \in V
    BY DEF Part, Closed, Tidy
  <2> QED  BY <2>1, <2>2 DEF TidyAt
<1>5. ASSUME NEW i \in 1..Len(c) PROVE TidyAt(c, i, nesting) /\ c[i].lock \in U \cup V
  <2>1. i \in 1..m \/ (i - m \in 1..n /\ i = m + (i - m))
    BY <1>1
  <2> QED  BY <1>3, <1>4, <2>1
<1>6. OpenFrom(c, 1) = {}
  <2>1. 1 \in 1..(m + 1)
    BY <1>1
  <2> QED  BY <1>0, <1>2, <2>1
<1> QED  BY <1>1, <1>5, <1>6 DEF Part, Closed, Tidy

LEMMA AroundIsTidy ==
    ASSUME NEW nesting, NEW a, NEW U, Part(a, U, nesting), NEW l \in Locks, l \notin U,
           \A u \in U : <<l, u>> \in nesting
    PROVE  Part(Around(l, a), U \cup {l}, nesting)
<1> DEFINE s == Around(l, a)
           n == Len(a)
<1>0. /\ a \in Seq(Operations) /\ OpenFrom(a, 1) = {} /\ U \subseteq Locks
      /\ \A i \in 1..n : TidyAt(a, i, nesting) /\ a[i].lock \in U
  BY DEF Part, Closed, Tidy
<1>1. /\ n \in Nat /\ s \in Seq(Operations) /\ Len(s) = n + 2
      /\ s[1] = Acq(l) /\ s[n + 2] = Rel(l) /\ \A i \in 1..n : s[i + 1] = a[i]
      /\ OpenFrom(s, 1) = {} /\ OpenFrom(s, n + 3) = {}
      /\ \A i \in 1..(n + 1) : OpenFrom(s, i + 1) = OpenFrom(a, i) \cup {l}
  BY <1>0, OpenAround, LenProperties
<1>2. OpenFrom(a, n + 1) = {}
  BY <1>1 DEF OpenFrom
<1>3. TidyAt(s, 1, nesting) /\ s[1].lock = l
  <2>1. OpenFrom(s, 1 + 1) = {l}
    <3>1. 1 \in 1..(n + 1)
      BY <1>1
    <3>2. OpenFrom(s, 1 + 1) = OpenFrom(a, 1) \cup {l}
      BY <1>1, <3>1
    <3> QED  BY <1>0, <3>2
  <2> QED  BY <1>1, <2>1, OperationFacts DEF TidyAt
<1>4. TidyAt(s, n + 2, nesting) /\ s[n + 2].lock = l
  <2>1. n + 1 \in 1..(n + 1) /\ (n + 1) + 1 = n + 2 /\ (n + 2) + 1 = n + 3
    BY <1>1
  <2>2. OpenFrom(s, n + 2) = {l} /\ OpenFrom(s, (n + 2) + 1) = {}
    BY <1>1, <1>2, <2>1
  <2> QED  BY <1>1, <2>2, OperationFacts DEF TidyAt
<1>5. ASSUME NEW i \in 1..n PROVE TidyAt(s, i + 1, nesting) /\ s[i + 1].lock \in U
  <2>1. /\ s[i + 1] = a[i] /\ OpenFrom(s, i + 1) = OpenFrom(a, i) \cup {l}
        /\ OpenFrom(s, (i + 1) + 1) = OpenFrom(a, i + 1) \cup {l}
    <3>1. i \in 1..(n + 1) /\ i + 1 \in 1..(n + 1)
      BY <1>1
    <3> QED  BY <1>1, <3>1
  <2>2. TidyAt(a, i, nesting) /\ a[i].lock \in U /\ a[i].lock # l /\ <<l, a[i].lock>> \in nesting
    BY <1>0
  <2> QED  BY <2>1, <2>2 DEF TidyAt
<1>6. ASSUME NEW i \in 1..Len(s) PROVE TidyAt(s, i, nesting) /\ s[i].lock \in U \cup {l}
  <2>1. i = 1 \/ i = n + 2 \/ (i - 1 \in 1..n /\ i = (i - 1) + 1)
    BY <1>1
  <2> QED  BY <1>3, <1>4, <1>5, <2>1
<1> QED  BY <1>0, <1>1, <1>6 DEF Part, Closed, Tidy

LEMMA UseIsTidy ==
    ASSUME NEW nesting, NEW l \in Locks
    PROVE  Part(Use(l), {l}, nesting)
  BY NothingIsTidy, AroundIsTidy DEF Use

(* The stretches that keep to the order, and the one that does not.        *)
LEMMA OrderlyStretches ==
    ASSUME NEW nesting, Order \subseteq nesting, NEW e \in {<<>>, LogLine}
    PROVE  /\ \A l \in Locks : Closed(Use(l), nesting)
           /\ Closed(LogLine, nesting)
           /\ Closed(LoadStorage, nesting) /\ Closed(SaveStorage, nesting)
           /\ Closed(AddRates, nesting)
           /\ Closed(ReadSchedule(e), nesting) /\ Closed(UpdateSchedule(e), nesting)
<1>0. /\ {"strg", "data", "config", "log", "sched"} = Locks
      /\ \A l \in {"config", "log", "data"} : <<"strg", l>> \in nesting
      /\ \A l \in {"config", "log"} : <<"sched", l>> \in nesting
      /\ \A l \in {"log", "data"} : <<"config", l>> \in nesting
  BY DEF Locks, Order
<1>1. \A l \in Locks : Part(Use(l), {l}, nesting)
  BY UseIsTidy
<1>2. Part(LogLine, {"log"}, nesting) /\ Part(Use("data"), {"data"}, nesting)
  BY <1>0, <1>1 DEF LogLine
<1>3. Part(LogLine \o Use("data"), {"log", "data"}, nesting)
  <2>1. Part(LogLine \o Use("data"), {"log"} \cup {"data"}, nesting)
    BY <1>2, ConcatIsTidy
  <2>2. {"log"} \cup {"data"} = {"log", "data"}
    OBVIOUS
  <2> QED  BY <2>1, <2>2
<1>4. Part(e, {"log"}, nesting)
  BY <1>2, NothingIsTidy DEF Part, Locks
<1>5. Closed(AddRates, nesting)
  <2>1. Part(AddRates, {"log", "data"} \cup {"strg"}, nesting)
    BY <1>0, <1>3, AroundIsTidy DEF AddRates
  <2> QED  BY <2>1 DEF Part
<1>6. Closed(SaveStorage, nesting)
  <2>1. Part(Around("config", LogLine \o Use("data")), {"log", "data"} \cup {"config"}, nesting)
    BY <1>0, <1>3, AroundIsTidy
  <2>2. Part(SaveStorage, ({"log", "data"} \cup {"config"}) \cup {"strg"}, nesting)
    BY <1>0, <2>1, AroundIsTidy DEF SaveStorage
  <2> QED  BY <2>2 DEF Part
<1>7. Closed(LoadStorage, nesting)
  <2> DEFINE U == (({"data"} \cup {"log"}) \cup {"log"}) \cup {"data"}
  <2>1. Part(Use("data") \o LogLine \o LogLine \o Use("data"), U, nesting)
    <3>1. Part(Use("data") \o LogLine, {"data"} \cup {"log"}, nesting)
      BY <1>2, ConcatIsTidy
    <3>2. Part(Use("data") \o LogLine \o LogLine, ({"data"} \cup {"log"}) \cup {"log"}, nesting)
      BY <1>2, <3>1, ConcatIsTidy
    <3> QED  BY <1>2, <3>2, ConcatIsTidy
  <2>2. "config" \notin U /\ \A u \in U : <<"config", u>> \in nesting
    BY <1>0
  <2>3. "strg" \notin U \cup {"config"} /\ \A u \in U \cup {"config"} : <<"strg", u>> \in nesting
    BY <1>0
  <2> HIDE DEF U
  <2>4. Part(Around("config", Use("data") \o LogLine \o LogLine \o Use("data")),
             U \cup {"config"}, nesting)
    BY <1>0, <2>1, <2>2, AroundIsTidy
  <2>5. Part(LoadStorage, (U \cup {"config"}) \cup {"strg"}, nesting)
    BY <1>0, <2>3, <2>4, AroundIsTidy DEF LoadStorage
  <2> QED  BY <2>5 DEF Part
<1>8. Part(Around("config", e), {"log"} \cup {"config"}, nesting)
  BY <1>0, <1>4, AroundIsTidy
<1>9. Closed(ReadSchedule(e), nesting)
  <2>1. Part(ReadSchedule(e), ({"log"} \cup {"config"}) \cup {"sched"}, nesting)
    BY <1>0, <1>8, AroundIsTidy DEF ReadSchedule
  <2> QED  BY <2>1 DEF Part
<1>10. Closed(UpdateSchedule(e), nesting)
  <2>1. Part(Around("config", e) \o e, ({"log"} \cup {"config"}) \cup {"log"}, nesting)
    BY <1>4, <1>8, ConcatIsTidy
  <2>2. Part(UpdateSchedule(e), (({"log"} \cup {"config"}) \cup {"log"}) \cup {"sched"}, nesting)
    BY <1>0, <2>1, AroundIsTidy DEF UpdateSchedule
  <2> QED  BY <2>2 DEF Part
<1> QED  BY <1>1, <1>2, <1>5, <1>6, <1>7, <1>9, <1>10 DEF Part

LEMMA FlushingStretch == Closed(LogFlushing, Order \cup {Flush})
<1>1. "config" \in Locks /\ "log" \in Locks
  BY DEF Locks
<1>2. Part(Use("config"), {"config"}, Order \cup {Flush})
  BY <1>1, UseIsTidy
<1>3. Part(LogFlushing, {"config"} \cup {"log"}, Order \cup {Flush})
  BY <1>1, <1>2, AroundIsTidy DEF LogFlushing, Flush
<1> QED  BY <1>3 DEF Part

LEMMA StretchesAreTidy ==
    ASSUME NEW t \in Threads, NEW s \in Stretches(t)
    PROVE  Closed(s, Allowed(t))
<1>0. Order \subseteq Allowed(t)
  BY DEF Allowed
<1>1. "config" \in Locks /\ "log" \in Locks
  BY DEF Locks
<1>2. CASE t \in Fetchers
  <2>0. t \notin Crons /\ t # Updater /\ t # Main
    BY <1>2, ServiceConstants
  <2>1. s \in FetchStretches(t)
    BY <1>2, <2>0 DEF Stretches
  <2>2. CASE s = LogFlushing
    BY <1>2, <2>2, FlushingStretch DEF Allowed
  <2>3. CASE \E e \in {<<>>, LogLine} : s = UpdateSchedule(e) \/ s = ReadSchedule(e)
    BY <1>0, <2>3, OrderlyStretches
  <2>4. CASE s \in {Use("config"), LogLine, AddRates, SaveStorage}
    BY <1>0, <1>1, <2>4, OrderlyStretches
  <2> QED  BY <2>1, <2>2, <2>3, <2>4 DEF FetchStretches
<1>3. CASE t \notin Fetchers
  <2>1. s \in {LogLine, Use("config"), Use("log"), LoadStorage}
    BY <1>3 DEF Stretches, Threads, UpdaterStretches, CronStretches
  <2> QED  BY <1>0, <1>1, <2>1, OrderlyStretches
<1> QED  BY <1>2, <1>3

--------------------------------------------------------------------------------
(* The invariant.                                                          *)

LEMMA ThreadFacts ==
    /\ Free \notin Threads /\ Main \in Threads /\ Updater \in Threads
    /\ Crons \subseteq Threads /\ Fetchers \subseteq Threads
  BY ServiceConstants DEF Threads, Main, Updater, Free

(* What is left of a stretch when its first operation is done.             *)
LEMMA TailIsTidy ==
    ASSUME NEW nesting, NEW s, Tidy(s, nesting), s # <<>>
    PROVE  /\ Head(s) \in Operations /\ Head(s) = s[1] /\ 1 \in 1..Len(s)
           /\ Tidy(Tail(s), nesting)
           /\ OpenFrom(Tail(s), 1) = OpenFrom(s, 2)
<1> DEFINE u == Tail(s)
<1>1. /\ s \in Seq(Operations) /\ Len(s) \in Nat /\ Len(s) >= 1
      /\ u \in Seq(Operations) /\ Len(u) = Len(s) - 1
      /\ \A i \in 1..Len(u) : u[i] = s[i + 1]
      /\ Head(s) = s[1] /\ Head(s) \in Operations
  <2>1. s \in Seq(Operations)
    BY DEF Tidy
  <2>2. Len(s) \in Nat \ {0}
    BY <2>1, EmptySeq
  <2> QED  BY <2>1, <2>2, HeadTailProperties
<1> HIDE DEF u
<1>2. ASSUME NEW i \in 1..Len(s) PROVE OpenFrom(u, i) = OpenFrom(s, i + 1)
  <2>1. ASSUME NEW l \in OpenFrom(u, i) PROVE l \in OpenFrom(s, i + 1)
    <3>1. PICK k \in i..Len(u) : l \in Locks /\ u[k] = Rel(l) /\ \A j \in i..(k - 1) : u[j] # Acq(l)
      BY DEF OpenFrom
    <3>2. k + 1 \in (i + 1)..Len(s) /\ s[k + 1] = Rel(l)
      BY <1>1, <3>1
    <3>3. ASSUME NEW j \in (i + 1)..((k + 1) - 1) PROVE s[j] # Acq(l)
      <4>1. j - 1 \in i..(k - 1) /\ j - 1 \in 1..Len(u) /\ j = (j - 1) + 1
        BY <1>1
      <4> QED  BY <1>1, <3>1, <4>1
    <3> QED  BY <3>1, <3>2, <3>3 DEF OpenFrom
  <2>2. ASSUME NEW l \in OpenFrom(s, i + 1) PROVE l \in OpenFrom(u, i)
    <3>1. PICK k \in (i + 1)..Len(s) :
              l \in Locks /\ s[k] = Rel(l) /\ \A j \in (i + 1)..(k - 1) : s[j] # Acq(l)
      BY DEF OpenFrom
    <3>2. k - 1 \in i..Len(u) /\ k = (k - 1) + 1
      BY <1>1
    <3>3. u[k - 1] = Rel(l)
      BY <1>1, <3>1, <3>2
    <3>4. ASSUME NEW j \in i..((k - 1) - 1) PROVE u[j] # Acq(l)
      <4>1. j + 1 \in (i + 1)..(k - 1) /\ j \in 1..Len(u)
        BY <1>1, <3>2
      <4> QED  BY <1>1, <3>1, <4>1
    <3> QED  BY <3>1, <3>2, <3>3, <3>4 DEF OpenFrom
  <2> QED  BY <2>1, <2>2
<1>3. ASSUME NEW i \in 1..Len(u) PROVE TidyAt(u, i, nesting)
  <2>1. /\ u[i] = s[i + 1] /\ OpenFrom(u, i) = OpenFrom(s, i + 1)
        /\ OpenFrom(u, i + 1) = OpenFrom(s, (i + 1) + 1)
    <3>1. i \in 1..Len(s) /\ i + 1 \in 1..Len(s)
      BY <1>1
    <3> QED  BY <1>1, <1>2, <3>1
  <2>2. TidyAt(s, i + 1, nesting)
    <3>1. i + 1 \in 1..Len(s)
      BY <1>1
    <3> QED  BY <3>1 DEF Tidy
  <2> QED  BY <2>1, <2>2 DEF TidyAt
<1>4. OpenFrom(u, 1) = OpenFrom(s, 2)
  <2>1. 1 \in 1..Len(s) /\ 1 + 1 = 2
    BY <1>1
  <2> QED  BY <1>2, <2>1
<1> QED  BY <1>1, <1>3, <1>4 DEF Tidy, u

LEMMA ClosedEnds == ASSUME NEW nesting PROVE Closed(<<>>, nesting)
  BY NothingIsTidy DEF Part

LEMMA LocksInitInv == Init => LocksInv
<1> SUFFICES ASSUME Init PROVE LocksInv
  OBVIOUS
<1>1. \A t \in Threads : Closed(todo[t], Allowed(t))
  <2>1. LoadStorage \in Stretches(Main)
    BY ServiceConstants DEF Stretches, Main, Updater
  <2>2. Closed(LoadStorage, Allowed(Main))
    BY <2>1, StretchesAreTidy, ThreadFacts
  <2> QED  BY <2>2, ClosedEnds DEF Init
<1>2. TypeOK
  <2>1. todo \in [Threads -> Seq(Operations)]
    BY <1>1 DEF Init, Closed, Tidy
  <2> QED  BY <2>1 DEF Init, TypeOK
<1>3. \A t \in Threads, l \in Locks : holder[l] # t
  BY ThreadFacts DEF Init
<1> QED  BY <1>1, <1>2, <1>3 DEF LocksInv, HoldersInv, Closed

LEMMA LocksInductive == LocksInv /\ [Next]_vars => LocksInv'
<1> SUFFICES ASSUME LocksInv, [Next]_vars PROVE LocksInv'
  OBVIOUS
<1>0. TypeOK /\ HoldersInv
  BY DEF LocksInv
<1>1. ASSUME NEW t \in Threads, Acquire(t) PROVE LocksInv'
  <2> DEFINE s == todo[t]
             l == Head(s).lock
  <2>1. /\ Tidy(s, Allowed(t)) /\ s # <<>> /\ Head(s).op = "acquire" /\ holder[l] = Free
        /\ holder' = [holder EXCEPT ![l] = t] /\ todo' = [todo EXCEPT ![t] = Tail(s)]
        /\ UNCHANGED <<mainPc, exited, adding, stopEvent, globalTerm, logicTerm>>
    BY <1>0, <1>1 DEF Acquire, HoldersInv
  <2>2. /\ Head(s) \in Operations /\ Tidy(Tail(s), Allowed(t)) /\ TidyAt(s, 1, Allowed(t))
        /\ Head(s) = s[1] /\ OpenFrom(Tail(s), 1) = OpenFrom(s, 2)
    BY <2>1, TailIsTidy DEF Tidy
  <2>3. l \in Locks /\ OpenFrom(Tail(s), 1) = OpenFrom(s, 1) \cup {l}
    <3>1. OpenFrom(s, 1 + 1) = OpenFrom(s, 1) \cup {l}
      BY <2>1, <2>2 DEF TidyAt
    <3> QED  BY <2>2, <3>1, OperationFacts
  <2> HIDE DEF l
  <2>4. TypeOK'
    BY <1>0, <2>1, <2>2, <2>3 DEF TypeOK, Tidy
  <2>5. ASSUME NEW u \in Threads
        PROVE  /\ Tidy(todo'[u], Allowed(u))
               /\ \A m \in Locks : holder'[m] = u <=> m \in OpenFrom(todo'[u], 1)
    <3>0. /\ Tidy(todo[u], Allowed(u)) /\ \A m \in Locks : holder[m] = u <=> m \in OpenFrom(todo[u], 1)
          /\ \A m \in Locks : holder'[m] = IF m = l THEN t ELSE holder[m]
      BY <1>0, <2>1 DEF HoldersInv, TypeOK
    <3>1. CASE u = t
      <4>1. todo'[u] = Tail(s)
        BY <1>0, <2>1, <3>1 DEF TypeOK
      <4> HIDE DEF s
      <4>2. \A m \in Locks : holder[m] = u <=> m \in OpenFrom(s, 1)
        BY <3>0, <3>1 DEF s
      <4> QED  BY <2>2, <2>3, <3>0, <3>1, <4>1, <4>2
    <3>2. CASE u # t
      <4>1. todo'[u] = todo[u] /\ holder[l] # u
        BY <1>0, <2>1, <3>2, ThreadFacts DEF TypeOK
      <4> QED  BY <3>0, <3>2, <4>1
    <3> QED  BY <3>1, <3>2
  <2> QED  BY <2>4, <2>5 DEF LocksInv, HoldersInv
<1>2. ASSUME NEW t \in Threads, Release(t) PROVE LocksInv'
  <2> DEFINE s == todo[t]
             l == Head(s).lock
  <2>1. /\ Tidy(s, Allowed(t)) /\ s # <<>> /\ Head(s).op = "release"
        /\ holder' = [holder EXCEPT ![l] = Free] /\ todo' = [todo EXCEPT ![t] = Tail(s)]
        /\ UNCHANGED <<mainPc, exited, adding, stopEvent, globalTerm, logicTerm>>
    BY <1>0, <1>2 DEF Release, HoldersInv
  <2>2. /\ Head(s) \in Operations /\ Tidy(Tail(s), Allowed(t)) /\ TidyAt(s, 1, Allowed(t))
        /\ Head(s) = s[1] /\ OpenFrom(Tail(s), 1) = OpenFrom(s, 2) /\ 1 \in 1..Len(s)
    BY <2>1, TailIsTidy DEF Tidy
  <2>3. l \in Locks /\ OpenFrom(Tail(s), 1) = OpenFrom(s, 1) \ {l} /\ l \in OpenFrom(s, 1)
    <3>1. OpenFrom(s, 1 + 1) = OpenFrom(s, 1) \ {l}
      BY <2>1, <2>2 DEF TidyAt
    <3>2. l \in Locks /\ s[1] = Rel(l)
      BY <2>1, <2>2, OperationFacts
    <3>3. l \in OpenFrom(s, 1)
      BY <2>2, <3>2 DEF OpenFrom
    <3> QED  BY <2>2, <3>1, <3>2, <3>3
  <2>6. holder[l] = t
    BY <1>0, <2>3 DEF HoldersInv
  <2> HIDE DEF l
  <2>4. TypeOK'
    BY <1>0, <2>1, <2>2, <2>3 DEF TypeOK, Tidy
  <2>5. ASSUME NEW u \in Threads
        PROVE  /\ Tidy(todo'[u], Allowed(u))
               /\ \A m \in Locks : holder'[m] = u <=> m \in OpenFrom(todo'[u], 1)
    <3>0. /\ Tidy(todo[u], Allowed(u)) /\ \A m \in Locks : holder[m] = u <=> m \in OpenFrom(todo[u], 1)
          /\ \A m \in Locks : holder'[m] = IF m = l THEN Free ELSE holder[m]
          /\ u # Free
      BY <1>0, <2>1, ThreadFacts DEF HoldersInv, TypeOK
    <3>1. CASE u = t
      <4>1. todo'[u] = Tail(s)
        BY <1>0, <2>1, <3>1 DEF TypeOK
      <4> HIDE DEF s
      <4>2. \A m \in Locks : holder[m] = u <=> m \in OpenFrom(s, 1)
        BY <3>0, <3>1 DEF s
      <4> QED  BY <2>2, <2>3, <3>0, <3>1, <4>1, <4>2
    <3>2. CASE u # t
      <4>1. todo'[u] = todo[u] /\ holder[l] # u
        BY <1>0, <2>1, <2>6, <3>2 DEF TypeOK
      <4> QED  BY <3>0, <3>2, <4>1
    <3> QED  BY <3>1, <3>2
  <2> QED  BY <2>4, <2>5 DEF LocksInv, HoldersInv
<1>3. ASSUME NEW t \in Threads, Begin(t) PROVE LocksInv'
  <2>1. PICK s \in Stretches(t) : todo' = [todo EXCEPT ![t] = s]
    BY <1>3 DEF Begin
  <2>2. todo[t] = <<>> /\ UNCHANGED <<holder, mainPc, exited, adding, stopEvent, globalTerm, logicTerm>>
    BY <1>3 DEF Begin
  <2>3. Closed(s, Allowed(t))
    BY StretchesAreTidy
  <2>4. TypeOK'
    BY <1>0, <2>1, <2>2, <2>3 DEF TypeOK, Closed, Tidy
  <2>5. \A l \in Locks : holder[l] # t
    BY <1>0, <2>2, ClosedEnds DEF HoldersInv, Closed
  <2>6. ASSUME NEW u \in Threads
        PROVE  /\ Tidy(todo'[u], Allowed(u))
               /\ \A m \in Locks : holder'[m] = u <=> m \in OpenFrom(todo'[u], 1)
    <3>1. CASE u = t
      <4>1. todo'[u] = s
        BY <1>0, <2>1, <3>1 DEF TypeOK
      <4> QED  BY <2>2, <2>3, <2>5, <3>1, <4>1 DEF Closed
    <3>2. CASE u # t
      <4>1. todo'[u] = todo[u]
        BY <1>0, <2>1, <3>2 DEF TypeOK
      <4> QED  BY <1>0, <2>2, <4>1 DEF HoldersInv
    <3> QED  BY <3>1, <3>2
  <2> QED  BY <2>4, <2>6 DEF LocksInv, HoldersInv
<1>4. ASSUME NEW t \in Threads, Return(t) PROVE LocksInv'
  <2>1. /\ exited' = exited \cup {t} /\ t \in Crons \cup {Updater}
        /\ UNCHANGED <<todo, holder, mainPc, adding, stopEvent, globalTerm, logicTerm>>
    BY <1>4 DEF Return
  <2> QED  BY <1>0, <2>1 DEF LocksInv, TypeOK, HoldersInv
<1>5. CASE SignalStop \/ Service \/ UNCHANGED vars
  BY <1>0, <1>5 DEF LocksInv, TypeOK, HoldersInv, vars, SignalStop, Service, InitDone, SeeStop,
                    UpdaterJoined, CronsJoined
<1>6. ASSUME NEW t \in Crons, EnterAddJob(t) \/ LeaveAddJob(t) PROVE LocksInv'
  <2>1. /\ adding' \subseteq adding \cup {t}
        /\ UNCHANGED <<todo, holder, mainPc, exited, stopEvent, globalTerm, logicTerm>>
    BY <1>6 DEF EnterAddJob, LeaveAddJob
  <2> QED  BY <1>0, <2>1 DEF LocksInv, TypeOK, HoldersInv
<1> QED  BY <1>1, <1>2, <1>3, <1>4, <1>5, <1>6 DEF Next

(* Every state of every run is of the declared types.                      *)
THEOREM LocksTypeOK == Spec => []TypeOK
<1>1. LocksInv => TypeOK
  BY DEF LocksInv
<1> QED  BY <1>1, LocksInitInv, LocksInductive, PTL DEF Spec

--------------------------------------------------------------------------------
(* Circular waits.                                                         *)

(* A thread that holds a lock waits only for what it may nest inside it.   *)
LEMMA WaitsAreNestings ==
    ASSUME LocksInv, NEW t \in Threads, Waiting(t), NEW l \in Locks, holder[l] = t
    PROVE  <<l, Wanted(t)>> \in Allowed(t) /\ Wanted(t) \in Locks
<1> DEFINE s == todo[t]
<1>1. Tidy(s, Allowed(t)) /\ l \in OpenFrom(s, 1) /\ s # <<>> /\ Head(s).op = "acquire"
  BY DEF LocksInv, HoldersInv, Waiting
<1>2. Head(s) = s[1] /\ Head(s) \in Operations /\ TidyAt(s, 1, Allowed(t))
  BY <1>1, TailIsTidy DEF Tidy
<1> QED  BY <1>1, <1>2, OperationFacts DEF TidyAt, Wanted

LEMMA CircleIsCrossed ==
    ASSUME LocksInv, NEW S \in SUBSET Threads, CircularWait(S)
    PROVE  /\ Crossed
           /\ {holder["log"], holder["config"]} \subseteq S
           /\ holder["log"] \in Fetchers
<1> DEFINE W == {Wanted(t) : t \in S}
<1>0. /\ S # {} /\ \A t \in S : t \in Threads /\ Waiting(t) /\ holder[Wanted(t)] \in S
      /\ {"strg", "data", "config", "log", "sched"} = Locks
  BY DEF CircularWait, Locks
<1>1. ASSUME NEW t \in S PROVE Wanted(t) \in Locks
  <2>1. Tidy(todo[t], Allowed(t)) /\ todo[t] # <<>>
    BY <1>0 DEF LocksInv, HoldersInv, Waiting
  <2> QED  BY <2>1, TailIsTidy, OperationFacts DEF Wanted
(* Who holds what another one wants, wants something itself, further on.   *)
<1>2. ASSUME NEW l \in W
      PROVE  /\ l \in Locks /\ holder[l] \in S /\ Wanted(holder[l]) \in W
             /\ <<l, Wanted(holder[l])>> \in Allowed(holder[l])
  <2>1. PICK t \in S : l = Wanted(t)
    OBVIOUS
  <2>2. l \in Locks /\ holder[l] \in S
    BY <1>0, <1>1, <2>1
  <2> QED  BY <1>0, <2>2, WaitsAreNestings
<1>3. W # {}
  BY <1>0
<1> HIDE DEF W
<1>4. \A l \in W : <<l, Wanted(holder[l])>> \in Order \/ (l = "log" /\ Wanted(holder[l]) = "config"
                                                         /\ holder[l] \in Fetchers)
  BY <1>2 DEF Allowed, Flush
<1>5. "data" \notin W
  BY <1>4 DEF Order
<1>6. "log" \in W
  <2>1. SUFFICES ASSUME "log" \notin W PROVE FALSE
    OBVIOUS
  <2>2. "config" \notin W
    BY <1>2, <1>4, <1>5, <2>1 DEF Order
  <2>3. PICK l \in W : Wanted(holder[l]) \in W \cap {"config", "log", "data"}
    <3>1. PICK l \in W : TRUE
      BY <1>3
    <3>2. Wanted(holder[l]) \in {"config", "log", "data"}
      BY <1>4, <3>1 DEF Order
    <3> QED  BY <1>2, <3>2
  <2> QED  BY <1>5, <2>1, <2>2, <2>3
<1>7. holder["log"] \in S /\ Wanted(holder["log"]) = "config" /\ holder["log"] \in Fetchers
  BY <1>2, <1>4, <1>6 DEF Order
<1>8. "config" \in W
  BY <1>2, <1>6, <1>7
<1>9. holder["config"] \in S /\ Wanted(holder["config"]) = "log"
  BY <1>2, <1>4, <1>5, <1>8 DEF Order
<1> QED  BY <1>0, <1>7, <1>9, ThreadFacts DEF Crossed

(* Whatever the number of threads and wherever they are, a circle of       *)
(* threads that wait for one another has in it a worker that writes to the *)
(* log while it reads the configuration, and a thread that does the        *)
(* reverse: there is no other deadlock among these locks.                  *)
THEOREM OnlyLogAndConfigAlways == Spec => []OnlyLogAndConfig
<1>1. LocksInv => OnlyLogAndConfig
  BY CircleIsCrossed DEF OnlyLogAndConfig
<1> QED  BY <1>1, LocksInitInv, LocksInductive, PTL DEF Spec

--------------------------------------------------------------------------------
(* The configuration and the log.                                         *)

(* What an accepted text looks like, and the text of the file was offered. *)
Sound(o) == o.enabled => o.name # Bad

Sources ==
    /\ Default \in offered /\ cfg \in offered
    /\ Valid(cfgFile) => cfgFile \in offered
    /\ Sound(cfg) /\ Sound(applied)

(* Where setup_log is, the log is as far as the options applied say.       *)
Progress ==
    /\ updaterPc = "destroyed" => applied.enabled
    /\ updaterPc = "opened" => applied.enabled /\ openName = applied.name
    /\ updaterPc = "null" => ~applied.enabled

LcInv == LcTypeOK /\ Sources /\ Progress /\ LogAsApplied

--------------------------------------------------------------------------------
LEMMA DefaultIsValid == Default \in Options /\ Sound(Default)
  BY LogConfigConstants DEF Default, Options, Sound

LEMMA ValidText == ASSUME NEW text \in Texts \cup {Absent, Garbage}, Valid(text)
                   PROVE  text \in Options /\ Sound(text)
<1>1. text \in Texts /\ text.schedule # Bad /\ (text.enabled => text.name # Bad)
  BY DEF Valid
<1> QED  BY <1>1 DEF Texts, Options, Sound

LEMMA OptionsApplied == ASSUME NEW o \in Options
                        PROVE  /\ LogOptions(o) \in [enabled : BOOLEAN, name : LogNames \cup {Bad}]
                               /\ Sound(o) => Sound(LogOptions(o))
  BY DEF Options, LogOptions, Sound

LEMMA LcInitInv == LcInit => LcInv
  BY DefaultIsValid, OptionsApplied, LogConfigConstants
     DEF LcInit, LcInv, LcTypeOK, Sources, Progress, LogAsApplied, Valid, NullStream

--------------------------------------------------------------------------------
LEMMA EditInv == LcInv /\ Edit => LcInv'
<1> SUFFICES ASSUME LcInv, Edit PROVE LcInv'
  OBVIOUS
<1>1. PICK text \in Texts \cup {Garbage, Absent} :
         /\ cfgFile' = text
         /\ offered' = IF Valid(text) THEN offered \cup {text} ELSE offered
  BY DEF Edit
<1>2. Valid(text) => text \in Options
  BY ValidText
<1>3. edits' \in 0..MaxEdits
  BY LogConfigConstants DEF LcInv, LcTypeOK, Edit
<1>4. LcTypeOK'
  BY <1>1, <1>2, <1>3 DEF LcInv, LcTypeOK, Edit, logVars
<1>5. Sources'
  BY <1>1 DEF LcInv, Sources, Edit, Valid, Sound, Default
<1> QED  BY <1>4, <1>5 DEF LcInv, Progress, LogAsApplied, Edit, logVars

LEMMA LoadInv == LcInv /\ Load => LcInv'
<1> SUFFICES ASSUME LcInv, Load PROVE LcInv'
  OBVIOUS
<1> USE DEF LcInv, Load, LoadFile, StoreDefaults
<1>0. CASE cfgFile = Absent /\ updaterPc' = "failed"
  <2>1. UNCHANGED <<cfgFile, cfg, applied>>
    BY <1>0
  <2>2. LcTypeOK' /\ Sources'
    BY <1>0, <2>1 DEF LcTypeOK, Sources, Valid, Sound, logVars, Default
  <2> QED  BY <1>0, <2>1, <2>2 DEF Progress, LogAsApplied
<1>1. CASE cfgFile = Absent /\ updaterPc' = "setup"
  <2>1. cfgFile' \in {Default, Garbage} /\ cfg' = cfg /\ applied' = LogOptions(cfg)
    BY <1>1
  <2>2. Default \in Texts /\ Default \in Options /\ Sound(Default)
    BY DefaultIsValid DEF Options, Texts
  <2>3. LogOptions(cfg) \in [enabled : BOOLEAN, name : LogNames \cup {Bad}] /\ Sound(LogOptions(cfg))
    BY OptionsApplied DEF LcTypeOK, Sources
  <2>4. LcTypeOK'
    BY <2>1, <2>2, <2>3 DEF LcTypeOK, logVars
  <2>5. Sources'
    BY <2>1, <2>2, <2>3 DEF Sources, Default, Valid
  <2> QED  BY <1>1, <2>1, <2>4, <2>5 DEF Progress, LogAsApplied
<1>2. CASE cfgFile # Absent /\ Valid(cfgFile)
  <2>1. cfgFile' = cfgFile /\ cfg' = cfgFile /\ updaterPc' = "setup" /\ applied' = LogOptions(cfgFile)
    BY <1>2
  <2>2. cfgFile \in Options /\ Sound(cfgFile)
    BY <1>2, ValidText DEF LcTypeOK
  <2>3. LogOptions(cfgFile) \in [enabled : BOOLEAN, name : LogNames \cup {Bad}]
        /\ Sound(LogOptions(cfgFile))
    BY <2>2, OptionsApplied
  <2>4. LcTypeOK'
    BY <2>1, <2>2, <2>3 DEF LcTypeOK, logVars
  <2>5. Sources'
    BY <1>2, <2>1, <2>2, <2>3 DEF Sources, Default
  <2> QED  BY <2>1, <2>4, <2>5 DEF Progress, LogAsApplied
<1>3. CASE cfgFile # Absent /\ ~Valid(cfgFile)
  <2>1. UNCHANGED <<cfgFile, cfg, applied>> /\ updaterPc' = "failed"
    BY <1>3
  <2>2. LcTypeOK' /\ Sources'
    BY <2>1 DEF LcTypeOK, Sources, Valid, Sound, logVars, Default
  <2> QED  BY <2>1, <2>2 DEF Progress, LogAsApplied
<1> QED  BY <1>0, <1>1, <1>2, <1>3

LEMMA ReloadInv == LcInv /\ Reload => LcInv'
<1> SUFFICES ASSUME LcInv, Reload PROVE LcInv'
  OBVIOUS
<1> USE DEF LcInv, Reload
<1>1. Valid(cfgFile) => cfgFile \in Options /\ Sound(cfgFile)
  BY ValidText DEF LcTypeOK
<1>2. LcTypeOK'
  BY <1>1 DEF LcTypeOK, logVars
<1>3. Sources'
  BY <1>1 DEF Sources, Valid, Sound, Default
<1> QED  BY <1>2, <1>3 DEF Progress, LogAsApplied, logVars

LEMMA CompareInv == LcInv /\ Compare => LcInv'
<1> SUFFICES ASSUME LcInv, Compare PROVE LcInv'
  OBVIOUS
<1> USE DEF LcInv, Compare
<1>1. LogOptions(cfg) \in [enabled : BOOLEAN, name : LogNames \cup {Bad}] /\ Sound(LogOptions(cfg))
  BY OptionsApplied DEF LcTypeOK, Sources
<1>2. LcTypeOK'
  BY <1>1 DEF LcTypeOK, logVars
<1>3. Sources'
  BY <1>1 DEF Sources, Valid, Sound, Default
<1>4. CASE LogOptions(cfg) = applied
  BY <1>2, <1>3, <1>4 DEF Progress, LogAsApplied, logVars
<1>5. CASE LogOptions(cfg) # applied
  BY <1>2, <1>3, <1>5 DEF Progress, LogAsApplied, logVars
<1> QED  BY <1>4, <1>5

LEMMA SetupInv == LcInv /\ (ReplaceStream \/ OpenLog \/ SetLog) => LcInv'
<1> SUFFICES ASSUME LcInv, ReplaceStream \/ OpenLog \/ SetLog PROVE LcInv'
  OBVIOUS
<1>1. Sources'
  BY DEF LcInv, Sources, Valid, Sound, Default, ReplaceStream, OpenLog, SetLog
<1>2. CASE ReplaceStream
  <2>1. LcTypeOK'
    BY <1>2 DEF LcInv, LcTypeOK, ReplaceStream
  <2> QED  BY <1>1, <1>2, <2>1 DEF LcInv, Progress, LogAsApplied, ReplaceStream
<1>3. CASE OpenLog
  <2>1. applied.name \in LogNames
    BY <1>3 DEF LcInv, LcTypeOK, Sources, Sound, Progress, OpenLog
  <2>2. LcTypeOK'
    BY <1>3, <2>1 DEF LcInv, LcTypeOK, OpenLog
  <2> QED  BY <1>1, <1>3, <2>2 DEF LcInv, Progress, LogAsApplied, OpenLog
<1>4. CASE SetLog
  <2>1. LcTypeOK'
    BY <1>4 DEF LcInv, LcTypeOK, SetLog, NullStream
  <2> QED  BY <1>1, <1>4, <2>1 DEF LcInv, Progress, LogAsApplied, SetLog
<1> QED  BY <1>2, <1>3, <1>4

LEMMA LineInv == ASSUME LcInv, NEW t \in Loggers, BeginLine(t) \/ EndLine(t)
                 PROVE  LcInv'
<1>1. LcTypeOK'
  BY DEF LcInv, LcTypeOK, BeginLine, EndLine, logVars
<1>2. Sources'
  BY DEF LcInv, Sources, Valid, Sound, Default, BeginLine, EndLine
<1> QED  BY <1>1, <1>2 DEF LcInv, Progress, LogAsApplied, BeginLine, EndLine, logVars

(* The invariant is inductive.                                             *)
THEOREM LcInductive == LcSpec => []LcInv
<1>1. LcInv /\ [LcNext]_lcVars => LcInv'
  <2> SUFFICES ASSUME LcInv, [LcNext]_lcVars PROVE LcInv'
    OBVIOUS
  <2>1. CASE UNCHANGED lcVars
    <3>1. LcTypeOK'
      BY <2>1 DEF LcInv, LcTypeOK, lcVars, logVars
    <3>2. Sources'
      BY <2>1 DEF LcInv, Sources, Valid, Sound, Default, lcVars
    <3> QED  BY <2>1, <3>1, <3>2 DEF LcInv, Progress, LogAsApplied, lcVars, logVars
  <2>2. CASE LcNext
    BY <2>2, EditInv, LoadInv, ReloadInv, CompareInv, SetupInv, LineInv DEF LcNext, UpdaterStep
  <2> QED  BY <2>1, <2>2
<1> QED  BY <1>1, LcInitInv, PTL DEF LcSpec

(* configuration::reload never mixes two edits of the file.                *)
THEOREM OptionsFromOneEditAlways == LcSpec => []OptionsFromOneEdit
<1>1. LcInv => OptionsFromOneEdit
  BY DEF LcInv, Sources, OptionsFromOneEdit
<1> QED  BY <1>1, LcInductive, PTL

(* Between two updates the log is what the options applied last ask for.   *)
THEOREM LogAsAppliedAlways == LcSpec => []LogAsApplied
<1>1. LcInv => LogAsApplied
  BY DEF LcInv
<1> QED  BY <1>1, LcInductive, PTL
================================================================================
