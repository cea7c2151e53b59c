--------------------------- MODULE RatesStorageProofs --------------------------
(***************************************************************************)
(* The database of rates for all dates of four digits, all currencies and  *)
(* any order of responses, saves and loads: what its lookups find.  Then   *)
(* the JSON document it is kept in: what a removal from an array leaves.   *)
(***************************************************************************)
EXTENDS RatesStorage, JsonObject, SequenceTheorems, WellFoundedInduction, TLAPS

--------------------------------------------------------------------------------
(* Numbers as texts.                                                       *)

LEMMA DigitValues ==
    /\ DOMAIN DecimalDigits = 1..10
    /\ \A v \in 0..9 : DigitValue(DecimalDigits[v + 1]) = v /\ DecimalDigits[v + 1] \in Range(DecimalDigits)
    /\ DecimalDigits[1] = "0"
<1>1. DOMAIN DecimalDigits = 1..10 /\ DecimalDigits[1] = "0"
  BY DEF DecimalDigits
<1>2. \A i, j \in 1..10 : DecimalDigits[i] = DecimalDigits[j] => i = j
  BY DEF DecimalDigits
<1>3. ASSUME NEW v \in 0..9 PROVE DigitValue(DecimalDigits[v + 1]) = v
  <2>1. v + 1 \in 1..10
    OBVIOUS
  <2>2. \A i \in DOMAIN DecimalDigits : DecimalDigits[i] = DecimalDigits[v + 1] => i = v + 1
    BY <1>1, <1>2, <2>1
  <2>3. (CHOOSE i \in DOMAIN DecimalDigits : DecimalDigits[i] = DecimalDigits[v + 1]) = v + 1
    BY <1>1, <2>1, <2>2
  <2>4. DigitValue(DecimalDigits[v + 1]) =
          (CHOOSE i \in DOMAIN DecimalDigits : DecimalDigits[i] = DecimalDigits[v + 1]) - 1
    BY Zenon DEF DigitValue
  <2>5. DigitValue(DecimalDigits[v + 1]) = (v + 1) - 1
    BY ONLY <2>3, <2>4, Zenon
  <2> QED  BY ONLY <2>5, v \in 0..9
<1>4. \A v \in 0..9 : DecimalDigits[v + 1] \in Range(DecimalDigits)
  <2>1. \A v \in 0..9 : v + 1 \in 1..10
    OBVIOUS
  <2> QED  BY <1>1, <2>1 DEF Range
<1> QED  BY <1>1, <1>3, <1>4

LEMMA TensAre ==
    /\ DOMAIN Tens = 1..10 /\ \A k \in 1..10 : Tens[k] \in Nat
    /\ Tens[1] = 1 /\ Tens[2] = 10 /\ Tens[3] = 100 /\ Tens[4] = 1000 /\ Tens[5] = 10000
    /\ \A j, k \in 1..10 : j < k => Tens[j] < Tens[k]
  BY DEF Tens

LEMMA MaxOf ==
    ASSUME NEW S \in SUBSET Nat, NEW n \in S, \A k \in S : k <= n
    PROVE  Max(S) = n
<1>1. Max(S) \in S /\ \A k \in S : Max(S) >= k
  BY DEF Max
<1>2. Max(S) \in Nat /\ n \in Nat /\ Max(S) <= n /\ n <= Max(S)
  BY <1>1
<1> QED  BY <1>2

(* A number of w digits.                                                   *)
LEMMA Width ==
    ASSUME NEW n \in Nat, NEW w \in 1..4, w = 1 \/ Tens[w] <= n, n < Tens[w + 1]
    PROVE  DigitsOf(n) = [i \in 1..w |-> DecimalDigits[((n \div Tens[w - i + 1]) % 10) + 1]]
<1> DEFINE S == {1} \cup {k \in DOMAIN Tens : Tens[k] <= n}
<1>1. S \in SUBSET Nat /\ w \in S
  BY TensAre
<1>2. ASSUME NEW k \in S PROVE k <= w
  <2>1. k \in 1..10 /\ w + 1 \in 1..10 /\ (k = 1 \/ Tens[k] <= n)
    BY TensAre
  <2>2. k # 1 => ~(w + 1 <= k)
    BY <2>1, TensAre
  <2> QED  BY <2>1, <2>2
<1> HIDE DEF S
<1>3. Max(S) = w
  BY <1>1, <1>2, MaxOf
<1> QED  BY <1>3, Zenon DEF DigitsOf, S

Digits == Range(DecimalDigits)

(* Zeros in front.                                                         *)
LEMMA Padding ==
    ASSUME NEW n \in Nat, NEW width \in Nat, NEW w \in 1..width,
           DigitsOf(n) \in Seq(Digits), Len(DigitsOf(n)) = w
    PROVE  /\ Padded(n, width) \in Seq(Digits) /\ Len(Padded(n, width)) = width
           /\ \A i \in 1..width : Padded(n, width)[i] =
                IF i <= width - w THEN DecimalDigits[1] ELSE DigitsOf(n)[i - (width - w)]
<1> DEFINE t == DigitsOf(n)
           z == [i \in 1..(width - w) |-> "0"]
<1>1. ~(n < 0)
  OBVIOUS
<1>2. Padded(n, width) = z \o t
  <2>1. Padded(n, width) = [i \in 1..(width - Len(t)) |-> "0"] \o t
    BY <1>1, Zenon DEF Padded
  <2> QED  BY ONLY <2>1, Len(DigitsOf(n)) = w, Zenon
<1> HIDE DEF t
<1>3. "0" \in Digits /\ DecimalDigits[1] = "0"
  <2>1. 0 \in 0..9 /\ 0 + 1 = 1
    OBVIOUS
  <2> QED  BY <2>1, DigitValues DEF Digits
<1>4. width - w \in Nat
  OBVIOUS
<1>5. z \in Seq(Digits) /\ Len(z) = width - w /\ \A i \in 1..(width - w) : z[i] = "0"
  BY <1>3, <1>4
<1> HIDE DEF z
<1>6. t \in Seq(Digits) /\ Len(t) = w
  BY DEF t
<1>7. /\ z \o t \in Seq(Digits) /\ Len(z \o t) = Len(z) + Len(t)
      /\ \A i \in 1..(Len(z) + Len(t)) : (z \o t)[i] = IF i <= Len(z) THEN z[i] ELSE t[i - Len(z)]
  BY ONLY <1>5, <1>6, ConcatProperties
<1>8. Len(z) + Len(t) = width
  BY <1>5, <1>6
<1>9. \A i \in 1..width : (z \o t)[i] = IF i <= width - w THEN DecimalDigits[1] ELSE t[i - (width - w)]
  BY <1>3, <1>4, <1>5, <1>7, <1>8
<1> QED  BY <1>2, <1>7, <1>8, <1>9 DEF t

LEMMA TwoDigits ==
    ASSUME NEW n \in 0..99
    PROVE  /\ Padded(n, 2) \in Seq(Digits) /\ Len(Padded(n, 2)) = 2
           /\ Padded(n, 2)[1] = DecimalDigits[(n \div 10) + 1]
           /\ Padded(n, 2)[2] = DecimalDigits[(n % 10) + 1]
           /\ n < 10 => DigitsOf(n) \in Seq(Digits) /\ Len(DigitsOf(n)) = 1
           /\ n >= 10 => DigitsOf(n) = Padded(n, 2)
<1>1. n \in Nat /\ n \div 10 \in 0..9 /\ n % 10 \in 0..9 /\ (n < 10 => n \div 10 = 0 /\ n % 10 = n)
      /\ (n \div 1) % 10 = n % 10 /\ (n \div 10) % 10 = n \div 10
  OBVIOUS
<1>2. \A v \in 0..9 : DecimalDigits[v + 1] \in Digits
  BY DigitValues DEF Digits
<1>3. CASE n < 10
  <2>1. DigitsOf(n) = [i \in 1..1 |-> DecimalDigits[((n \div Tens[1 - i + 1]) % 10) + 1]]
    <3>1. n < Tens[1 + 1] /\ 1 \in 1..4
      BY <1>3, TensAre
    <3> QED  BY ONLY <1>1, <3>1, Width
  <2>2. ((n \div Tens[1 - 1 + 1]) % 10) + 1 = (n % 10) + 1
    BY <1>1, TensAre
  <2>3. /\ DigitsOf(n) \in Seq(Digits) /\ Len(DigitsOf(n)) = 1
        /\ DigitsOf(n)[1] = DecimalDigits[(n % 10) + 1]
    BY <1>1, <1>2, <2>1, <2>2
  <2>4. /\ Padded(n, 2) \in Seq(Digits) /\ Len(Padded(n, 2)) = 2
        /\ \A i \in 1..2 : Padded(n, 2)[i] =
             IF i <= 2 - 1 THEN DecimalDigits[1] ELSE DigitsOf(n)[i - (2 - 1)]
    <3>1. 2 \in Nat /\ 1 \in 1..2
      OBVIOUS
    <3> QED  BY ONLY <1>1, <2>3, <3>1, Padding
  <2>5. Padded(n, 2)[1] = DecimalDigits[1] /\ Padded(n, 2)[2] = DigitsOf(n)[1]
    BY ONLY <2>4
  <2> QED  BY ONLY <1>1, <1>3, <2>3, <2>4, <2>5
<1>4. CASE n >= 10
  <2>1. DigitsOf(n) = [i \in 1..2 |-> DecimalDigits[((n \div Tens[2 - i + 1]) % 10) + 1]]
    <3>1. n < Tens[2 + 1] /\ 2 \in 1..4 /\ Tens[2] <= n
      BY <1>4, TensAre
    <3> QED  BY ONLY <1>1, <3>1, Width
  <2>2. /\ ((n \div Tens[2 - 1 + 1]) % 10) + 1 = (n \div 10) + 1
        /\ ((n \div Tens[2 - 2 + 1]) % 10) + 1 = (n % 10) + 1
    BY <1>1, TensAre
  <2>3. /\ DigitsOf(n) \in Seq(Digits) /\ Len(DigitsOf(n)) = 2
        /\ DigitsOf(n)[1] = DecimalDigits[(n \div 10) + 1]
        /\ DigitsOf(n)[2] = DecimalDigits[(n % 10) + 1]
    BY <1>1, <1>2, <2>1, <2>2
  <2>4. /\ Padded(n, 2) \in Seq(Digits) /\ Len(Padded(n, 2)) = 2
        /\ \A i \in 1..2 : Padded(n, 2)[i] =
             IF i <= 2 - 2 THEN DecimalDigits[1] ELSE DigitsOf(n)[i - (2 - 2)]
    <3>1. 2 \in Nat /\ 2 \in 1..2
      OBVIOUS
    <3> QED  BY ONLY <1>1, <2>3, <3>1, Padding
  <2>5. \A i \in 1..2 : Padded(n, 2)[i] = DigitsOf(n)[i]
    BY ONLY <2>4
  <2>6. DigitsOf(n) = Padded(n, 2)
    <3> DEFINE t == DigitsOf(n)
               q == Padded(n, 2)
    <3>1. t \in Seq(Digits) /\ q \in Seq(Digits) /\ Len(t) = Len(q) /\ \A i \in 1..Len(t) : t[i] = q[i]
      BY ONLY <2>3, <2>4, <2>5
    <3> HIDE DEF t, q
    <3>2. t = q
      BY ONLY <3>1, SeqEqual
    <3> QED  BY <3>2 DEF t, q
  <2> QED  BY ONLY <1>1, <1>4, <2>3, <2>6
<1> QED  BY <1>1, <1>3, <1>4

(* The decimal places of a number.                                         *)
Thousands(n) == (n \div 1000) % 10
Hundreds(n) == (n \div 100) % 10
Decades(n) == (n \div 10) % 10
Units(n) == n % 10

Shown(v) == DecimalDigits[v + 1]
Small == 1..31
Months == 1..12
Years == 1970..9999

LEMMA TwoPlaces ==
    ASSUME NEW n \in Small
    PROVE  /\ Padded(n, 2) \in Seq(Digits) /\ Len(Padded(n, 2)) = 2
           /\ Padded(n, 2)[1] = Shown(Decades(n)) /\ Padded(n, 2)[2] = Shown(Units(n))
<1>1. n \in 0..99 /\ n \div 10 = (n \div 10) % 10
  BY DEF Small
<1> QED  BY <1>1, TwoDigits DEF Decades, Units, Shown

LEMMA FourPlaces ==
    ASSUME NEW n \in Years
    PROVE  /\ Padded(n, 4) \in Seq(Digits) /\ Len(Padded(n, 4)) = 4
           /\ Padded(n, 4)[1] = Shown(Thousands(n)) /\ Padded(n, 4)[2] = Shown(Hundreds(n))
           /\ Padded(n, 4)[3] = Shown(Decades(n)) /\ Padded(n, 4)[4] = Shown(Units(n))
<1>0. n \in 1000..9999
  BY DEF Years
<1>1. /\ n \in Nat /\ n \div 1000 \in 0..9 /\ (n \div 100) % 10 \in 0..9 /\ (n \div 10) % 10 \in 0..9
      /\ n % 10 \in 0..9 /\ (n \div 1000) % 10 = n \div 1000 /\ (n \div 1) % 10 = n % 10
  BY ONLY <1>0
<1>2. \A v \in 0..9 : DecimalDigits[v + 1] \in Digits
  BY DigitValues DEF Digits
<1>3. DigitsOf(n) = [i \in 1..4 |-> DecimalDigits[((n \div Tens[4 - i + 1]) % 10) + 1]]
  <2>1. n < Tens[4 + 1] /\ 4 \in 1..4 /\ Tens[4] <= n
    BY ONLY <1>0, TensAre
  <2> QED  BY ONLY <1>1, <2>1, Width
<1>4. /\ ((n \div Tens[4 - 1 + 1]) % 10) + 1 = (n \div 1000) + 1
      /\ ((n \div Tens[4 - 2 + 1]) % 10) + 1 = ((n \div 100) % 10) + 1
      /\ ((n \div Tens[4 - 3 + 1]) % 10) + 1 = ((n \div 10) % 10) + 1
      /\ ((n \div Tens[4 - 4 + 1]) % 10) + 1 = (n % 10) + 1
  <2>1. 4 - 1 + 1 = 4 /\ 4 - 2 + 1 = 3 /\ 4 - 3 + 1 = 2 /\ 4 - 4 + 1 = 1
    OBVIOUS
  <2>2. /\ Tens[4 - 1 + 1] = 1000 /\ Tens[4 - 2 + 1] = 100
        /\ Tens[4 - 3 + 1] = 10 /\ Tens[4 - 4 + 1] = 1
    BY ONLY <2>1, TensAre
  <2>3. ((n \div Tens[4 - 1 + 1]) % 10) + 1 = (n \div 1000) + 1
    BY ONLY <1>1, <2>2
  <2>4. ((n \div Tens[4 - 2 + 1]) % 10) + 1 = ((n \div 100) % 10) + 1
    BY ONLY <2>2
  <2>5. ((n \div Tens[4 - 3 + 1]) % 10) + 1 = ((n \div 10) % 10) + 1
    BY ONLY <2>2
  <2>6. ((n \div Tens[4 - 4 + 1]) % 10) + 1 = (n % 10) + 1
    BY ONLY <1>1, <2>2
  <2> QED  BY ONLY <2>3, <2>4, <2>5, <2>6
<1>5. /\ DigitsOf(n) \in Seq(Digits) /\ Len(DigitsOf(n)) = 4
      /\ DigitsOf(n)[1] = DecimalDigits[(n \div 1000) + 1]
      /\ DigitsOf(n)[2] = DecimalDigits[((n \div 100) % 10) + 1]
      /\ DigitsOf(n)[3] = DecimalDigits[((n \div 10) % 10) + 1]
      /\ DigitsOf(n)[4] = DecimalDigits[(n % 10) + 1]
  <2> DEFINE D(i) == DecimalDigits[((n \div Tens[4 - i + 1]) % 10) + 1]
  <2>1. D(1) \in Digits /\ D(2) \in Digits /\ D(3) \in Digits /\ D(4) \in Digits
    BY <1>1, <1>2, <1>4
  <2>2. /\ D(1) = DecimalDigits[(n \div 1000) + 1] /\ D(2) = DecimalDigits[((n \div 100) % 10) + 1]
        /\ D(3) = DecimalDigits[((n \div 10) % 10) + 1] /\ D(4) = DecimalDigits[(n % 10) + 1]
    BY ONLY <1>4
  <2>3. DigitsOf(n) = [i \in 1..4 |-> D(i)]
    BY <1>3
  <2> HIDE DEF D
  <2>4. \A i \in 1..4 : D(i) \in Digits
    BY ONLY <2>1
  <2> QED  BY ONLY <2>2, <2>3, <2>4
<1>6. Padded(n, 4) = DigitsOf(n)
  <2> DEFINE t == DigitsOf(n)
             q == Padded(n, 4)
  <2>1. /\ Padded(n, 4) \in Seq(Digits) /\ Len(Padded(n, 4)) = 4
        /\ \A i \in 1..4 : Padded(n, 4)[i] =
             IF i <= 4 - 4 THEN DecimalDigits[1] ELSE DigitsOf(n)[i - (4 - 4)]
    <3>1. 4 \in Nat /\ 4 \in 1..4
      OBVIOUS
    <3>2. n \in Nat
      BY ONLY <1>1
    <3>3. DigitsOf(n) \in Seq(Digits) /\ Len(DigitsOf(n)) = 4
      BY ONLY <1>5
    <3> QED  BY ONLY <3>1, <3>2, <3>3, Padding
  <2>2. /\ t \in Seq(Digits) /\ Len(t) = 4 /\ q \in Seq(Digits) /\ Len(q) = 4
        /\ \A i \in 1..4 : q[i] = t[i]
    BY ONLY <1>5, <2>1
  <2> HIDE DEF t, q
  <2>3. Len(t) = Len(q) /\ \A i \in 1..Len(t) : t[i] = q[i]
    BY ONLY <2>2
  <2>4. t = q
    BY ONLY <2>2, <2>3, SeqEqual
  <2> QED  BY <2>4 DEF t, q
<1>7. n \div 1000 = (n \div 1000) % 10
  BY ONLY <1>1
<1> QED  BY ONLY <1>5, <1>6, <1>7 DEF Thousands, Hundreds, Decades, Units, Shown

--------------------------------------------------------------------------------
(* The keys of days.                                                       *)

LEMMA KeyParts ==
    ASSUME NEW x \in Dates
    PROVE  x.y \in Years /\ x.m \in Months /\ x.m \in Small /\ x.d \in Small
<1>1. x.y \in Years
  BY SMTT(30) DEF Dates, Years
<1>2. x.m \in Months
  BY SMTT(30) DEF Dates, Months
<1>3. x.m \in Small
  BY SMTT(30) DEF Dates, Small
<1>4. x.d \in Small
  BY SMTT(30) DEF Dates, Small
<1> QED  BY ONLY <1>1, <1>2, <1>3, <1>4, Zenon

(* The number that is written at a place of a key.                         *)
DigitAt(x, i) ==
    CASE i = 1 -> Thousands(x.y)
      [] i = 2 -> Hundreds(x.y)
      [] i = 3 -> Decades(x.y)
      [] i = 4 -> Units(x.y)
      [] i = 5 -> Decades(x.m)
      [] i = 6 -> Units(x.m)
      [] i = 7 -> Decades(x.d)
      [] i = 8 -> Units(x.d)

LEMMA YearIsNumber == ASSUME NEW n \in Years PROVE n \in Nat
  BY DEF Years

LEMMA SmallIsNumber == ASSUME NEW n \in Small PROVE n \in Nat
  BY DEF Small

LEMMA Places ==
    ASSUME NEW n \in Nat
    PROVE  Thousands(n) \in 0..9 /\ Hundreds(n) \in 0..9 /\ Decades(n) \in 0..9 /\ Units(n) \in 0..9
<1>1. Thousands(n) \in 0..9
  BY DEF Thousands
<1>2. Hundreds(n) \in 0..9
  BY DEF Hundreds
<1>3. Decades(n) \in 0..9
  BY DEF Decades
<1>4. Units(n) \in 0..9
  BY DEF Units
<1> QED  BY ONLY <1>1, <1>2, <1>3, <1>4, Zenon

LEMMA YearIs ==
    ASSUME NEW n \in Nat, n \in Years
    PROVE  n = 1000 * Thousands(n) + 100 * Hundreds(n) + 10 * Decades(n) + Units(n)
  BY SMTT(30) DEF Thousands, Hundreds, Decades, Units, Years

LEMMA SmallIs == ASSUME NEW n \in Nat, n \in Small PROVE n = 10 * Decades(n) + Units(n)
  BY DEF Decades, Units, Small

LEMMA DigitsAt ==
    ASSUME NEW x \in Dates
    PROVE  /\ DigitAt(x, 1) = Thousands(x.y) /\ DigitAt(x, 2) = Hundreds(x.y)
           /\ DigitAt(x, 3) = Decades(x.y) /\ DigitAt(x, 4) = Units(x.y)
           /\ DigitAt(x, 5) = Decades(x.m) /\ DigitAt(x, 6) = Units(x.m)
           /\ DigitAt(x, 7) = Decades(x.d) /\ DigitAt(x, 8) = Units(x.d)
           /\ \A i \in 1..8 : DigitAt(x, i) \in 0..9
<1>1. /\ DigitAt(x, 1) = Thousands(x.y) /\ DigitAt(x, 2) = Hundreds(x.y)
      /\ DigitAt(x, 3) = Decades(x.y) /\ DigitAt(x, 4) = Units(x.y)
      /\ DigitAt(x, 5) = Decades(x.m) /\ DigitAt(x, 6) = Units(x.m)
      /\ DigitAt(x, 7) = Decades(x.d) /\ DigitAt(x, 8) = Units(x.d)
  BY DEF DigitAt
<1>2. x.y \in Nat /\ x.m \in Nat /\ x.d \in Nat
  <2>1. x.y \in Years /\ x.m \in Small /\ x.d \in Small
    BY KeyParts
  <2> QED  BY ONLY <2>1, YearIsNumber, SmallIsNumber, Zenon
<1>3. /\ Thousands(x.y) \in 0..9 /\ Hundreds(x.y) \in 0..9 /\ Decades(x.y) \in 0..9
      /\ Units(x.y) \in 0..9 /\ Decades(x.m) \in 0..9 /\ Units(x.m) \in 0..9
      /\ Decades(x.d) \in 0..9 /\ Units(x.d) \in 0..9
  BY <1>2, Places, Zenon
<1>4. \A i \in 1..8 : DigitAt(x, i) \in 0..9
  BY ONLY <1>1, <1>3
<1> QED  BY <1>1, <1>4

(* Three texts behind each other.                                          *)
LEMMA ThreeParts ==
    ASSUME NEW S, NEW a \in Seq(S), NEW b \in Seq(S), NEW c \in Seq(S), Len(a) = 4, Len(b) = 2
    PROVE  /\ a \o b \o c \in Seq(S) /\ Len(a \o b \o c) = 6 + Len(c)
           /\ (a \o b \o c)[1] = a[1] /\ (a \o b \o c)[2] = a[2]
           /\ (a \o b \o c)[3] = a[3] /\ (a \o b \o c)[4] = a[4]
           /\ (a \o b \o c)[5] = b[1] /\ (a \o b \o c)[6] = b[2]
           /\ Len(c) = 2 => (a \o b \o c)[7] = c[1] /\ (a \o b \o c)[8] = c[2]
<1> DEFINE ab == a \o b
<1>1. /\ ab \in Seq(S) /\ Len(ab) = 6
      /\ \A i \in 1..6 : ab[i] = IF i <= 4 THEN a[i] ELSE b[i - 4]
  <2>1. /\ a \o b \in Seq(S) /\ Len(a \o b) = Len(a) + Len(b)
        /\ \A i \in 1..(Len(a) + Len(b)) : (a \o b)[i] = IF i <= Len(a) THEN a[i] ELSE b[i - Len(a)]
    BY ConcatProperties
  <2> QED  BY ONLY <2>1, Len(a) = 4, Len(b) = 2
<1>2. ab[1] = a[1] /\ ab[2] = a[2] /\ ab[3] = a[3] /\ ab[4] = a[4] /\ ab[5] = b[1] /\ ab[6] = b[2]
  <2> HIDE DEF ab
  <2> QED  BY ONLY <1>1
<1> HIDE DEF ab
<1>3. Len(c) \in Nat
  BY LenProperties
<1>4. /\ ab \o c \in Seq(S) /\ Len(ab \o c) = 6 + Len(c)
      /\ \A i \in 1..(6 + Len(c)) : (ab \o c)[i] = IF i <= 6 THEN ab[i] ELSE c[i - 6]
  <2>1. /\ ab \o c \in Seq(S) /\ Len(ab \o c) = Len(ab) + Len(c)
        /\ \A i \in 1..(Len(ab) + Len(c)) : (ab \o c)[i] = IF i <= Len(ab) THEN ab[i] ELSE c[i - Len(ab)]
    BY <1>1, ConcatProperties
  <2> QED  BY ONLY <1>1, <2>1
<1>5. /\ (ab \o c)[1] = ab[1] /\ (ab \o c)[2] = ab[2] /\ (ab \o c)[3] = ab[3]
      /\ (ab \o c)[4] = ab[4] /\ (ab \o c)[5] = ab[5] /\ (ab \o c)[6] = ab[6]
  BY ONLY <1>3, <1>4
<1>6. Len(c) = 2 => (ab \o c)[7] = c[1] /\ (ab \o c)[8] = c[2]
  BY ONLY <1>4
<1> QED  BY ONLY <1>2, <1>4, <1>5, <1>6 DEF ab

LEMMA KeyIs ==
    ASSUME NEW x \in Dates
    PROVE  /\ DbDate(x) \in Seq(Digits) /\ Len(DbDate(x)) = 8
           /\ \A i \in 1..8 : DbDate(x)[i] = Shown(DigitAt(x, i))
<1> DEFINE a == Padded(x.y, 4)
           b == Padded(x.m, 2)
           c == Padded(x.d, 2)
<1>1. x \in Dates
  OBVIOUS
<1>2. x.y \in Years /\ x.m \in Small /\ x.d \in Small
  BY KeyParts
<1>3. /\ a \in Seq(Digits) /\ Len(a) = 4
      /\ a[1] = Shown(Thousands(x.y)) /\ a[2] = Shown(Hundreds(x.y))
      /\ a[3] = Shown(Decades(x.y)) /\ a[4] = Shown(Units(x.y))
  BY ONLY <1>2, FourPlaces, Zenon
<1>4. b \in Seq(Digits) /\ Len(b) = 2 /\ b[1] = Shown(Decades(x.m)) /\ b[2] = Shown(Units(x.m))
  BY ONLY <1>2, TwoPlaces, Zenon
<1>5. c \in Seq(Digits) /\ Len(c) = 2 /\ c[1] = Shown(Decades(x.d)) /\ c[2] = Shown(Units(x.d))
  BY ONLY <1>2, TwoPlaces, Zenon
<1>6. DbDate(x) = a \o b \o c
  BY DEF DbDate
<1> HIDE DEF a, b, c
<1>7. /\ a \o b \o c \in Seq(Digits) /\ Len(a \o b \o c) = 6 + Len(c)
      /\ (a \o b \o c)[1] = a[1] /\ (a \o b \o c)[2] = a[2]
      /\ (a \o b \o c)[3] = a[3] /\ (a \o b \o c)[4] = a[4]
      /\ (a \o b \o c)[5] = b[1] /\ (a \o b \o c)[6] = b[2]
      /\ Len(c) = 2 => (a \o b \o c)[7] = c[1] /\ (a \o b \o c)[8] = c[2]
  BY ONLY <1>3, <1>4, <1>5, ThreeParts, SMTT(30)
<1>8. /\ DigitAt(x, 1) = Thousands(x.y) /\ DigitAt(x, 2) = Hundreds(x.y)
      /\ DigitAt(x, 3) = Decades(x.y) /\ DigitAt(x, 4) = Units(x.y)
      /\ DigitAt(x, 5) = Decades(x.m) /\ DigitAt(x, 6) = Units(x.m)
      /\ DigitAt(x, 7) = Decades(x.d) /\ DigitAt(x, 8) = Units(x.d)
  BY ONLY <1>1, DigitsAt, Zenon
<1> DEFINE k == a \o b \o c
<1>9. /\ k \in Seq(Digits) /\ Len(k) = 8
      /\ k[1] = Shown(DigitAt(x, 1)) /\ k[2] = Shown(DigitAt(x, 2)) /\ k[3] = Shown(DigitAt(x, 3))
      /\ k[4] = Shown(DigitAt(x, 4)) /\ k[5] = Shown(DigitAt(x, 5)) /\ k[6] = Shown(DigitAt(x, 6))
      /\ k[7] = Shown(DigitAt(x, 7)) /\ k[8] = Shown(DigitAt(x, 8))
  BY ONLY <1>3, <1>4, <1>5, <1>7, <1>8
<1> HIDE DEF k
<1>10. \A i \in 1..8 : k[i] = Shown(DigitAt(x, i))
  BY ONLY <1>9
<1> QED  BY ONLY <1>6, <1>9, <1>10 DEF k

(* The order of the texts of keys is the order of the days.                *)
LEMMA SamePrefix ==
    ASSUME NEW S, NEW a \in Seq(S), NEW b \in Seq(S), NEW n \in Nat, n <= Len(a), n <= Len(b)
    PROVE  SubSeq(a, 1, n) = SubSeq(b, 1, n) <=> \A i \in 1..n : a[i] = b[i]
<1> DEFINE p == SubSeq(a, 1, n)
           q == SubSeq(b, 1, n)
<1>0. Len(a) \in Nat /\ Len(b) \in Nat
  OBVIOUS
<1>1. p \in Seq(S) /\ Len(p) = n /\ \A i \in 1..n : p[i] = a[i]
  <2>1. 1 \in 1..Len(a) + 1 /\ n \in (1 - 1)..Len(a) /\ n - 1 + 1 = n /\ \A i \in 1..n : 1 + i - 1 = i
    BY <1>0
  <2>2. /\ SubSeq(a, 1, n) \in Seq(S) /\ Len(SubSeq(a, 1, n)) = n - 1 + 1
        /\ \A i \in 1..n - 1 + 1 : SubSeq(a, 1, n)[i] = a[1 + i - 1]
    BY <2>1, SubSeqProperties
  <2> QED  BY ONLY <2>1, <2>2
<1>2. q \in Seq(S) /\ Len(q) = n /\ \A i \in 1..n : q[i] = b[i]
  <2>1. 1 \in 1..Len(b) + 1 /\ n \in (1 - 1)..Len(b) /\ n - 1 + 1 = n /\ \A i \in 1..n : 1 + i - 1 = i
    BY <1>0
  <2>2. /\ SubSeq(b, 1, n) \in Seq(S) /\ Len(SubSeq(b, 1, n)) = n - 1 + 1
        /\ \A i \in 1..n - 1 + 1 : SubSeq(b, 1, n)[i] = b[1 + i - 1]
    BY <2>1, SubSeqProperties
  <2> QED  BY ONLY <2>1, <2>2
<1> HIDE DEF p, q
<1>3. ASSUME p = q, NEW i \in 1..n PROVE a[i] = b[i]
  BY <1>1, <1>2, <1>3
<1>4. ASSUME \A i \in 1..n : a[i] = b[i] PROVE p = q
  <2>1. Len(p) = Len(q) /\ \A i \in 1..Len(p) : p[i] = q[i]
    BY <1>1, <1>2, <1>4
  <2> QED  BY ONLY <1>1, <1>2, <2>1, SeqEqual
<1> QED  BY <1>3, <1>4 DEF p, q

LEMMA ShownValue ==
    ASSUME NEW v \in 0..9, NEW w \in 0..9
    PROVE  DigitValue(Shown(v)) = v /\ (Shown(v) = Shown(w) => v = w)
<1>1. \A c \in 0..9 : DigitValue(Shown(c)) = c
  BY DigitValues DEF Shown
<1> QED  BY ONLY <1>1, v \in 0..9, w \in 0..9, Zenon

Differ(x, z, n) ==
    (\A i \in 1..n : DigitAt(x, i) = DigitAt(z, i)) /\ DigitAt(x, n + 1) < DigitAt(z, n + 1)

LEMMA PrecedesIs ==
    ASSUME NEW x \in Dates, NEW z \in Dates
    PROVE  Precedes(DbDate(x), DbDate(z)) <=> \E n \in 0..7 : Differ(x, z, n)
<1> DEFINE a == DbDate(x)
           b == DbDate(z)
<1>1. /\ a \in Seq(Digits) /\ Len(a) = 8 /\ b \in Seq(Digits) /\ Len(b) = 8
      /\ \A i \in 1..8 : a[i] = Shown(DigitAt(x, i)) /\ b[i] = Shown(DigitAt(z, i))
  BY KeyIs
<1>2. \A i \in 1..8 : DigitAt(x, i) \in 0..9 /\ DigitAt(z, i) \in 0..9
  BY DigitsAt
<1>3. Precedes(a, b) <=>
        \E n \in 0..7 : SubSeq(a, 1, n) = SubSeq(b, 1, n) /\ DigitValue(a[n + 1]) < DigitValue(b[n + 1])
  <2> HIDE DEF a, b
  <2>1. Len(b) - 1 = 7 /\ \A n \in 0..7 : n <= 8 /\ n # 8
    BY <1>1
  <2> QED  BY <1>1, <2>1 DEF Precedes
<1> HIDE DEF a, b
<1>4. ASSUME NEW i \in 1..8
      PROVE  /\ DigitValue(a[i]) = DigitAt(x, i) /\ DigitValue(b[i]) = DigitAt(z, i)
             /\ a[i] = b[i] <=> DigitAt(x, i) = DigitAt(z, i)
  <2>1. /\ DigitAt(x, i) \in 0..9 /\ DigitAt(z, i) \in 0..9
        /\ a[i] = Shown(DigitAt(x, i)) /\ b[i] = Shown(DigitAt(z, i))
    BY <1>1, <1>2
  <2>2. \A v, w \in 0..9 : DigitValue(Shown(v)) = v /\ (Shown(v) = Shown(w) => v = w)
    BY ShownValue
  <2> QED  BY ONLY <2>1, <2>2, Zenon
<1>5. ASSUME NEW n \in 0..7
      PROVE  (SubSeq(a, 1, n) = SubSeq(b, 1, n) /\ DigitValue(a[n + 1]) < DigitValue(b[n + 1]))
               <=> Differ(x, z, n)
  <2>1. n \in Nat /\ n <= 8 /\ n + 1 \in 1..8 /\ 1..n \subseteq 1..8
    OBVIOUS
  <2>2. SubSeq(a, 1, n) = SubSeq(b, 1, n) <=> \A i \in 1..n : a[i] = b[i]
    <3>1. n \in Nat /\ n <= Len(a) /\ n <= Len(b) /\ a \in Seq(Digits) /\ b \in Seq(Digits)
      BY ONLY <1>1, <2>1
    <3> QED  BY ONLY <3>1, SamePrefix, Zenon
  <2>3. (\A i \in 1..n : a[i] = b[i]) <=> (\A i \in 1..n : DigitAt(x, i) = DigitAt(z, i))
    BY ONLY <1>4, <2>1, Zenon
  <2>4. DigitValue(a[n + 1]) = DigitAt(x, n + 1) /\ DigitValue(b[n + 1]) = DigitAt(z, n + 1)
    BY ONLY <1>4, <2>1, Zenon
  <2> QED  BY ONLY <2>2, <2>3, <2>4, Zenon DEF Differ
<1> QED  BY ONLY <1>3, <1>5, Zenon DEF a, b

(* A day as a number, and as that of its digits.                           *)
DayNumber(y, m, d) == y * 372 + (m - 1) * 31 + d
Stamp(y, m, d) == y * 10000 + m * 100 + d

LEMMA StampOrder ==
    ASSUME NEW y \in Years, NEW m \in Months, NEW d \in Small,
           NEW t \in Years, NEW n \in Months, NEW e \in Small
    PROVE  /\ DayNumber(y, m, d) \in Nat
           /\ DayNumber(y, m, d) < DayNumber(t, n, e) <=> Stamp(y, m, d) < Stamp(t, n, e)
           /\ DayNumber(y, m, d) = DayNumber(t, n, e) => y = t /\ m = n /\ d = e
<1>1. DayNumber(y, m, d) \in Nat
  BY DEF DayNumber, Years, Months, Small
<1> DEFINE a == y * 372 + (m - 1) * 31 + d
           b == t * 372 + (n - 1) * 31 + e
<1>2. /\ y \in Nat /\ t \in Nat /\ m \in 1..12 /\ n \in 1..12 /\ d \in 1..31 /\ e \in 1..31
      /\ DayNumber(y, m, d) = a /\ DayNumber(t, n, e) = b
  BY SMT DEF DayNumber, Years, Months, Small
<1>3. a < b <=> y < t \/ (y = t /\ m < n) \/ (y = t /\ m = n /\ d < e)
  BY ONLY <1>2, SMTT(30)
<1>4. Stamp(y, m, d) < Stamp(t, n, e) <=> y < t \/ (y = t /\ m < n) \/ (y = t /\ m = n /\ d < e)
  BY ONLY <1>2, SMTT(30) DEF Stamp
<1>5. DayNumber(y, m, d) < DayNumber(t, n, e) <=> Stamp(y, m, d) < Stamp(t, n, e)
  BY <1>2, <1>3, <1>4, Zenon
<1>6. DayNumber(y, m, d) = DayNumber(t, n, e) => y = t /\ m = n /\ d = e
  <2> SUFFICES ASSUME DayNumber(y, m, d) = DayNumber(t, n, e) PROVE y = t /\ m = n /\ d = e
    BY Zenon
  <2>1. a = b
    BY <1>2, Zenon
  <2>2. y = t
    BY ONLY <1>2, <2>1, SMTT(30)
  <2>3. m = n
    BY ONLY <1>2, <2>1, <2>2, SMTT(30)
  <2>4. d = e
    BY ONLY <1>2, <2>1, <2>2, <2>3, SMTT(30)
  <2> QED  BY ONLY <2>2, <2>3, <2>4, Zenon
<1> QED  BY <1>1, <1>5, <1>6, Zenon

LEMMA DayOrder ==
    ASSUME NEW x \in Dates, NEW z \in Dates
    PROVE  /\ Day(x) \in Nat /\ Day(z) \in Nat
           /\ Day(x) < Day(z) <=> Stamp(x.y, x.m, x.d) < Stamp(z.y, z.m, z.d)
           /\ Day(x) = Day(z) => x = z
<1>1. x.y \in Years /\ x.m \in Months /\ x.d \in Small /\ z.y \in Years /\ z.m \in Months /\ z.d \in Small
  BY KeyParts
<1>2. x.y = z.y /\ x.m = z.m /\ x.d = z.d => x = z
  BY DEF Dates
<1>3. Day(x) = DayNumber(x.y, x.m, x.d) /\ Day(z) = DayNumber(z.y, z.m, z.d)
  BY DEF Day, DayNumber
<1>4. /\ DayNumber(x.y, x.m, x.d) \in Nat /\ DayNumber(z.y, z.m, z.d) \in Nat
      /\ DayNumber(x.y, x.m, x.d) < DayNumber(z.y, z.m, z.d) <=>
           Stamp(x.y, x.m, x.d) < Stamp(z.y, z.m, z.d)
      /\ DayNumber(x.y, x.m, x.d) = DayNumber(z.y, z.m, z.d) => x.y = z.y /\ x.m = z.m /\ x.d = z.d
  <2>1. DayNumber(x.y, x.m, x.d) \in Nat /\ DayNumber(z.y, z.m, z.d) \in Nat
    BY ONLY <1>1, StampOrder, Zenon
  <2>2. DayNumber(x.y, x.m, x.d) < DayNumber(z.y, z.m, z.d) <=> Stamp(x.y, x.m, x.d) < Stamp(z.y, z.m, z.d)
    BY ONLY <1>1, StampOrder, SMT
  <2>3. DayNumber(x.y, x.m, x.d) = DayNumber(z.y, z.m, z.d) => x.y = z.y /\ x.m = z.m /\ x.d = z.d
    BY ONLY <1>1, StampOrder, SMT
  <2> QED  BY ONLY <2>1, <2>2, <2>3
<1> QED  BY ONLY <1>2, <1>3, <1>4

Joined(a, b, c, d, e, f, g, h) ==
    10000000 * a + 1000000 * b + 100000 * c + 10000 * d + 1000 * e + 100 * f + 10 * g + h

Figures == 0..9
Lex(a, b, c, d, e, f, g, h, i, j, k, l, m, n, o, p) ==
    \/ a < i
    \/ a = i /\ b < j
    \/ a = i /\ b = j /\ c < k
    \/ a = i /\ b = j /\ c = k /\ d < l
    \/ a = i /\ b = j /\ c = k /\ d = l /\ e < m
    \/ a = i /\ b = j /\ c = k /\ d = l /\ e = m /\ f < n
    \/ a = i /\ b = j /\ c = k /\ d = l /\ e = m /\ f = n /\ g < o
    \/ a = i /\ b = j /\ c = k /\ d = l /\ e = m /\ f = n /\ g = o /\ h < p

LEMMA StampIs ==
    ASSUME NEW x \in Dates
    PROVE  Stamp(x.y, x.m, x.d) =
             Joined(DigitAt(x, 1), DigitAt(x, 2), DigitAt(x, 3), DigitAt(x, 4),
                    DigitAt(x, 5), DigitAt(x, 6), DigitAt(x, 7), DigitAt(x, 8))
<1>1. x.y \in Years /\ x.m \in Small /\ x.d \in Small
  BY KeyParts
<1>2. x.y \in Nat /\ x.m \in Nat /\ x.d \in Nat
  BY ONLY <1>1, YearIsNumber, SmallIsNumber, Zenon
<1>3. x.y = 1000 * Thousands(x.y) + 100 * Hundreds(x.y) + 10 * Decades(x.y) + Units(x.y)
  BY ONLY <1>1, <1>2, YearIs
<1>4. x.m = 10 * Decades(x.m) + Units(x.m) /\ x.d = 10 * Decades(x.d) + Units(x.d)
  BY ONLY <1>1, <1>2, SmallIs
<1>5. /\ DigitAt(x, 1) = Thousands(x.y) /\ DigitAt(x, 2) = Hundreds(x.y)
      /\ DigitAt(x, 3) = Decades(x.y) /\ DigitAt(x, 4) = Units(x.y)
      /\ DigitAt(x, 5) = Decades(x.m) /\ DigitAt(x, 6) = Units(x.m)
      /\ DigitAt(x, 7) = Decades(x.d) /\ DigitAt(x, 8) = Units(x.d)
  BY DigitsAt
<1>6. \A i \in 1..8 : DigitAt(x, i) \in 0..9
  BY DigitsAt
<1> DEFINE u(i) == DigitAt(x, i)
<1>7. /\ x.y = 1000 * u(1) + 100 * u(2) + 10 * u(3) + u(4)
      /\ x.m = 10 * u(5) + u(6) /\ x.d = 10 * u(7) + u(8)
  BY ONLY <1>3, <1>4, <1>5
<1>8. \A i \in 1..8 : u(i) \in Nat
  BY ONLY <1>6
<1> HIDE DEF u
<1>9. Stamp(x.y, x.m, x.d) = Joined(u(1), u(2), u(3), u(4), u(5), u(6), u(7), u(8))
  <2>1. /\ u(1) \in Nat /\ u(2) \in Nat /\ u(3) \in Nat /\ u(4) \in Nat
        /\ u(5) \in Nat /\ u(6) \in Nat /\ u(7) \in Nat /\ u(8) \in Nat
    BY ONLY <1>8
  <2> QED  BY ONLY <1>7, <2>1, SMT DEF Stamp, Joined
<1> QED  BY ONLY <1>9 DEF u

LEMMA KeyOrder ==
    ASSUME NEW x \in Dates, NEW z \in Dates
    PROVE  Precedes(DbDate(x), DbDate(z)) <=> Day(x) < Day(z)
<1> DEFINE u(i) == DigitAt(x, i)
           v(i) == DigitAt(z, i)
<1>1. \A i \in 1..8 : u(i) \in 0..9 /\ v(i) \in 0..9
  BY DigitsAt
<1>2. /\ Stamp(x.y, x.m, x.d) = Joined(u(1), u(2), u(3), u(4), u(5), u(6), u(7), u(8))
      /\ Stamp(z.y, z.m, z.d) = Joined(v(1), v(2), v(3), v(4), v(5), v(6), v(7), v(8))
  BY StampIs
<1>3. ASSUME NEW n \in 0..7
      PROVE  Differ(x, z, n) <=> (\A i \in 1..n : u(i) = v(i)) /\ u(n + 1) < v(n + 1)
  BY DEF Differ
<1>4. Precedes(DbDate(x), DbDate(z)) <=> \E n \in 0..7 : Differ(x, z, n)
  BY PrecedesIs
<1>5. Day(x) < Day(z) <=> Stamp(x.y, x.m, x.d) < Stamp(z.y, z.m, z.d)
  BY DayOrder
<1> HIDE DEF u, v
<1> DEFINE E(n) == \A i \in 1..n : u(i) = v(i)
<1>6. /\ E(0)
      /\ E(1) <=> u(1) = v(1)
      /\ E(2) <=> u(1) = v(1) /\ u(2) = v(2)
      /\ E(3) <=> u(1) = v(1) /\ u(2) = v(2) /\ u(3) = v(3)
      /\ E(4) <=> u(1) = v(1) /\ u(2) = v(2) /\ u(3) = v(3) /\ u(4) = v(4)
      /\ E(5) <=> u(1) = v(1) /\ u(2) = v(2) /\ u(3) = v(3) /\ u(4) = v(4) /\ u(5) = v(5)
      /\ E(6) <=> u(1) = v(1) /\ u(2) = v(2) /\ u(3) = v(3) /\ u(4) = v(4) /\ u(5) = v(5) /\ u(6) = v(6)
      /\ E(7) <=> /\ u(1) = v(1) /\ u(2) = v(2) /\ u(3) = v(3) /\ u(4) = v(4) /\ u(5) = v(5)
                  /\ u(6) = v(6) /\ u(7) = v(7)
  OBVIOUS
<1>7. (\E n \in 0..7 : Differ(x, z, n)) <=>
        \/ E(0) /\ u(1) < v(1)
        \/ E(1) /\ u(2) < v(2)
        \/ E(2) /\ u(3) < v(3)
        \/ E(3) /\ u(4) < v(4)
        \/ E(4) /\ u(5) < v(5)
        \/ E(5) /\ u(6) < v(6)
        \/ E(6) /\ u(7) < v(7)
        \/ E(7) /\ u(8) < v(8)
  <2>1. ASSUME NEW n \in 0..7 PROVE Differ(x, z, n) <=> E(n) /\ u(n + 1) < v(n + 1)
    BY <1>3
  <2> HIDE DEF E
  <2> QED  BY ONLY <2>1
<1> HIDE DEF E
<1>8. (\E n \in 0..7 : Differ(x, z, n)) <=>
        Lex(u(1), u(2), u(3), u(4), u(5), u(6), u(7), u(8), v(1), v(2), v(3), v(4), v(5), v(6), v(7), v(8))
  BY ONLY <1>6, <1>7 DEF Lex
<1>9. Joined(u(1), u(2), u(3), u(4), u(5), u(6), u(7), u(8))
        < Joined(v(1), v(2), v(3), v(4), v(5), v(6), v(7), v(8)) <=>
        Lex(u(1), u(2), u(3), u(4), u(5), u(6), u(7), u(8), v(1), v(2), v(3), v(4), v(5), v(6), v(7), v(8))
  <2>1. \A i \in 1..8 : u(i) \in Figures /\ v(i) \in Figures
    BY ONLY <1>1 DEF Figures
  <2>2. /\ u(1) \in Figures /\ u(2) \in Figures /\ u(3) \in Figures /\ u(4) \in Figures
        /\ u(5) \in Figures /\ u(6) \in Figures /\ u(7) \in Figures /\ u(8) \in Figures
        /\ v(1) \in Figures /\ v(2) \in Figures /\ v(3) \in Figures /\ v(4) \in Figures
        /\ v(5) \in Figures /\ v(6) \in Figures /\ v(7) \in Figures /\ v(8) \in Figures
    BY ONLY <2>1
  <2>3. PICK a \in Figures, b \in Figures, c \in Figures, d \in Figures,
             e \in Figures, f \in Figures, g \in Figures, h \in Figures :
          a = u(1) /\ b = u(2) /\ c = u(3) /\ d = u(4) /\ e = u(5) /\ f = u(6) /\ g = u(7) /\ h = u(8)
    BY ONLY <2>2
  <2>4. PICK i \in Figures, j \in Figures, k \in Figures, l \in Figures,
             m \in Figures, n \in Figures, o \in Figures, p \in Figures :
          i = v(1) /\ j = v(2) /\ k = v(3) /\ l = v(4) /\ m = v(5) /\ n = v(6) /\ o = v(7) /\ p = v(8)
    BY ONLY <2>2
  <2>5. Joined(a, b, c, d, e, f, g, h) < Joined(i, j, k, l, m, n, o, p) <=>
          Lex(a, b, c, d, e, f, g, h, i, j, k, l, m, n, o, p)
    BY SMTT(60) DEF Joined, Lex, Figures
  <2> QED  BY ONLY <2>3, <2>4, <2>5
<1> QED  BY ONLY <1>2, <1>4, <1>5, <1>8, <1>9

(* Two days do not have one key.                                           *)
LEMMA KeyDistinct ==
    ASSUME NEW x \in Dates, NEW z \in Dates, DbDate(x) = DbDate(z)
    PROVE  x = z
<1>1. /\ \A i \in 1..8 : Shown(DigitAt(x, i)) = Shown(DigitAt(z, i))
      /\ \A i \in 1..8 : DigitAt(x, i) \in 0..9 /\ DigitAt(z, i) \in 0..9
  <2>1. \A i \in 1..8 : DbDate(x)[i] = Shown(DigitAt(x, i)) /\ DbDate(z)[i] = Shown(DigitAt(z, i))
    BY KeyIs
  <2>2. \A i \in 1..8 : DigitAt(x, i) \in 0..9 /\ DigitAt(z, i) \in 0..9
    BY DigitsAt
  <2> QED  BY ONLY <2>1, <2>2, DbDate(x) = DbDate(z)
<1>2. \A i \in 1..8 : DigitAt(x, i) = DigitAt(z, i)
  BY ONLY <1>1, ShownValue, Zenon
<1>3. /\ DigitAt(x, 1) = DigitAt(z, 1) /\ DigitAt(x, 2) = DigitAt(z, 2) /\ DigitAt(x, 3) = DigitAt(z, 3)
      /\ DigitAt(x, 4) = DigitAt(z, 4) /\ DigitAt(x, 5) = DigitAt(z, 5) /\ DigitAt(x, 6) = DigitAt(z, 6)
      /\ DigitAt(x, 7) = DigitAt(z, 7) /\ DigitAt(x, 8) = DigitAt(z, 8)
  BY ONLY <1>2
<1>4. Stamp(x.y, x.m, x.d) = Stamp(z.y, z.m, z.d)
  BY ONLY <1>3, StampIs, x \in Dates, z \in Dates, Zenon
<1>5. /\ Day(x) \in Nat /\ Day(z) \in Nat
      /\ Day(x) < Day(z) <=> Stamp(x.y, x.m, x.d) < Stamp(z.y, z.m, z.d)
      /\ Day(z) < Day(x) <=> Stamp(z.y, z.m, z.d) < Stamp(x.y, x.m, x.d)
      /\ (Day(x) = Day(z) => x = z)
  BY DayOrder
<1>6. Stamp(x.y, x.m, x.d) \in Nat
  <2>1. x.y \in Years /\ x.m \in Small /\ x.d \in Small
    BY KeyParts
  <2>2. x.y \in Nat /\ x.m \in Nat /\ x.d \in Nat
    BY ONLY <2>1, YearIsNumber, SmallIsNumber, Zenon
  <2> QED  BY ONLY <2>2, SMT DEF Stamp
<1> QED  BY ONLY <1>4, <1>5, <1>6

(* Of some days one is the last.                                           *)
Below == {ss \in Nat \X Nat : ss[1] < ss[2]}

LEMMA LeastNumber ==
    ASSUME NEW S \in SUBSET Nat, S # {}
    PROVE  \E n \in S : \A m \in S : n <= m
<1>1. IsWellFoundedOn(Below, Nat)
  <2>1. Below = OpToRel(<, Nat)
    BY Zenon DEF Below, OpToRel
  <2> QED  BY <2>1, NatLessThanWellFounded, Zenon
<1>2. S \subseteq Nat
  OBVIOUS
<1>3. PICK n \in S : \A m \in S : ~(<<m, n>> \in Below)
  BY ONLY <1>1, <1>2, S # {}, WFMin, Zenon
<1>4. ASSUME NEW m \in S PROVE n <= m
  <2>1. m \in Nat /\ n \in Nat
    BY <1>2
  <2>2. <<m, n>> \in Below <=> m < n
    BY <2>1 DEF Below
  <2> QED  BY <1>3, <2>1, <2>2
<1> QED  BY <1>4

DaysLeft(x) == 4000000 - Day(x)

LEMMA LatestDay ==
    ASSUME NEW G \in SUBSET Dates, G # {}
    PROVE  \E x \in G : \A z \in G : Day(z) <= Day(x)
<1> DEFINE S == {DaysLeft(x) : x \in G}
<1>1. ASSUME NEW x \in Dates PROVE DaysLeft(x) \in Nat /\ Day(x) \in Nat
  <2>1. x.y \in Years /\ x.m \in Months /\ x.d \in Small
    BY KeyParts
  <2>2. Day(x) = DayNumber(x.y, x.m, x.d)
    BY DEF Day, DayNumber
  <2>3. \A y \in Years, m \in Months, d \in Small :
          DayNumber(y, m, d) \in Nat /\ 4000000 - DayNumber(y, m, d) \in Nat
    BY SMT DEF DayNumber, Years, Months, Small
  <2> QED  BY ONLY <2>1, <2>2, <2>3, SMT DEF DaysLeft
<1>2. S \in SUBSET Nat /\ S # {}
  BY <1>1, SMT
<1>3. PICK n \in S : \A m \in S : n <= m
  BY ONLY <1>2, LeastNumber
<1>4. PICK x \in G : n = DaysLeft(x)
  BY <1>3, SMT
<1>5. ASSUME NEW z \in G PROVE Day(z) <= Day(x)
  <2>1. DaysLeft(x) <= DaysLeft(z)
    BY <1>3, <1>4, SMT
  <2> QED  BY <1>1, <2>1, x \in Dates, z \in Dates, SMT DEF DaysLeft
<1> QED  BY <1>5

--------------------------------------------------------------------------------
(* What a lookup asks for.                                                 *)
LEMMA KeysAsked ==
    ASSUME NEW x \in Dates
    PROVE  /\ x.d >= 10 => AskedKey(x) = DbDate(x)
           /\ x.d < 10 => Len(AskedKey(x)) = 7
<1>1. x.y \in Years /\ x.m \in Small /\ x.d \in 0..99
  <2>1. x.y \in Years /\ x.m \in Small /\ x.d \in Small
    BY KeyParts
  <2>2. x.d \in 0..99
    BY ONLY <2>1 DEF Small
  <2> QED  BY ONLY <2>1, <2>2, Zenon
<1>2. /\ x.d < 10 => DigitsOf(x.d) \in Seq(Digits) /\ Len(DigitsOf(x.d)) = 1
      /\ x.d >= 10 => DigitsOf(x.d) = Padded(x.d, 2)
  <2>1. PICK n \in 0..99 : n = x.d
    BY <1>1
  <2>2. /\ n < 10 => DigitsOf(n) \in Seq(Digits) /\ Len(DigitsOf(n)) = 1
        /\ n >= 10 => DigitsOf(n) = Padded(n, 2)
    BY TwoDigits
  <2> QED  BY ONLY <2>1, <2>2
<1>3. x.d >= 10 => AskedKey(x) = DbDate(x)
  BY <1>2, Zenon DEF AskedKey, DbDate
<1>4. ASSUME x.d < 10 PROVE Len(AskedKey(x)) = 7
  <2>1. Padded(x.y, 4) \in Seq(Digits) /\ Len(Padded(x.y, 4)) = 4
    BY ONLY <1>1, FourPlaces, Zenon
  <2>2. Padded(x.m, 2) \in Seq(Digits) /\ Len(Padded(x.m, 2)) = 2
    BY ONLY <1>1, TwoPlaces, Zenon
  <2>3. DigitsOf(x.d) \in Seq(Digits) /\ Len(DigitsOf(x.d)) = 1
    BY <1>2, <1>4
  <2> DEFINE a == Padded(x.y, 4)
             b == Padded(x.m, 2)
             c == DigitsOf(x.d)
  <2>4. /\ a \in Seq(Digits) /\ b \in Seq(Digits) /\ c \in Seq(Digits)
        /\ Len(a) = 4 /\ Len(b) = 2 /\ Len(c) = 1 /\ AskedKey(x) = a \o b \o c
    BY ONLY <2>1, <2>2, <2>3, Zenon DEF AskedKey
  <2> HIDE DEF a, b, c
  <2>5. a \in Seq(Digits) /\ b \in Seq(Digits) /\ c \in Seq(Digits) /\ Len(a) = 4 /\ Len(b) = 2
    BY ONLY <2>4
  <2>6. /\ a \o b \o c \in Seq(Digits) /\ Len(a \o b \o c) = 6 + Len(c)
        /\ (a \o b \o c)[1] = a[1] /\ (a \o b \o c)[2] = a[2]
        /\ (a \o b \o c)[3] = a[3] /\ (a \o b \o c)[4] = a[4]
        /\ (a \o b \o c)[5] = b[1] /\ (a \o b \o c)[6] = b[2]
        /\ Len(c) = 2 => (a \o b \o c)[7] = c[1] /\ (a \o b \o c)[8] = c[2]
    BY ONLY <2>5, ThreeParts, SMTT(30)
  <2> QED  BY ONLY <2>4, <2>6
<1> QED  BY <1>3, <1>4

--------------------------------------------------------------------------------
(* The texts of the database and the days of the history agree.            *)
Agree(r, g) ==
    /\ r = [k \in DOMAIN r |-> r[k]] /\ g = [x \in DOMAIN g |-> g[x]]
    /\ DOMAIN g \subseteq RateDates
    /\ DOMAIN r = {DbDate(x) : x \in DOMAIN g}
    /\ \A x \in DOMAIN g : r[DbDate(x)] = g[x]

RsInv == Agree(rates, given) /\ Agree(dataFile.rates, filed) /\ coming \in Seq(Records)

LEMMA RateDatesAreDates == RateDates \subseteq Dates
  BY RatesStorageConstants, Zenon

LEMMA Keyed ==
    ASSUME NEW r, NEW g, Agree(r, g), NEW x \in RateDates
    PROVE  DbDate(x) \in DOMAIN r <=> x \in DOMAIN g
<1>1. ASSUME DbDate(x) \in DOMAIN r PROVE x \in DOMAIN g
  <2>1. PICK z \in DOMAIN g : DbDate(x) = DbDate(z)
    <3>1. DOMAIN r = {DbDate(z) : z \in DOMAIN g}
      BY Zenon DEF Agree
    <3> QED  BY ONLY <1>1, <3>1, SMT
  <2>2. x \in Dates /\ z \in Dates
    BY RateDatesAreDates, Zenon DEF Agree
  <2>3. x = z
    BY ONLY <2>1, <2>2, KeyDistinct, Zenon
  <2> QED  BY <2>3
<1>2. ASSUME x \in DOMAIN g PROVE DbDate(x) \in DOMAIN r
  BY <1>2, Zenon DEF Agree
<1> QED  BY <1>1, <1>2

LEMMA AgreeAssigned ==
    ASSUME NEW r, NEW g, Agree(r, g), NEW x \in RateDates, NEW code, NEW rate
    PROVE  Agree(AssignRate(r, DbDate(x), code, rate), AssignRate(g, x, code, rate))
<1> DEFINE k == DbDate(x)
           rv == WithMember(IF k \in DOMAIN r THEN r[k] ELSE Empty, code, rate)
           gv == WithMember(IF x \in DOMAIN g THEN g[x] ELSE Empty, code, rate)
           r2 == [j \in DOMAIN r \cup {k} |-> IF j = k THEN rv ELSE r[j]]
           g2 == [z \in DOMAIN g \cup {x} |-> IF z = x THEN gv ELSE g[z]]
<1>1. rv = gv
  <2>1. k \in DOMAIN r <=> x \in DOMAIN g
    BY Keyed
  <2>2. x \in DOMAIN g => r[k] = g[x]
    BY Zenon DEF Agree
  <2> QED  BY ONLY <2>1, <2>2
<1>2. AssignRate(r, k, code, rate) = r2 /\ AssignRate(g, x, code, rate) = g2
  BY Zenon DEF AssignRate, WithMember
<1>3. DOMAIN g \subseteq RateDates /\ DOMAIN r = {DbDate(z) : z \in DOMAIN g}
      /\ \A z \in DOMAIN g : r[DbDate(z)] = g[z]
  BY Zenon DEF Agree
<1>4. \A z \in DOMAIN g : DbDate(z) = k => z = x
  BY <1>3, RateDatesAreDates, KeyDistinct, Zenon
<1> HIDE DEF rv, gv
<1>5. r2 = [j \in DOMAIN r2 |-> r2[j]] /\ g2 = [z \in DOMAIN g2 |-> g2[z]]
  OBVIOUS
<1>6. DOMAIN g2 \subseteq RateDates
  BY <1>3
<1>7. DOMAIN r2 = {DbDate(z) : z \in DOMAIN g2}
  BY <1>3
<1>8. ASSUME NEW z \in DOMAIN g2 PROVE r2[DbDate(z)] = g2[z]
  <2>1. CASE z = x
    BY <1>1, <2>1
  <2>2. CASE z # x
    BY <1>3, <1>4, <2>2
  <2> QED  BY <2>1, <2>2
<1> HIDE DEF r2, g2, k
<1>9. Agree(r2, g2)
  BY <1>5, <1>6, <1>7, <1>8, Zenon DEF Agree
<1> QED  BY ONLY <1>2, <1>9 DEF k

LEMMA RsStarts == RsInit => RsInv
<1>1. Agree(Nowhere, Nowhere)
  BY DEF Agree, Nowhere
<1> QED  BY <1>1 DEF RsInit, RsInv, NoData

LEMMA RsKept == RsInv /\ [RsNext]_rsVars => RsInv'
<1> SUFFICES ASSUME RsInv, [RsNext]_rsVars PROVE RsInv'
  OBVIOUS
<1> USE DEF RsInv
<1>1. ASSUME NEW response \in Responses, AddResponse(response) PROVE RsInv'
  <2>1. response \in Seq(Records)
    BY RatesStorageConstants
  <2> QED  BY <1>1, <2>1 DEF AddResponse
<1>2. ASSUME AddRecord PROVE RsInv'
  <2> DEFINE rec == Head(coming)
  <2>1. rec \in Records /\ Tail(coming) \in Seq(Records)
    BY <1>2 DEF AddRecord
  <2>2. rec.date \in RateDates
    BY <2>1 DEF Records
  <2>3. /\ rates' = AssignRate(rates, DbDate(rec.date), rec.cc, rec.rate)
        /\ given' = AssignRate(given, rec.date, rec.cc, rec.rate)
        /\ coming' = Tail(coming) /\ dataFile' = dataFile /\ filed' = filed
    BY <1>2 DEF AddRecord
  <2> HIDE DEF rec
  <2>4. Agree(rates, given)
    OBVIOUS
  <2>5. Agree(AssignRate(rates, DbDate(rec.date), rec.cc, rec.rate),
              AssignRate(given, rec.date, rec.cc, rec.rate))
    BY ONLY <2>2, <2>4, AgreeAssigned, Zenon
  <2>6. Agree(rates', given')
    BY ONLY <2>3, <2>5
  <2> QED  BY <2>1, <2>3, <2>6
<1>3. ASSUME SaveRates PROVE RsInv'
  BY <1>3 DEF SaveRates
<1>4. ASSUME LoadRates PROVE RsInv'
  BY <1>4 DEF LoadRates
<1>5. ASSUME LoseFile PROVE RsInv'
  <2>1. Agree(Nowhere, Nowhere)
    BY DEF Agree, Nowhere
  <2> QED  BY <1>5, <2>1 DEF LoseFile, NoData
<1>6. ASSUME UNCHANGED rsVars PROVE RsInv'
  BY <1>6 DEF rsVars
<1> QED  BY <1>1, <1>2, <1>3, <1>4, <1>5, <1>6 DEF RsNext

--------------------------------------------------------------------------------
LEMMA LatestFound == RsInv => ActualIsLatest
<1> SUFFICES ASSUME RsInv, NEW code \in Codes
             PROVE  GetActualExRate(code) =
                      IF given = Nowhere THEN 0
                      ELSE Given(CHOOSE x \in DOMAIN given : \A z \in DOMAIN given : Day(z) <= Day(x), code)
  BY Zenon DEF ActualIsLatest
<1>1. /\ rates = [k \in DOMAIN rates |-> rates[k]] /\ given = [x \in DOMAIN given |-> given[x]]
      /\ DOMAIN given \subseteq Dates
      /\ DOMAIN rates = {DbDate(x) : x \in DOMAIN given}
      /\ \A x \in DOMAIN given : rates[DbDate(x)] = given[x]
  BY RateDatesAreDates, Zenon DEF RsInv, Agree
<1>2. (rates = Nowhere <=> DOMAIN given = {}) /\ (given = Nowhere <=> DOMAIN given = {})
  <2>1. rates = Nowhere => DOMAIN rates = {}
    BY DEF Nowhere
  <2>2. given = Nowhere => DOMAIN given = {}
    BY DEF Nowhere
  <2>3. DOMAIN rates = {} => rates = Nowhere
    BY <1>1 DEF Nowhere
  <2>4. DOMAIN given = {} => given = Nowhere
    BY <1>1 DEF Nowhere
  <2>5. DOMAIN rates = {} <=> DOMAIN given = {}
    BY <1>1
  <2> QED  BY ONLY <2>1, <2>2, <2>3, <2>4, <2>5
<1>3. CASE DOMAIN given = {}
  BY <1>2, <1>3, Zenon DEF GetActualExRate
<1>4. CASE DOMAIN given # {}
  <2> DEFINE last == CHOOSE x \in DOMAIN given : \A z \in DOMAIN given : Day(z) <= Day(x)
             newest == CHOOSE k \in DOMAIN rates : \A j \in DOMAIN rates : k = j \/ Precedes(j, k)
  <2>1. \E x \in DOMAIN given : \A z \in DOMAIN given : Day(z) <= Day(x)
    BY ONLY <1>1, <1>4, LatestDay
  <2>2. last \in DOMAIN given /\ \A z \in DOMAIN given : Day(z) <= Day(last)
    BY ONLY <2>1, Zenon
  <2> HIDE DEF last
  <2>3. ASSUME NEW z \in DOMAIN given
        PROVE  DbDate(last) = DbDate(z) \/ Precedes(DbDate(z), DbDate(last))
    <3>1. last \in Dates /\ z \in Dates
      BY <1>1, <2>2
    <3>2. Day(last) \in Nat /\ Day(z) \in Nat /\ (Day(z) = Day(last) => z = last)
      BY ONLY <3>1, DayOrder, Zenon
    <3>3. Precedes(DbDate(z), DbDate(last)) <=> Day(z) < Day(last)
      BY ONLY <3>1, KeyOrder
    <3>4. Day(z) <= Day(last)
      BY <2>2
    <3> QED  BY ONLY <3>2, <3>3, <3>4
  <2>4. DbDate(last) \in DOMAIN rates
        /\ \A j \in DOMAIN rates : DbDate(last) = j \/ Precedes(j, DbDate(last))
    BY ONLY <1>1, <2>2, <2>3, Zenon
  <2>5. newest \in DOMAIN rates /\ \A j \in DOMAIN rates : newest = j \/ Precedes(j, newest)
    BY ONLY <2>4, Zenon
  <2> HIDE DEF newest
  <2>6. newest = DbDate(last)
    <3>1. PICK x \in DOMAIN given : newest = DbDate(x)
      BY ONLY <1>1, <2>5, Zenon
    <3>2. last \in Dates /\ x \in Dates
      BY <1>1, <2>2
    <3>3. newest = DbDate(last) \/ Precedes(DbDate(last), DbDate(x))
      BY ONLY <2>4, <2>5, <3>1, Zenon
    <3>4. Precedes(DbDate(last), DbDate(x)) <=> Day(last) < Day(x)
      BY ONLY <3>2, KeyOrder
    <3>5. Day(x) <= Day(last) /\ Day(x) \in Nat /\ Day(last) \in Nat
      BY ONLY <2>2, <3>2, DayOrder, Zenon
    <3> QED  BY ONLY <3>3, <3>4, <3>5
  <2>7. GetActualExRate(code) = ValueIn(rates[newest], code)
    BY <1>2, <1>4, Zenon DEF GetActualExRate, newest
  <2>8. Given(last, code) = ValueIn(given[last], code)
    BY <2>2, Zenon DEF Given
  <2>9. rates[newest] = given[last]
    BY ONLY <1>1, <2>2, <2>6, Zenon
  <2>10. GetActualExRate(code) = Given(last, code) /\ given # Nowhere
    BY ONLY <1>2, <1>4, <2>7, <2>8, <2>9, Zenon
  <2> QED  BY ONLY <2>10, Zenon DEF last
<1> QED  BY <1>3, <1>4

LEMMA LookupFound == RsInv => LookupIsRight
<1> SUFFICES ASSUME RsInv, NEW x \in RateDates, NEW code \in Codes
             PROVE  \/ GetExchangeRate(x, code) = Given(x, code)
                    \/ x.d < 10 /\ GetExchangeRate(x, code) = 0
  BY Zenon DEF LookupIsRight
<1>0. x \in Dates /\ x.d \in Int /\ Agree(rates, given)
  <2>1. x \in Dates
    BY RateDatesAreDates, Zenon
  <2>2. x.d \in Small
    BY <2>1, KeyParts
  <2>3. x.d \in Int
    BY ONLY <2>2 DEF Small
  <2>4. Agree(rates, given)
    BY Zenon DEF RsInv
  <2> QED  BY ONLY <2>1, <2>3, <2>4, Zenon
<1>1. CASE x.d >= 10
  <2>1. AskedKey(x) = DbDate(x)
    BY <1>0, <1>1, KeysAsked
  <2>2. DbDate(x) \in DOMAIN rates <=> x \in DOMAIN given
    BY <1>0, Keyed
  <2>3. x \in DOMAIN given => rates[DbDate(x)] = given[x]
    BY <1>0, Zenon DEF Agree
  <2>4. GetExchangeRate(x, code) = Given(x, code)
    BY ONLY <2>1, <2>2, <2>3, Zenon DEF GetExchangeRate, Given
  <2> QED  BY <2>4
<1>2. CASE x.d < 10
  <2>1. Len(AskedKey(x)) = 7
    BY <1>0, <1>2, KeysAsked
  <2>2. ASSUME NEW k \in DOMAIN rates PROVE Len(k) = 8
    <3>1. PICK z \in DOMAIN given : k = DbDate(z)
      BY <1>0, Zenon DEF Agree
    <3>2. z \in Dates
      BY <1>0, RateDatesAreDates, Zenon DEF Agree
    <3> QED  BY ONLY <3>1, <3>2, KeyIs
  <2>3. AskedKey(x) \notin DOMAIN rates
    BY ONLY <2>1, <2>2
  <2>4. GetExchangeRate(x, code) = 0
    BY ONLY <2>3, Zenon DEF GetExchangeRate
  <2> QED  BY <1>2, <2>4
<1> QED  BY <1>0, <1>1, <1>2

(* The rate of a currency is that of the last day there is, and a lookup   *)
(* by date never answers with what belongs to another day or currency: in  *)
(* every state of the database, with any responses, saves and loads.       *)
THEOREM LookupsAreRightAlways == RsSpec => []LookupsAreRight
<1>1. RsInv => LookupsAreRight
  BY LatestFound, LookupFound DEF LookupsAreRight
<1> QED  BY <1>1, RsStarts, RsKept, PTL DEF RsSpec

--------------------------------------------------------------------------------
(* The types of the database: each row has rates of currencies only.       *)

Rows(table) == \A k \in DOMAIN table : DOMAIN table[k] \subseteq Codes /\ Range(table[k]) \subseteq Rates

RowInv ==
    /\ Rows(rates) /\ Rows(dataFile.rates)
    /\ currencies \subseteq Codes /\ dataFile.currencies \subseteq Codes /\ adds \in 0..MaxAdds

LEMMA RowAssigned ==
    ASSUME NEW table, Rows(table), NEW k, NEW code \in Codes, NEW rate \in Rates
    PROVE  Rows(AssignRate(table, k, code, rate))
<1> DEFINE row == IF k \in DOMAIN table THEN table[k] ELSE Empty
           after == AssignRate(table, k, code, rate)
<1>1. DOMAIN row \subseteq Codes /\ \A c \in DOMAIN row : row[c] \in Rates
  BY DEF Rows, Range, Empty
<1> HIDE DEF row
<1>2. after = WithMember(table, k, WithMember(row, code, rate))
  BY Zenon DEF AssignRate, row
<1>3. /\ DOMAIN after = DOMAIN table \cup {k} /\ after[k] = WithMember(row, code, rate)
      /\ \A j \in DOMAIN table : j # k => after[j] = table[j]
  BY <1>2 DEF WithMember
<1>4. DOMAIN after[k] \subseteq Codes /\ Range(after[k]) \subseteq Rates
  BY <1>1, <1>3 DEF WithMember, Range
<1> HIDE DEF after
<1>5. Rows(after)
  BY <1>3, <1>4 DEF Rows
<1> QED  BY <1>5 DEF after

LEMMA RowsKept == RsInv /\ RowInv /\ [RsNext]_rsVars => RowInv'
<1> SUFFICES ASSUME RsInv, RowInv, [RsNext]_rsVars PROVE RowInv'
  OBVIOUS
<1>0. MaxAdds \in Nat /\ coming \in Seq(Records) /\ Rows(Nowhere)
  <2>1. Rows(Nowhere)
    BY DEF Rows, Nowhere
  <2>2. MaxAdds \in Nat /\ coming \in Seq(Records)
    BY RatesStorageConstants, Zenon DEF RsInv
  <2> QED  BY <2>1, <2>2
<1> USE DEF RowInv
<1>1. ASSUME NEW response \in Responses, AddResponse(response) PROVE RowInv'
  BY <1>0, <1>1 DEF AddResponse
<1>2. ASSUME AddRecord PROVE RowInv'
  <2> DEFINE rec == Head(coming)
  <2>1. rec.cc \in Codes /\ rec.rate \in Rates
    <3>1. rec \in Records
      BY <1>0, <1>2 DEF AddRecord
    <3> QED  BY <3>1 DEF Records
  <2>2. /\ rates' = AssignRate(rates, DbDate(rec.date), rec.cc, rec.rate)
        /\ currencies' = currencies \cup {rec.cc} /\ UNCHANGED <<dataFile, adds>>
    BY <1>2 DEF AddRecord
  <2> HIDE DEF rec
  <2>3. Rows(AssignRate(rates, DbDate(rec.date), rec.cc, rec.rate))
    BY <2>1, RowAssigned
  <2> QED  BY <2>1, <2>2, <2>3
<1>3. ASSUME SaveRates PROVE RowInv'
  BY <1>3 DEF SaveRates
<1>4. ASSUME LoadRates PROVE RowInv'
  BY <1>4 DEF LoadRates
<1>5. ASSUME LoseFile PROVE RowInv'
  BY <1>0, <1>5 DEF LoseFile, NoData
<1>6. ASSUME UNCHANGED rsVars PROVE RowInv'
  BY <1>6 DEF rsVars
<1> QED  BY <1>1, <1>2, <1>3, <1>4, <1>5, <1>6 DEF RsNext

(* Every key is eight characters, every row has rates of known currencies. *)
THEOREM DatabaseTypes == RsSpec => []RsTypeOK
<1>1. RsInit => RowInv
  <2>1. Rows(Nowhere)
    BY DEF Rows, Nowhere
  <2>2. 0 \in 0..MaxAdds
    BY RatesStorageConstants
  <2> QED  BY <2>1, <2>2 DEF RsInit, RowInv, NoData
<1>2. RsInv /\ RowInv => RsTypeOK
  <2> SUFFICES ASSUME RsInv, RowInv PROVE RsTypeOK
    OBVIOUS
  <2>1. DOMAIN given \subseteq RateDates /\ DOMAIN filed \subseteq RateDates
        /\ DOMAIN rates = {DbDate(x) : x \in DOMAIN given}
    BY Zenon DEF RsInv, Agree
  <2>2. \A x \in RateDates : Len(DbDate(x)) = 8
    BY RateDatesAreDates, KeyIs, Zenon
  <2>3. \A k \in DOMAIN rates : Len(k) = 8
    BY <2>1, <2>2
  <2>4. coming \in Seq(Records)
    BY DEF RsInv
  <2> QED  BY <2>1, <2>3, <2>4 DEF RowInv, Rows, RsTypeOK
<1> QED  BY <1>1, <1>2, RsStarts, RsKept, RowsKept, PTL DEF RsSpec

--------------------------------------------------------------------------------
(* The database as a set of days.                                          *)

LEMMA HeldIs == ASSUME NEW table PROVE HeldDays(table) = {x \in RateDates : DbDate(x) \in DOMAIN table}
  BY DEF HeldDays, DayKeys

(* A record adds its day, whose key is that of no other.                   *)
LEMMA RecordAddsDay ==
    ASSUME NEW table, NEW x \in RateDates, NEW code, NEW rate
    PROVE  HeldDays(AssignRate(table, DbDate(x), code, rate)) = HeldDays(table) \cup {x}
<1> DEFINE k == DbDate(x)
           after == AssignRate(table, k, code, rate)
<1>1. DOMAIN after = DOMAIN table \cup {k}
  BY DEF AssignRate, WithMember
<1>2. \A z \in RateDates : DbDate(z) = k <=> z = x
  BY RateDatesAreDates, KeyDistinct, Zenon
<1>3. HeldDays(after) = {z \in RateDates : DbDate(z) \in DOMAIN after}
  BY HeldIs, Zenon
<1>4. HeldDays(table) = {z \in RateDates : DbDate(z) \in DOMAIN table}
  BY HeldIs, Zenon
<1> HIDE DEF k, after
<1>5. HeldDays(after) = HeldDays(table) \cup {x}
  BY <1>1, <1>2, <1>3, <1>4
<1> QED  BY <1>5 DEF k, after

LEMMA NowhereHolds == HeldDays(Nowhere) = {}
<1>1. DOMAIN Nowhere = {}
  BY DEF Nowhere
<1> QED  BY <1>1, HeldIs

LEMMA DayStoreStep == RsInv /\ [RsNext]_rsVars => [DaysKept!DsNext]_(DaysKept!dsVars)
<1> SUFFICES ASSUME RsInv, [RsNext]_rsVars PROVE [DaysKept!DsNext]_(DaysKept!dsVars)
  OBVIOUS
<1>1. ASSUME NEW response \in Responses, AddResponse(response) PROVE UNCHANGED DaysKept!dsVars
  BY <1>1 DEF AddResponse, DaysKept!dsVars, HeldDays
<1>2. ASSUME AddRecord PROVE DaysKept!DsNext
  <2> DEFINE rec == Head(coming)
  <2>1. rec.date \in RateDates
    <3>1. rec \in Records
      BY <1>2 DEF AddRecord, RsInv
    <3> QED  BY <3>1 DEF Records
  <2>2. rates' = AssignRate(rates, DbDate(rec.date), rec.cc, rec.rate) /\ dataFile' = dataFile
    BY <1>2 DEF AddRecord
  <2> HIDE DEF rec
  <2>3. HeldDays(rates') = HeldDays(rates) \cup {rec.date}
    BY <2>1, <2>2, RecordAddsDay
  <2>4. DaysKept!Store(rec.date)
    BY <2>2, <2>3 DEF DaysKept!Store, HeldDays
  <2> QED  BY <2>1, <2>4 DEF DaysKept!DsNext
<1>3. ASSUME SaveRates PROVE DaysKept!DsNext
  <2>1. rates' = rates /\ dataFile'.rates = rates
    BY <1>3 DEF SaveRates
  <2> QED  BY <2>1 DEF DaysKept!DsNext, DaysKept!Save, HeldDays
<1>4. ASSUME LoadRates PROVE DaysKept!DsNext
  <2>1. rates' = dataFile.rates /\ dataFile' = dataFile
    BY <1>4 DEF LoadRates
  <2> QED  BY <2>1 DEF DaysKept!DsNext, DaysKept!Load, HeldDays
<1>5. ASSUME LoseFile PROVE DaysKept!DsNext
  <2>1. rates' = rates /\ dataFile'.rates = Nowhere
    BY <1>5 DEF LoseFile, NoData
  <2>2. HeldDays(dataFile'.rates) = {}
    BY <2>1, NowhereHolds
  <2> QED  BY <2>1, <2>2 DEF DaysKept!DsNext, DaysKept!Lose, HeldDays
<1>6. ASSUME UNCHANGED rsVars PROVE UNCHANGED DaysKept!dsVars
  BY <1>6 DEF rsVars, DaysKept!dsVars, HeldDays
<1> QED  BY <1>1, <1>2, <1>3, <1>4, <1>5, <1>6 DEF RsNext

(* The database, whose days are texts, implements a set of days: for all   *)
(* days, currencies and responses, and any order of adds, saves and loads. *)
THEOREM StorageIsDayStore == RsSpec => StorageKeepsDays
<1>1. RsInit => DaysKept!DsInit
  BY NowhereHolds DEF RsInit, NoData, DaysKept!DsInit
<1> QED  BY <1>1, RsStarts, RsKept, DayStoreStep, PTL DEF RsSpec, StorageKeepsDays, DaysKept!DsSpec

--------------------------------------------------------------------------------
(* The document has the four fields of a value.                            *)
Fields(v) == Value(v.type, v.token, v.elements, v.members)

JoInv == doc = Fields(doc) /\ JoTypeOK

(* What is at an index of an array, null in a hole.                        *)
Entry(v, k) == IF k \in Indices(v) THEN v.elements[k] ELSE Null

(* Sets of indices have a greatest one.                                    *)
LEMMA GreatestIndex ==
    ASSUME NEW S \in SUBSET (0..MaxIndex), S # {}
    PROVE  /\ Max(S) \in S /\ Max(S) \in 0..MaxIndex
           /\ \A k \in S : k <= Max(S)
<1> DEFINE gaps == {MaxIndex - k : k \in S}
<1>1. MaxIndex \in Nat
  BY JsonObjectConstants
<1>2. gaps \in SUBSET Nat /\ gaps # {}
  <2>1. \A k \in S : MaxIndex - k \in Nat
    BY <1>1
  <2> QED  BY <2>1
<1>3. PICK gap \in gaps : \A g \in gaps : gap <= g
  BY <1>2, LeastNumber
<1>4. PICK n \in S : gap = MaxIndex - n
  BY <1>3
<1>5. \A k \in S : k <= n
  BY <1>1, <1>3, <1>4
<1>6. Max(S) = n
  BY <1>1, <1>5, MaxOf
<1> QED  BY <1>5, <1>6

LEMMA SizeOfArray ==
    ASSUME NEW v, v.type = "array", Indices(v) \subseteq 0..MaxIndex
    PROVE  /\ Size(v) \in 0..MaxIndex + 1
           /\ \A k \in Indices(v) : k < Size(v)
           /\ Indices(v) # {} => Size(v) - 1 \in Indices(v)
<1>1. MaxIndex \in Nat
  BY JsonObjectConstants
<1>2. CASE Indices(v) = {}
  BY <1>1, <1>2 DEF Size
<1>3. CASE Indices(v) # {}
  <2> DEFINE n == Max(Indices(v))
  <2>1. n \in Indices(v) /\ n \in 0..MaxIndex /\ \A k \in Indices(v) : k <= n
    BY <1>3, GreatestIndex
  <2>2. Size(v) = 1 + n
    BY <1>3 DEF Size
  <2> HIDE DEF n
  <2> QED  BY <1>1, <1>3, <2>1, <2>2
<1> QED  BY <1>2, <1>3

LEMMA SparseIs ==
    ASSUME NEW f
    PROVE  /\ Sparse(f).type = "array" /\ Sparse(f).elements = f
           /\ Indices(Sparse(f)) = DOMAIN f /\ Sparse(f) = Fields(Sparse(f))
  BY DEF Sparse, Array, Value, Indices, Fields

LEMMA NullIs == Null = Fields(Null) /\ Null.type = "null" /\ Indices(Null) = {}
<1>1. Null = [type |-> "null", token |-> "", elements |-> <<>>, members |-> {}]
  BY DEF Null, Value
<1>2. /\ Null.type = "null" /\ Null.token = "" /\ Null.elements = <<>> /\ Null.members = {}
  BY <1>1
<1> HIDE DEF Null
<1>3. Null = Fields(Null)
  BY ONLY <1>1, <1>2 DEF Fields, Value
<1>4. Indices(Null) = {}
  BY <1>2 DEF Indices
<1> QED  BY <1>2, <1>3, <1>4

LEMMA PutIs ==
    ASSUME NEW v, NEW i, NEW part
    PROVE  /\ Put(v, i, part) = Fields(Put(v, i, part)) /\ Put(v, i, part).type = "array"
           /\ Indices(Put(v, i, part)) = {i} \cup Indices(v)
  BY SparseIs DEF Put

LEMMA ObjectIs ==
    ASSUME NEW v, NEW n, NEW part, v = Fields(v), v.type = "object"
    PROVE  /\ SetMember(v, n, part) = Fields(SetMember(v, n, part))
           /\ SetMember(v, n, part).type = "object"
  BY DEF SetMember, Value, Fields

(* The array is what a removal leaves.                                     *)
Removed(v, w, i) ==
    /\ w = Fields(w) /\ w.type = "array"
    /\ \A k \in 0..MaxIndex :
         k \in Indices(w) <=> (k < i /\ k \in Indices(v)) \/ (k >= i /\ k + 1 \in Indices(v))
    /\ Indices(w) \subseteq 0..MaxIndex
    /\ \A k \in Indices(w) : w.elements[k] = IF k < i THEN v.elements[k] ELSE v.elements[k + 1]

(* Indices after a removal.                                                *)
LEMMA MovedDown ==
    ASSUME NEW E \in SUBSET (0..MaxIndex), NEW i \in 0..MaxIndex,
           NEW moved, moved = {j \in E : j > i},
           NEW final, final = {IF j \in moved THEN j - 1 ELSE j : j \in E \ {i}}
    PROVE  /\ final \subseteq 0..MaxIndex
           /\ \A k \in 0..MaxIndex :
                k \in final <=> (k < i /\ k \in E) \/ (k >= i /\ k + 1 \in E)
           /\ \A k \in 0..MaxIndex : k + 1 \in moved <=> k >= i /\ k + 1 \in E
<1>1. MaxIndex \in Nat /\ \A j \in E : j \in Int
  BY JsonObjectConstants
<1>2. ASSUME NEW j \in E \ {i}
      PROVE  (j \in moved => j - 1 \in 0..MaxIndex /\ j - 1 >= i) /\ (j \notin moved => j < i)
  BY <1>1
<1>3. final \subseteq 0..MaxIndex
  BY <1>2
<1>4. ASSUME NEW k \in 0..MaxIndex, k \in final
      PROVE  (k < i /\ k \in E) \/ (k >= i /\ k + 1 \in E)
  <2>1. PICK j \in E \ {i} : k = IF j \in moved THEN j - 1 ELSE j
    BY <1>4
  <2> QED  BY <1>1, <1>2, <2>1
<1>5. ASSUME NEW k \in 0..MaxIndex, k < i, k \in E PROVE k \in final
  <2>1. k \in E \ {i} /\ k \notin moved
    BY <1>1, <1>5
  <2> QED  BY <2>1
<1>6. ASSUME NEW k \in 0..MaxIndex, k >= i, k + 1 \in E PROVE k \in final
  <2>1. k + 1 \in E \ {i} /\ k + 1 \in moved /\ (k + 1) - 1 = k
    BY <1>1, <1>6
  <2> QED  BY <2>1
<1>7. \A k \in 0..MaxIndex : k + 1 \in moved <=> k >= i /\ k + 1 \in E
  BY <1>1
<1> QED  BY ONLY <1>3, <1>4, <1>5, <1>6, <1>7

LEMMA RemovalIs ==
    ASSUME JoInv, NEW i \in 0..MaxIndex, ArrayItemRemove(i)
    PROVE  Removed(doc, doc', i)
<1> DEFINE E == Indices(doc)
           erased == E \ {i}
           size == IF erased = {} THEN 0 ELSE 1 + Max(erased)
           moved == {j \in erased : j > i /\ j < size}
           final == {IF j \in moved THEN j - 1 ELSE j : j \in erased}
           f == [j \in final |-> IF j + 1 \in moved THEN doc.elements[j + 1]
                                                    ELSE doc.elements[j]]
<1>1. MaxIndex \in Nat /\ E \subseteq 0..MaxIndex
  BY JsonObjectConstants DEF JoInv, JoTypeOK
<1>2. moved = {j \in E : j > i}
  <2>1. ASSUME NEW j \in erased PROVE j < size
    <3>1. j <= Max(erased) /\ Max(erased) \in 0..MaxIndex
      BY <1>1, <2>1, GreatestIndex
    <3>2. size = 1 + Max(erased)
      BY <2>1
    <3>3. j \in Int
      BY <1>1, <2>1
    <3> HIDE DEF erased, size
    <3> QED  BY <3>1, <3>2, <3>3
  <2> HIDE DEF size
  <2> QED  BY <1>1, <2>1
<1>3. doc' = Sparse(f)
  BY DEF ArrayItemRemove
<1>4. Indices(doc') = final /\ doc'.type = "array" /\ doc'.elements = f /\ doc' = Fields(doc')
  BY <1>3, SparseIs
<1>5. /\ final \subseteq 0..MaxIndex
      /\ \A k \in 0..MaxIndex :
           k \in final <=> (k < i /\ k \in E) \/ (k >= i /\ k + 1 \in E)
      /\ \A k \in 0..MaxIndex : k + 1 \in moved <=> k >= i /\ k + 1 \in E
  <2> HIDE DEF size, E, moved
  <2>1. final = {IF j \in moved THEN j - 1 ELSE j : j \in E \ {i}}
    OBVIOUS
  <2> HIDE DEF final
  <2> QED  BY <1>1, <1>2, <2>1, MovedDown
<1> HIDE DEF size, E, moved, erased
<1>6. \A k \in final : f[k] = IF k + 1 \in moved THEN doc.elements[k + 1] ELSE doc.elements[k]
  OBVIOUS
<1> HIDE DEF f, final
<1>7. ASSUME NEW k \in final
      PROVE  f[k] = IF k < i THEN doc.elements[k] ELSE doc.elements[k + 1]
  <2>1. k \in 0..MaxIndex
    BY <1>5
  <2>2. k + 1 \in moved <=> ~(k < i)
    BY <1>1, <1>5, <2>1
  <2> QED  BY <1>6, <2>2
<1> QED  BY <1>4, <1>5, <1>7 DEF Removed, E

THEOREM DocumentKept ==
    ASSUME JoInv, [JoNext]_doc PROVE JoInv'
<1> USE DEF JoInv
<1>1. MaxIndex \in Nat
  BY JsonObjectConstants
<1>2. ASSUME NEW i \in 0..MaxIndex, ReadIndex(i) PROVE JoInv'
  BY <1>2, PutIs DEF ReadIndex, JoTypeOK
<1>3. ASSUME NEW i \in 0..MaxIndex, ArrayItemRemove(i) PROVE JoInv'
  BY <1>3, RemovalIs DEF Removed, JoTypeOK
<1>4. ASSUME NEW part \in Parts, NEW i \in 0..MaxIndex, AssignIndex(i, part) PROVE JoInv'
  <2>1. CASE doc.type = "object"
    BY <1>4, <2>1, ObjectIs DEF AssignIndex, JoTypeOK, Indices
  <2>2. CASE doc.type # "object"
    BY <1>4, <2>2, PutIs DEF AssignIndex, JoTypeOK
  <2> QED  BY <2>1, <2>2
<1>5. ASSUME NEW part \in Parts, NEW n \in Strings, AssignName(n, part) PROVE JoInv'
  <2>1. AsObject(doc) = Fields(AsObject(doc)) /\ AsObject(doc).type = "object"
    BY DEF AsObject, Object, Null, Value, Fields
  <2> QED  BY <1>5, <2>1, ObjectIs DEF AssignName, JoTypeOK, Indices
<1>6. ASSUME NEW part \in Parts, JoPushBack(part) PROVE JoInv'
  <2> DEFINE v == AsArray(doc)
  <2>1. v.type = "array" /\ Indices(v) \subseteq 0..MaxIndex
    BY SparseIs DEF AsArray, NoElements, Indices, JoTypeOK
  <2>2. Size(v) \in 0..MaxIndex
    BY <1>1, <1>6, <2>1, SizeOfArray DEF JoPushBack
  <2> QED  BY <1>6, <2>2, PutIs DEF JoPushBack, JoTypeOK
<1>7. ASSUME NEW n \in Strings, KeyRemove(n) PROVE JoInv'
  BY <1>7 DEF KeyRemove, JoTypeOK, Object, Null, Value, Fields, Indices
<1>8. ASSUME ClearDoc PROVE JoInv'
  BY <1>8, NullIs DEF ClearDoc, JoTypeOK
<1>9. CASE UNCHANGED doc
  BY <1>9 DEF JoTypeOK, Fields, Indices
<1> QED  BY <1>2, <1>3, <1>4, <1>5, <1>6, <1>7, <1>8, <1>9 DEF JoNext

--------------------------------------------------------------------------------
LEMMA RemoveAtIs ==
    ASSUME NEW S, NEW s \in Seq(S), NEW i \in Nat, i < Len(s)
    PROVE  /\ RemoveAt(s, i + 1) \in Seq(S) /\ Len(RemoveAt(s, i + 1)) = Len(s) - 1
           /\ \A k \in 1..(Len(s) - 1) :
                RemoveAt(s, i + 1)[k] = IF k <= i THEN s[k] ELSE s[k + 1]
<1> DEFINE a == SubSeq(s, 1, i)
           b == SubSeq(s, i + 2, Len(s))
           n == Len(s)
<1>1. n \in Nat /\ \A k \in 1..n : s[k] \in S
  BY LenProperties, ElementOfSeq
<1>2. a \in Seq(S) /\ Len(a) = i /\ \A k \in 1..i : a[k] = s[k]
  <2>1. \A k \in 1..i : s[k] \in S
    BY <1>1
  <2>2. /\ a \in Seq(S) /\ Len(a) = IF 1 <= i THEN i - 1 + 1 ELSE 0
        /\ \A k \in 1..(i - 1 + 1) : a[k] = s[1 + k - 1]
    <3>1. 1 \in Int /\ i \in Int
      OBVIOUS
    <3> QED  BY <2>1, <3>1, SubSeqProperties DEF a
  <2> HIDE DEF a
  <2> QED  BY <2>2
<1>3. b \in Seq(S) /\ Len(b) = n - (i + 1) /\ \A k \in 1..(n - (i + 1)) : b[k] = s[i + 1 + k]
  <2>1. \A k \in (i + 2)..n : s[k] \in S
    BY <1>1
  <2>2. /\ b \in Seq(S) /\ Len(b) = IF i + 2 <= n THEN n - (i + 2) + 1 ELSE 0
        /\ \A k \in 1..(n - (i + 2) + 1) : b[k] = s[(i + 2) + k - 1]
    <3>1. i + 2 \in Int /\ n \in Int
      BY <1>1
    <3> HIDE DEF b
    <3> QED  BY <2>1, <3>1, SubSeqProperties DEF b
  <2> HIDE DEF b, n
  <2>3. Len(b) = n - (i + 1)
    BY <1>1, <2>2 DEF n
  <2>4. ASSUME NEW k \in 1..(n - (i + 1)) PROVE b[k] = s[i + 1 + k]
    <3>1. k \in 1..(n - (i + 2) + 1) /\ (i + 2) + k - 1 = i + 1 + k
      BY <1>1
    <3> QED  BY <2>2, <3>1
  <2> QED  BY <2>2, <2>3, <2>4
<1>4. RemoveAt(s, i + 1) = a \o b
  <2>1. (i + 1) - 1 = i /\ (i + 1) + 1 = i + 2
    OBVIOUS
  <2>2. RemoveAt(s, i + 1) = SubSeq(s, 1, (i + 1) - 1) \o SubSeq(s, (i + 1) + 1, Len(s))
    BY Zenon DEF RemoveAt
  <2> QED  BY ONLY <2>1, <2>2, Zenon DEF a, b
<1> HIDE DEF a, b
<1>5. /\ a \o b \in Seq(S) /\ Len(a \o b) = Len(a) + Len(b)
      /\ \A k \in 1..(Len(a) + Len(b)) :
           (a \o b)[k] = IF k <= Len(a) THEN a[k] ELSE b[k - Len(a)]
  BY <1>2, <1>3, ConcatProperties
<1> HIDE DEF n
<1>6. Len(a) + Len(b) = n - 1
  BY <1>1, <1>2, <1>3
<1>7. ASSUME NEW k \in 1..(n - 1)
      PROVE  (a \o b)[k] = IF k <= i THEN s[k] ELSE s[k + 1]
  <2>1. CASE k <= i
    BY <1>1, <1>2, <1>5, <1>6, <2>1
  <2>2. CASE ~(k <= i)
    <3>1. k - i \in 1..(n - (i + 1)) /\ i + 1 + (k - i) = k + 1
      BY <1>1, <2>2
    <3> QED  BY <1>2, <1>3, <1>5, <1>6, <2>2, <3>1
  <2> QED  BY <2>1, <2>2
<1> QED  BY <1>4, <1>5, <1>6, <1>7 DEF n

(* What is found after a removal is what was there or one place further.   *)
LEMMA EntriesMove ==
    ASSUME JoInv, NEW i \in 0..MaxIndex, ArrayItemRemove(i), NEW k \in Nat
    PROVE  Entry(doc', k) = IF k < i THEN Entry(doc, k) ELSE Entry(doc, k + 1)
<1>1. MaxIndex \in Nat /\ Indices(doc) \subseteq 0..MaxIndex
  BY JsonObjectConstants DEF JoInv, JoTypeOK
<1>2. Removed(doc, doc', i)
  BY RemovalIs
<1>3. CASE k \in 0..MaxIndex
  <2>1. k \in Indices(doc') <=> IF k < i THEN k \in Indices(doc) ELSE k + 1 \in Indices(doc)
    BY <1>1, <1>2, <1>3 DEF Removed
  <2>2. k \in Indices(doc') =>
          doc'.elements[k] = IF k < i THEN doc.elements[k] ELSE doc.elements[k + 1]
    BY <1>2 DEF Removed
  <2> QED  BY <2>1, <2>2 DEF Entry
<1>4. CASE k \notin 0..MaxIndex
  <2>1. k \notin Indices(doc') /\ ~(k < i) /\ k + 1 \notin Indices(doc)
    BY <1>1, <1>2, <1>4 DEF Removed
  <2> QED  BY <2>1 DEF Entry
<1> QED  BY <1>3, <1>4

(* One element less, or as many as come before the last one.               *)
LEMMA SizeAfter ==
    ASSUME JoInv, NEW i \in 0..MaxIndex, ArrayItemRemove(i), i < Size(doc)
    PROVE  /\ Size(doc) \in Nat /\ Size(doc') \in Nat
           /\ Size(doc') <= Size(doc) - 1
           /\ i + 1 < Size(doc) => Size(doc') = Size(doc) - 1
           /\ i + 1 = Size(doc) => Size(doc') <= i
<1> DEFINE E == Indices(doc)
           W == Indices(doc')
           n == Size(doc)
           m == Size(doc')
<1>1. MaxIndex \in Nat /\ E \subseteq 0..MaxIndex /\ doc.type = "array"
  BY JsonObjectConstants DEF JoInv, JoTypeOK, ArrayItemRemove
<1>2. /\ W \subseteq 0..MaxIndex /\ doc'.type = "array"
      /\ \A k \in 0..MaxIndex : k \in W <=> (k < i /\ k \in E) \/ (k >= i /\ k + 1 \in E)
  BY RemovalIs DEF Removed
<1>3. n \in Nat /\ (\A k \in E : k < n) /\ (E # {} => n - 1 \in E) /\ n \in 0..MaxIndex + 1
  BY <1>1, SizeOfArray
<1>4. m \in Nat /\ (\A k \in W : k < m) /\ (W # {} => m - 1 \in W)
      /\ m \in 0..MaxIndex + 1 /\ (W = {} => m = 0)
  BY <1>1, <1>2, SizeOfArray DEF Size
<1>5. E # {} /\ n - 1 \in E
  BY <1>1, <1>3 DEF Size
<1> HIDE DEF E, W, m
<1>6. ASSUME i + 1 < n PROVE m >= n - 1
  <2>1. n - 2 \in 0..MaxIndex /\ n - 2 >= i /\ (n - 2) + 1 = n - 1
    BY <1>1, <1>3, <1>6
  <2>2. n - 2 \in W
    BY <1>2, <1>5, <2>1
  <2> QED  BY <1>3, <1>4, <2>2
<1>7. ASSUME W # {} PROVE m - 1 < n - 1 /\ (i + 1 = n => m - 1 < i)
  <2>1. m - 1 \in 0..MaxIndex
    BY <1>2, <1>4, <1>7
  <2>2. (m - 1 < i /\ m - 1 \in E) \/ (m - 1 >= i /\ (m - 1) + 1 \in E)
    BY <1>2, <1>4, <1>7, <2>1
  <2>3. CASE m - 1 < i /\ m - 1 \in E
    BY <1>3, <1>4, <2>3
  <2>4. CASE m - 1 >= i /\ (m - 1) + 1 \in E
    BY <1>3, <1>4, <2>4
  <2> QED  BY <2>2, <2>3, <2>4
<1>8. m <= n - 1 /\ (i + 1 = n => m <= i)
  BY <1>3, <1>4, <1>7
<1> QED  BY <1>3, <1>4, <1>6, <1>8 DEF m

LEMMA ListedIs ==
    ASSUME NEW v, Size(v) \in Nat, NEW S, \A k \in Nat : Entry(v, k) \in S
    PROVE  /\ Listed(v) \in Seq(S) /\ Len(Listed(v)) = Size(v)
           /\ \A k \in 1..Size(v) : Listed(v)[k] = Entry(v, k - 1)
<1>1. Listed(v) = [k \in 1..Size(v) |-> Entry(v, k - 1)]
  BY DEF Listed, Entry
<1>2. \A k \in 1..Size(v) : Entry(v, k - 1) \in S
  <2>1. \A k \in 1..Size(v) : k - 1 \in Nat
    OBVIOUS
  <2> QED  BY <2>1
<1>3. Listed(v) \in [1..Size(v) -> S]
  BY <1>1, <1>2
<1>4. Listed(v) \in Seq(S) /\ Len(Listed(v)) = Size(v)
  BY <1>3
<1> QED  BY <1>1, <1>4

LEMMA RemovalExact ==
    ASSUME JoInv, NEW i \in 0..MaxIndex, ArrayItemRemove(i), i < Size(doc)
    PROVE  /\ IsPrefix(Listed(doc'), RemoveAt(Listed(doc), i + 1))
           /\ i + 1 < Size(doc) => Listed(doc') = RemoveAt(Listed(doc), i + 1)
<1> DEFINE S == {Entry(doc, k) : k \in Nat}
           s == Listed(doc)
           t == Listed(doc')
           left == RemoveAt(s, i + 1)
           n == Size(doc)
           m == Size(doc')
<1>1. /\ n \in Nat /\ m \in Nat /\ m <= n - 1 /\ i \in Nat /\ i < n
      /\ i + 1 < n => m = n - 1
  BY SizeAfter
<1>2. /\ s \in Seq(S) /\ Len(s) = n
      /\ \A k \in 1..n : s[k] = Entry(doc, k - 1)
  <2>1. \A k \in Nat : Entry(doc, k) \in S
    OBVIOUS
  <2> HIDE DEF S
  <2> QED  BY <1>1, <2>1, ListedIs
<1>3. \A k \in Nat : Entry(doc', k) = IF k < i THEN Entry(doc, k) ELSE Entry(doc, k + 1)
  BY EntriesMove
<1>4. /\ t \in Seq(S) /\ Len(t) = m
      /\ \A k \in 1..m : t[k] = Entry(doc', k - 1)
  <2>1. \A k \in Nat : Entry(doc', k) \in S
    BY <1>3
  <2> HIDE DEF S
  <2> QED  BY <1>1, <2>1, ListedIs
<1> HIDE DEF S, s, t, n, m
<1>5. /\ left \in Seq(S) /\ Len(left) = n - 1
      /\ \A k \in 1..(n - 1) : left[k] = IF k <= i THEN s[k] ELSE s[k + 1]
  BY <1>1, <1>2, RemoveAtIs
<1> HIDE DEF left
<1>6. ASSUME NEW k \in 1..m PROVE t[k] = left[k]
  <2>1. k - 1 \in Nat /\ k \in 1..(n - 1) /\ k \in 1..n /\ k + 1 \in 1..n
        /\ (k - 1 < i <=> k <= i) /\ (k - 1) + 1 = k /\ (k + 1) - 1 = k
    BY <1>1
  <2>2. t[k] = IF k <= i THEN Entry(doc, k - 1) ELSE Entry(doc, k)
    BY <1>3, <1>4, <2>1
  <2>3. s[k] = Entry(doc, k - 1) /\ s[k + 1] = Entry(doc, k)
    BY <1>2, <2>1
  <2> QED  BY <1>5, <2>1, <2>2, <2>3
<1>7. \A k \in 1..Len(t) : t[k] \in S /\ left[k] \in S
  <2>1. \A k \in 1..Len(t) : t[k] \in S
    BY <1>4, ElementOfSeq
  <2> QED  BY <1>4, <1>6, <2>1
<1>8. SubSeq(t, 1, Len(t)) = SubSeq(left, 1, Len(t))
  <2> DEFINE a == SubSeq(t, 1, m)
             b == SubSeq(left, 1, m)
  <2>1. 1 \in Int /\ m \in Int
    BY <1>1
  <2>2. /\ a \in Seq(S) /\ Len(a) = IF 1 <= m THEN m - 1 + 1 ELSE 0
        /\ \A k \in 1..(m - 1 + 1) : a[k] = t[1 + k - 1]
    BY <1>4, <1>7, <2>1, SubSeqProperties
  <2>3. /\ b \in Seq(S) /\ Len(b) = IF 1 <= m THEN m - 1 + 1 ELSE 0
        /\ \A k \in 1..(m - 1 + 1) : b[k] = left[1 + k - 1]
    BY <1>4, <1>7, <2>1, SubSeqProperties
  <2> HIDE DEF a, b
  <2>4. Len(a) = m /\ Len(b) = m
    BY <1>1, <2>2, <2>3
  <2>5. ASSUME NEW k \in 1..m PROVE a[k] = b[k]
    <3>1. k \in 1..(m - 1 + 1) /\ 1 + k - 1 = k
      BY <1>1
    <3> QED  BY <1>6, <2>2, <2>3, <3>1
  <2>6. a = b
    BY <2>2, <2>3, <2>4, <2>5, SeqEqual
  <2> QED  BY <1>4, <2>6 DEF a, b
<1>9. IsPrefix(t, left)
  BY <1>1, <1>4, <1>5, <1>8 DEF IsPrefix
<1>10. ASSUME i + 1 < n PROVE t = left
  <2>1. Len(t) = Len(left)
    BY <1>1, <1>4, <1>5, <1>10
  <2> QED  BY <1>4, <1>5, <1>6, <2>1, SeqEqual
<1> QED  BY <1>9, <1>10 DEF s, t, left, n

(* array_item_remove takes one element out of the list that an array       *)
(* stands for and keeps the others in their order, wherever the holes are, *)
(* however long the array and whatever the document was before.            *)
THEOREM RemovalsAreExact == JoSpec => RemovalIsExact
<1>1. JoInit => JoInv
  BY NullIs DEF JoInit, JoInv, JoTypeOK
<1>2. JoInv /\ [JoNext]_doc => JoInv'
  BY DocumentKept
<1>3. JoInv => [\A i \in 0..MaxIndex : ArrayItemRemove(i) /\ i < Size(doc) =>
         LET left == RemoveAt(Listed(doc), i + 1)
         IN IsPrefix(Listed(doc'), left) /\ (i + 1 < Size(doc) => Listed(doc') = left)
      ]_doc
  BY RemovalExact
<1> QED  BY <1>1, <1>2, <1>3, PTL DEF JoSpec, RemovalIsExact

(* The indices of an array stay within the bound.                          *)
THEOREM DocumentTypes == JoSpec => []JoTypeOK
<1>1. JoInit => JoInv
  BY NullIs DEF JoInit, JoInv, JoTypeOK
<1>2. JoInv /\ [JoNext]_doc => JoInv'
  BY DocumentKept
<1>3. JoInv => JoTypeOK
  BY DEF JoInv
<1> QED  BY <1>1, <1>2, <1>3, PTL DEF JoSpec
================================================================================
