-------------------------------- MODULE JsonProofs --------------------------------
(***************************************************************************)
(* What holds of the texts of a document for every code point, every       *)
(* length and every bound: unescape undoes escape, and what the service    *)
(* stores is what simdjson reads from the file.                            *)
(*                                                                         *)
(* The argument: the bytes of a text are those of its characters, so a     *)
(* reader in front of the bytes of a character finds it (from_utf8), and   *)
(* to escape the characters or their bytes is the same, for only ASCII is  *)
(* escaped.  simdjson then reads the bytes one by one, in front of an      *)
(* escaped rest and a quote.                                               *)
(***************************************************************************)
EXTENDS JsonText, SequenceTheorems, WellFoundedInduction, TLAPS

--------------------------------------------------------------------------------
(* UTF-8: utf8_to_ucs finds what ucs_to_utf8 has written.                  *)

(* Division by 64 and by its powers.                                       *)
LEMMA Sixes ==
    ASSUME NEW n \in Nat
    PROVE  /\ n \div 64 \in Nat /\ n % 64 \in 0..63 /\ n = 64 * (n \div 64) + (n % 64)
           /\ n \div 4096 = (n \div 64) \div 64 /\ n \div 262144 = (n \div 4096) \div 64
  BY SMT

(* The marks of the leading and of the following bytes are masked away.    *)
LEMMA Marks ==
    /\ \A r \in Nat : r < 64 => (128 + r) % 64 = r
    /\ \A r \in Nat : r < 32 => (192 + r) % 32 = r
    /\ \A r \in Nat : r < 16 => (224 + r) % 16 = r
  BY SMT

(* UcsToUtf8 by the length of its result.                                  *)
LEMMA UtfOne == ASSUME NEW c \in Nat, c < 128 PROVE UcsToUtf8(c) = <<c>>
  BY SMT DEF UcsToUtf8

LEMMA UtfTwo ==
    ASSUME NEW c \in Nat, ~(c < 128), c < 2048
    PROVE  UcsToUtf8(c) = <<192 + c \div 64, 128 + (c % 64)>>
  BY SMT DEF UcsToUtf8

LEMMA UtfThree ==
    ASSUME NEW c \in Nat, ~(c < 2048), c < 65536
    PROVE  UcsToUtf8(c) = <<224 + c \div 4096, 128 + ((c \div 64) % 64), 128 + (c % 64)>>
<1>1. ~(c < 128)
  BY SMT
<1> QED  BY <1>1, SMT DEF UcsToUtf8

LEMMA UtfFour ==
    ASSUME NEW c \in Nat, ~(c < 65536)
    PROVE  UcsToUtf8(c) = <<240 + c \div 262144, 128 + ((c \div 4096) % 64),
                            128 + ((c \div 64) % 64), 128 + (c % 64)>>
<1>1. ~(c < 128) /\ ~(c < 2048)
  BY SMT
<1> QED  BY <1>1, SMT DEF UcsToUtf8

(* The bytes of a character that is not ASCII are none of ASCII.           *)
LEMMA UtfBytes ==
    ASSUME NEW c \in Nat
    PROVE  /\ UcsToUtf8(c) \in Seq(Nat) /\ Len(UcsToUtf8(c)) >= 1
           /\ c < 128 => UcsToUtf8(c) = <<c>>
           /\ ~(c < 128) => \A i \in 1..Len(UcsToUtf8(c)) : ~(UcsToUtf8(c)[i] < 128)
<1>1. PICK q \in Nat, r \in Nat, t \in Nat, p \in Nat, u \in Nat, h \in Nat :
        /\ q = c \div 64 /\ r = c % 64 /\ t = (c \div 64) % 64
        /\ p = c \div 4096 /\ u = (c \div 4096) % 64 /\ h = c \div 262144
  BY SMT
<1>2. CASE c < 128
  <2>1. UcsToUtf8(c) = <<c>>
    BY ONLY <1>2, c \in Nat, UtfOne, SMT
  <2> QED  BY ONLY <2>1, <1>2, c \in Nat, SMT
<1>3. CASE ~(c < 128) /\ c < 2048
  <2>1. UcsToUtf8(c) = <<192 + q, 128 + r>>
    <3>1. UcsToUtf8(c) = <<192 + c \div 64, 128 + (c % 64)>>
      BY ONLY <1>3, c \in Nat, UtfTwo, SMT
    <3> QED  BY ONLY <1>1, <3>1, SMT
  <2>2. 192 + q \in Nat /\ 128 + r \in Nat /\ ~(192 + q < 128) /\ ~(128 + r < 128)
    BY ONLY <1>1, SMT
  <2> QED  BY ONLY <2>1, <2>2, <1>3, SMT
<1>4. CASE ~(c < 2048) /\ c < 65536
  <2>1. UcsToUtf8(c) = <<224 + p, 128 + t, 128 + r>>
    <3>1. UcsToUtf8(c) = <<224 + c \div 4096, 128 + ((c \div 64) % 64), 128 + (c % 64)>>
      BY ONLY <1>4, c \in Nat, UtfThree, SMT
    <3> QED  BY ONLY <1>1, <3>1, SMT
  <2>2. /\ 224 + p \in Nat /\ 128 + r \in Nat /\ 128 + t \in Nat
        /\ ~(224 + p < 128) /\ ~(128 + t < 128) /\ ~(128 + r < 128)
    BY ONLY <1>1, SMT
  <2>3. ~(c < 128)
    BY ONLY <1>4, c \in Nat, SMT
  <2> QED  BY ONLY <2>1, <2>2, <2>3, SMT
<1>5. CASE ~(c < 65536)
  <2>1. UcsToUtf8(c) = <<240 + h, 128 + u, 128 + t, 128 + r>>
    <3>1. UcsToUtf8(c) = <<240 + c \div 262144, 128 + ((c \div 4096) % 64),
                           128 + ((c \div 64) % 64), 128 + (c % 64)>>
      BY ONLY <1>5, c \in Nat, UtfFour, SMT
    <3> QED  BY ONLY <1>1, <3>1, SMT
  <2>2. /\ 240 + h \in Nat /\ 128 + r \in Nat /\ 128 + t \in Nat /\ 128 + u \in Nat
        /\ ~(240 + h < 128) /\ ~(128 + t < 128) /\ ~(128 + r < 128) /\ ~(128 + u < 128)
    BY ONLY <1>1, SMT
  <2>3. ~(c < 128)
    BY ONLY <1>5, c \in Nat, SMT
  <2> QED  BY ONLY <2>1, <2>2, <2>3, SMT
<1>6. (~(c < 128) /\ c < 2048) \/ c < 128 \/ (~(c < 2048) /\ c < 65536) \/ ~(c < 65536)
  BY ONLY c \in Nat, SMT
<1> QED  BY ONLY <1>2, <1>3, <1>4, <1>5, <1>6, SMT

(* Utf8ToUcs by the length of the character at the place.                  *)
LEMMA UcsOne ==
    ASSUME NEW bytes, NEW at \in Nat, NEW x \in Nat, x # 0, x < 128, ByteAt(bytes, at + 0) = x
    PROVE  Utf8ToUcs(bytes, at) = Ucs(x, 1)
  BY SMT DEF Utf8ToUcs

LEMMA UcsTwo ==
    ASSUME NEW bytes, NEW at \in Nat, NEW x \in Nat, NEW y \in Nat, 192 <= x, x <= 223,
           ByteAt(bytes, at + 0) = x, ByteAt(bytes, at + 1) = y
    PROVE  Utf8ToUcs(bytes, at) = Ucs((x % 32) * 64 + (y % 64), 2)
<1>1. x # 0 /\ ~(x < 128) /\ x \in 192..223
  BY SMT
<1> QED  BY <1>1, SMT DEF Utf8ToUcs

LEMMA UcsThree ==
    ASSUME NEW bytes, NEW at \in Nat, NEW x \in Nat, NEW y \in Nat, NEW z \in Nat,
           224 <= x, x <= 239,
           ByteAt(bytes, at + 0) = x, ByteAt(bytes, at + 1) = y, ByteAt(bytes, at + 2) = z
    PROVE  Utf8ToUcs(bytes, at) = Ucs((x % 16) * 4096 + (y % 64) * 64 + (z % 64), 3)
<1>1. x # 0 /\ ~(x < 128) /\ x \notin 192..223 /\ x \in 224..239
  BY SMT
<1> QED  BY <1>1, SMT DEF Utf8ToUcs

(* The bytes at a place of a string are those of u.                        *)
StandsAt(bytes, at, u) == \A i \in 1..Len(u) : ByteAt(bytes, at + (i - 1)) = u[i]

(* What is at the places of one, two and three bytes.                      *)
LEMMA StandOne ==
    ASSUME NEW bytes, NEW at \in Nat, NEW x, StandsAt(bytes, at, <<x>>)
    PROVE  ByteAt(bytes, at + 0) = x
<1>1. 1 \in 1..Len(<<x>>) /\ at + (1 - 1) = at + 0 /\ <<x>>[1] = x
  BY ONLY at \in Nat, SMT
<1> QED  BY <1>1, SMT DEF StandsAt

LEMMA StandTwo ==
    ASSUME NEW bytes, NEW at \in Nat, NEW x, NEW y, StandsAt(bytes, at, <<x, y>>)
    PROVE  ByteAt(bytes, at + 0) = x /\ ByteAt(bytes, at + 1) = y
<1>1. /\ 1 \in 1..Len(<<x, y>>) /\ 2 \in 1..Len(<<x, y>>)
      /\ at + (1 - 1) = at + 0 /\ at + (2 - 1) = at + 1
      /\ <<x, y>>[1] = x /\ <<x, y>>[2] = y
  BY ONLY at \in Nat, SMT
<1> QED  BY <1>1, SMT DEF StandsAt

LEMMA StandThree ==
    ASSUME NEW bytes, NEW at \in Nat, NEW x, NEW y, NEW z, StandsAt(bytes, at, <<x, y, z>>)
    PROVE  ByteAt(bytes, at + 0) = x /\ ByteAt(bytes, at + 1) = y /\ ByteAt(bytes, at + 2) = z
<1>1. /\ 1 \in 1..Len(<<x, y, z>>) /\ 2 \in 1..Len(<<x, y, z>>) /\ 3 \in 1..Len(<<x, y, z>>)
      /\ at + (1 - 1) = at + 0 /\ at + (2 - 1) = at + 1 /\ at + (3 - 1) = at + 2
      /\ <<x, y, z>>[1] = x /\ <<x, y, z>>[2] = y /\ <<x, y, z>>[3] = z
  BY ONLY at \in Nat, SMT
<1> QED  BY <1>1, SMT DEF StandsAt

(* The bits of a character in groups of six.                               *)
LEMMA Groups ==
    ASSUME NEW c \in Nat
    PROVE  \E q \in Nat, r \in Nat, p \in Nat, t \in Nat :
             /\ q = c \div 64 /\ r = c % 64 /\ r < 64 /\ c = 64 * q + r
             /\ p = c \div 4096 /\ t = (c \div 64) % 64 /\ t < 64 /\ q = 64 * p + t
<1>1. /\ c \div 64 \in Nat /\ c % 64 \in Nat /\ c % 64 < 64
      /\ c = 64 * (c \div 64) + (c % 64) /\ c \div 4096 = (c \div 64) \div 64
  BY Sixes, SMT
<1>2. PICK q \in Nat, r \in Nat : /\ q = c \div 64 /\ r = c % 64 /\ r < 64
                                  /\ c = 64 * q + r /\ c \div 4096 = q \div 64
  BY ONLY <1>1, SMT
<1>3. PICK p \in Nat, t \in Nat : p = q \div 64 /\ t = q % 64 /\ t < 64 /\ q = 64 * p + t
  BY ONLY q \in Nat, SMT
<1> QED  BY ONLY <1>2, <1>3, SMT

(* utf8_to_ucs finds a character of 16 bits where its bytes are.           *)
LEMMA CharOfBytes ==
    ASSUME NEW bytes, NEW at \in Nat, NEW c \in Nat, c # 0, c < 65536,
           StandsAt(bytes, at, UcsToUtf8(c))
    PROVE  /\ Utf8ToUcs(bytes, at) = Ucs(c, Len(UcsToUtf8(c)))
           /\ Wide(Utf8ToUcs(bytes, at)) = c
<1>1. PICK q \in Nat, r \in Nat, p \in Nat, t \in Nat :
         /\ q = c \div 64 /\ r = c % 64 /\ r < 64 /\ c = 64 * q + r
         /\ p = c \div 4096 /\ t = (c \div 64) % 64 /\ t < 64 /\ q = 64 * p + t
  BY ONLY c \in Nat, Groups, SMT
<1>2. Utf8ToUcs(bytes, at) = Ucs(c, Len(UcsToUtf8(c)))
  <2>1. CASE c < 128
    <3>1. UcsToUtf8(c) = <<c>> /\ Len(<<c>>) = 1
      BY ONLY c \in Nat, <2>1, UtfOne, SMT
    <3>2. ByteAt(bytes, at + 0) = c
      BY <3>1, StandOne, SMT
    <3>3. Utf8ToUcs(bytes, at) = Ucs(c, 1)
      BY ONLY at \in Nat, c \in Nat, c # 0, <2>1, <3>2, UcsOne, SMT
    <3> QED  BY ONLY <3>1, <3>3
  <2>2. CASE ~(c < 128) /\ c < 2048
    <3>1. UcsToUtf8(c) = <<192 + q, 128 + r>>
      <4>1. UcsToUtf8(c) = <<192 + c \div 64, 128 + (c % 64)>>
        BY ONLY c \in Nat, <2>2, UtfTwo, SMT
      <4> QED  BY ONLY <1>1, <4>1, SMT
    <3>2. ByteAt(bytes, at + 0) = 192 + q /\ ByteAt(bytes, at + 1) = 128 + r
      BY <3>1, StandTwo, SMT
    <3>3. q < 32 /\ 192 + q \in Nat /\ 192 <= 192 + q /\ 192 + q <= 223 /\ 128 + r \in Nat
      BY ONLY <1>1, <2>2, c \in Nat, q \in Nat, r \in Nat, SMT
    <3>4. (192 + q) % 32 = q /\ (128 + r) % 64 = r
      BY ONLY <1>1, <3>3, Marks, SMT
    <3>5. Utf8ToUcs(bytes, at) = Ucs(((192 + q) % 32) * 64 + ((128 + r) % 64), 2)
      BY ONLY at \in Nat, <3>2, <3>3, UcsTwo, SMT
    <3>6. ((192 + q) % 32) * 64 + ((128 + r) % 64) = c
      BY ONLY <1>1, <3>4, SMT
    <3>7. Len(<<192 + q, 128 + r>>) = 2
      BY ONLY SMT
    <3> QED  BY ONLY <3>1, <3>5, <3>6, <3>7
  <2>3. CASE ~(c < 2048)
    <3>1. UcsToUtf8(c) = <<224 + p, 128 + t, 128 + r>>
      <4>1. UcsToUtf8(c) = <<224 + c \div 4096, 128 + ((c \div 64) % 64), 128 + (c % 64)>>
        BY ONLY c \in Nat, c < 65536, <2>3, UtfThree, SMT
      <4> QED  BY ONLY <1>1, <4>1, SMT
    <3>2. /\ ByteAt(bytes, at + 0) = 224 + p /\ ByteAt(bytes, at + 1) = 128 + t
          /\ ByteAt(bytes, at + 2) = 128 + r
      BY <3>1, StandThree, SMT
    <3>3. /\ p < 16 /\ 224 + p \in Nat /\ 224 <= 224 + p /\ 224 + p <= 239
          /\ 128 + t \in Nat /\ 128 + r \in Nat
      BY ONLY <1>1, c \in Nat, c < 65536, SMT
    <3>4. (224 + p) % 16 = p /\ (128 + t) % 64 = t /\ (128 + r) % 64 = r
      BY ONLY <1>1, <3>3, Marks, SMT
    <3>5. Utf8ToUcs(bytes, at)
            = Ucs(((224 + p) % 16) * 4096 + ((128 + t) % 64) * 64 + ((128 + r) % 64), 3)
      BY ONLY at \in Nat, <3>2, <3>3, UcsThree, SMT
    <3>6. ((224 + p) % 16) * 4096 + ((128 + t) % 64) * 64 + ((128 + r) % 64) = c
      BY ONLY <1>1, <3>4, SMT
    <3>7. Len(<<224 + p, 128 + t, 128 + r>>) = 3
      BY ONLY SMT
    <3> QED  BY ONLY <3>1, <3>5, <3>6, <3>7
  <2> QED  BY ONLY <2>1, <2>2, <2>3, SMT
<1>3. Ucs(c, Len(UcsToUtf8(c))).minus = FALSE /\ Ucs(c, Len(UcsToUtf8(c))).c = c
  BY ONLY SMT DEF Ucs
<1>4. c % 65536 = c
  BY ONLY c \in Nat, c < 65536, SMT
<1> QED  BY ONLY <1>2, <1>3, <1>4, SMT DEF Wide

--------------------------------------------------------------------------------
(* Loops and texts: what the recursive functions of FlattenSeq and         *)
(* Unescaped give. The induction is over the least number, or the shortest *)
(* text, for which something fails.                                        *)

(* The numbers in their order.                                             *)
Below == {ss \in Nat \X Nat : ss[1] < ss[2]}
(* A set of numbers has a least one.                                       *)
LEMMA LeastNumber ==
    ASSUME NEW S \in SUBSET Nat, S # {}
    PROVE  \E n \in S : \A m \in S : n <= m
<1>1. IsWellFoundedOn(Below, Nat)
  <2>1. Below = OpToRel(<, Nat)
    BY Zenon DEF Below, OpToRel
  <2> QED  BY <2>1, NatLessThanWellFounded, Zenon
<1>2. S \subseteq Nat
  OBVIOUS
<1>3. PICK n \in S : \A m \in S : ~(<<m, n>> \in Below)
  BY ONLY <1>1, <1>2, S # {}, WFMin, Zenon
<1>4. ASSUME NEW m \in S PROVE n <= m
  <2>1. m \in Nat /\ n \in Nat
    BY <1>2
  <2>2. <<m, n>> \in Below <=> m < n
    BY <2>1 DEF Below
  <2> QED  BY <1>3, <2>1, <2>2
<1> QED  BY <1>4

(* A loop over the first m of n steps: f[i] is what it has after the i-th. *)
Loop(f, g, a, m) == f[0] = a /\ \A i \in 1..m : f[i] = g[<<f[i - 1], i>>]

(* Every loop that can take each step has a run to its end.                *)
LEMMA LoopEnds ==
    ASSUME NEW n \in Nat, NEW A, NEW a \in A, NEW g \in [A \X (1..n) -> A]
    PROVE  \E f \in [0..n -> A] : Loop(f, g, a, n)
<1> DEFINE stuck == {m \in 0..n : ~ \E f \in [0..m -> A] : Loop(f, g, a, m)}
<1> SUFFICES ASSUME stuck # {} PROVE FALSE
  OBVIOUS
<1>1. PICK m \in stuck : \A k \in stuck : m <= k
  <2>1. stuck \in SUBSET Nat
    OBVIOUS
  <2> QED  BY <2>1, LeastNumber
<1>2. m \in 0..n /\ ~ \E f \in [0..m -> A] : Loop(f, g, a, m)
  OBVIOUS
<1>3. CASE m = 0
  <2>1. [i \in 0..0 |-> a] \in [0..0 -> A] /\ Loop([i \in 0..0 |-> a], g, a, 0)
    BY DEF Loop
  <2> QED  BY <1>2, <1>3, <2>1
<1>4. CASE m # 0
  <2>1. m - 1 \in 0..n /\ m \in 1..n
    BY <1>2, <1>4
  <2>2. m - 1 \notin stuck
    BY <1>1, <2>1
  <2>3. PICK f \in [0..(m - 1) -> A] : Loop(f, g, a, m - 1)
    BY <2>1, <2>2
  <2> DEFINE h == [i \in 0..m |-> IF i = m THEN g[<<f[m - 1], m>>] ELSE f[i]]
  <2>4. f[m - 1] \in A /\ g[<<f[m - 1], m>>] \in A
    BY <2>1
  <2>5. h \in [0..m -> A]
    BY <2>1, <2>4
  <2>6. \A i \in 0..(m - 1) : h[i] = f[i]
    BY <2>1
  <2>7. h[m] = g[<<f[m - 1], m>>]
    BY <2>1
  <2> HIDE DEF h
  <2>8. h[0] = a
    BY <2>1, <2>3, <2>6 DEF Loop
  <2>9. ASSUME NEW i \in 1..m PROVE h[i] = g[<<h[i - 1], i>>]
    <3>1. i - 1 \in 0..(m - 1) /\ h[i - 1] = f[i - 1]
      BY <2>1, <2>6
    <3>2. CASE i = m
      BY <2>7, <3>1, <3>2
    <3>3. CASE i # m
      <4>1. i \in 1..(m - 1) /\ i \in 0..(m - 1)
        BY <2>1, <3>3
      <4> QED  BY <2>3, <2>6, <3>1, <4>1 DEF Loop
    <3> QED  BY <3>2, <3>3
  <2>10. Loop(h, g, a, m)
    BY <2>8, <2>9 DEF Loop
  <2> QED  BY <1>2, <2>5, <2>10
<1> QED  BY <1>3, <1>4

(* Two functions that agree on a set.                                      *)
Alike(f, h, S) == \A i \in S : f[i] = h[i]

(* Two functions that agree on 0, and at each number where they do at the  *)
(* one before, agree on all; and the same from 1, where nothing has to be  *)
(* known of the first.                                                     *)
LEMMA SameLoop ==
    ASSUME NEW n \in Nat, NEW f, NEW h, f[0] = h[0],
           \A i \in 1..n : f[i - 1] = h[i - 1] => f[i] = h[i]
    PROVE  Alike(f, h, 0..n)
<1> DEFINE apart == {i \in 0..n : f[i] # h[i]}
<1> SUFFICES ASSUME apart # {} PROVE FALSE
  BY DEF Alike
<1>1. PICK i \in apart : \A k \in apart : i <= k
  <2>1. apart \in SUBSET Nat
    OBVIOUS
  <2> QED  BY <2>1, LeastNumber
<1>2. i # 0 /\ i \in 1..n /\ i - 1 \in 0..n
  OBVIOUS
<1>3. i - 1 \notin apart
  BY <1>1, <1>2
<1> QED  BY <1>2, <1>3

LEMMA SameFromOne ==
    ASSUME NEW n \in Nat, NEW f, NEW h,
           \A i \in 1..n : (i = 1 \/ f[i - 1] = h[i - 1]) => f[i] = h[i]
    PROVE  Alike(f, h, 1..n)
<1> DEFINE apart == {i \in 1..n : f[i] # h[i]}
<1> SUFFICES ASSUME apart # {} PROVE FALSE
  BY DEF Alike
<1>1. PICK i \in apart : \A k \in apart : i <= k
  <2>1. apart \in SUBSET Nat
    OBVIOUS
  <2> QED  BY <2>1, LeastNumber
<1>2. i \in 1..n /\ f[i] # h[i]
  OBVIOUS
<1>3. i = 1 \/ (i - 1 \in 1..n /\ i - 1 \notin apart)
  BY <1>1, <1>2
<1> QED  BY <1>2, <1>3

(* The prefixes of a text that is put together.                            *)
Joins(f, s, m) == f[0] = <<>> /\ \A i \in 1..m : f[i] = f[i - 1] \o s[i]

(* A text of texts has its prefixes, and FlattenSeq is the last of them:   *)
(* it equals the function that it chooses.                                 *)
LEMMA JoinsExist ==
    ASSUME NEW S, NEW s \in Seq(Seq(S))
    PROVE  \E f \in [0..Len(s) -> Seq(S)] : Joins(f, s, Len(s))
<1> DEFINE n == Len(s)
           g == [x \in Seq(S) \X (1..n) |-> x[1] \o s[x[2]]]
<1>1. n \in Nat /\ <<>> \in Seq(S) /\ \A i \in 1..n : s[i] \in Seq(S)
  BY ElementOfSeq
<1>2. g \in [Seq(S) \X (1..n) -> Seq(S)]
  <2>1. ASSUME NEW x \in Seq(S) \X (1..n) PROVE x[1] \o s[x[2]] \in Seq(S)
    <3>1. x[1] \in Seq(S) /\ s[x[2]] \in Seq(S)
      BY <1>1
    <3> QED  BY <3>1, ConcatProperties
  <2> QED  BY <2>1
<1>3. \A x \in Seq(S), i \in 1..n : g[<<x, i>>] = x \o s[i]
  OBVIOUS
<1> HIDE DEF g, n
<1>4. PICK f \in [0..n -> Seq(S)] : Loop(f, g, <<>>, n)
  BY <1>1, <1>2, LoopEnds
<1>5. ASSUME NEW i \in 1..n PROVE f[i] = f[i - 1] \o s[i]
  <2>1. i - 1 \in 0..n
    BY <1>1
  <2>2. f[i - 1] \in Seq(S) /\ f[i] = g[<<f[i - 1], i>>]
    BY <1>4, <2>1 DEF Loop
  <2> QED  BY <1>3, <2>2
<1>6. Joins(f, s, n)
  BY <1>4, <1>5 DEF Joins, Loop
<1> QED  BY <1>6 DEF n

LEMMA FlattenIs ==
    ASSUME NEW S, NEW s \in Seq(Seq(S)), NEW f \in [0..Len(s) -> Seq(S)], Joins(f, s, Len(s))
    PROVE  FlattenSeq(s) = f[Len(s)]
<1> DEFINE n == Len(s)
           Again(h) == [i \in 1..n |-> IF i = 1 THEN s[i] ELSE h[i - 1] \o s[i]]
<1>1. n \in Nat /\ \A i \in 1..n : s[i] \in Seq(S)
  BY ElementOfSeq
<1>2. CASE n = 0
  <2>1. s = <<>>
    BY <1>2
  <2>2. FlattenSeq(s) = s
    BY <1>2, Zenon DEF FlattenSeq
  <2> QED  BY <1>2, <2>1, <2>2 DEF Joins
<1>3. CASE n # 0
  <2>0. n \in 1..n
    BY <1>1, <1>3
  <2>1. FlattenSeq(s) = (CHOOSE h : h = Again(h))[n]
    BY <1>3, Zenon DEF FlattenSeq
  <2> DEFINE k == [i \in 1..n |-> f[i]]
  <2>2. k = Again(k)
    <3>1. ASSUME NEW i \in 1..n PROVE k[i] = Again(k)[i]
      <4>1. CASE i = 1
        <5>1. f[1] = <<>> \o s[1]
          <6>1. f[0] = <<>> /\ f[i] = f[i - 1] \o s[i]
            BY DEF Joins
          <6>2. i - 1 = 0
            BY <4>1
          <6> QED  BY <4>1, <6>1, <6>2
        <5>2. <<>> \o s[1] = s[1]
          BY <1>1, <4>1, ConcatEmptySeq
        <5> QED  BY <4>1, <5>1, <5>2
      <4>2. CASE i # 1
        <5>1. i - 1 \in 1..n
          BY <1>1, <4>2
        <5>2. f[i] = f[i - 1] \o s[i]
          BY DEF Joins
        <5> QED  BY <4>2, <5>1, <5>2
      <4> QED  BY <4>1, <4>2
    <3> QED  BY <3>1
  <2> DEFINE h == CHOOSE hh : hh = Again(hh)
  <2>3. h = Again(h)
    BY <2>2, Zenon
  <2>4. \A i \in 1..n : h[i] = IF i = 1 THEN s[i] ELSE h[i - 1] \o s[i]
    <3> HIDE DEF h
    <3> QED  BY <2>3
  <2>5. \A i \in 1..n : k[i] = IF i = 1 THEN s[i] ELSE k[i - 1] \o s[i]
    <3> HIDE DEF k
    <3> QED  BY <2>2
  <2> HIDE DEF h, Again
  <2>6. ASSUME NEW i \in 1..n, i = 1 \/ h[i - 1] = k[i - 1] PROVE h[i] = k[i]
    <3>1. CASE i = 1
      BY <2>4, <2>5, <3>1
    <3>2. CASE i # 1
      <4> HIDE DEF k
      <4>1. h[i - 1] = k[i - 1]
        BY <2>6, <3>2
      <4>2. h[i] = h[i - 1] \o s[i]
        BY <2>4, <3>2
      <4>3. k[i] = k[i - 1] \o s[i]
        BY <2>5, <3>2
      <4> QED  BY ONLY <4>1, <4>2, <4>3
    <3> QED  BY <3>1, <3>2
  <2>7. h[n] = k[n]
    <3> HIDE DEF k, n
    <3>1. PICK a, b : a = h /\ b = k
      OBVIOUS
    <3>2. \A i \in 1..n : (i = 1 \/ a[i - 1] = b[i - 1]) => a[i] = b[i]
      BY ONLY <2>6, <3>1
    <3>3. n \in Nat
      BY <1>1
    <3>4. Alike(a, b, 1..n)
      BY ONLY <3>2, <3>3, SameFromOne
    <3> QED  BY ONLY <2>0, <3>1, <3>4 DEF Alike
  <2>8. k[n] = f[n]
    BY <2>0
  <2> QED  BY <2>1, <2>7, <2>8 DEF h
<1> QED  BY <1>2, <1>3

(* FlattenSeq of one text more.                                            *)
LEMMA FlattenAppend ==
    ASSUME NEW S, NEW s \in Seq(Seq(S)), NEW x \in Seq(S)
    PROVE  /\ FlattenSeq(s) \in Seq(S)
           /\ FlattenSeq(Append(s, x)) = FlattenSeq(s) \o x
<1> DEFINE t == Append(s, x)
           n == Len(s)
<1>1. /\ n \in Nat /\ t \in Seq(Seq(S)) /\ Len(t) = n + 1 /\ t[n + 1] = x
      /\ \A i \in 1..n : t[i] = s[i]
  BY AppendProperties
<1> HIDE DEF t
<1>2. PICK f \in [0..Len(t) -> Seq(S)] : Joins(f, t, Len(t))
  BY <1>1, JoinsExist
<1> DEFINE h == [i \in 0..n |-> f[i]]
<1>3. FlattenSeq(t) = f[n + 1] /\ f[n + 1] = f[n] \o x
  <2>1. FlattenSeq(t) = f[Len(t)]
    BY <1>1, <1>2, FlattenIs
  <2>2. n + 1 \in 1..Len(t) /\ (n + 1) - 1 = n
    BY <1>1
  <2>3. f[n + 1] = f[(n + 1) - 1] \o t[n + 1]
    BY <1>2, <2>2 DEF Joins
  <2> QED  BY <1>1, <2>1, <2>2, <2>3
<1>4. h \in [0..n -> Seq(S)]
  BY <1>1
<1>5. Joins(h, s, n)
  <2>1. h[0] = <<>>
    BY <1>1, <1>2 DEF Joins
  <2>2. ASSUME NEW i \in 1..n PROVE h[i] = h[i - 1] \o s[i]
    <3>1. i \in 1..Len(t) /\ i \in 0..n /\ i - 1 \in 0..n
      BY <1>1
    <3>2. f[i] = f[i - 1] \o t[i]
      BY <1>2, <3>1 DEF Joins
    <3> QED  BY <1>1, <3>1, <3>2
  <2> HIDE DEF h
  <2> QED  BY <2>1, <2>2 DEF Joins
<1>6. h[n] = f[n] /\ h[n] \in Seq(S)
  BY <1>1, <1>4
<1> HIDE DEF h
<1>7. FlattenSeq(s) = h[n]
  BY <1>4, <1>5, FlattenIs
<1> QED  BY <1>3, <1>6, <1>7 DEF t

(* A set of texts that has the empty one, and with a text every one that   *)
(* is longer by a character, has them all.                                 *)
LEMMA TextInduction ==
    ASSUME NEW A, NEW T, <<>> \in T,
           \A s \in Seq(A), x \in A : s \in T => Append(s, x) \in T
    PROVE  \A s \in Seq(A) : s \in T
<1> DEFINE missing == {Len(s) : s \in {t \in Seq(A) : t \notin T}}
<1> SUFFICES ASSUME missing # {} PROVE FALSE
  OBVIOUS
<1>1. PICK n \in missing : \A k \in missing : n <= k
  <2>1. missing \in SUBSET Nat
    OBVIOUS
  <2> QED  BY <2>1, LeastNumber
<1>2. PICK s \in Seq(A) : s \notin T /\ n = Len(s)
  OBVIOUS
<1>3. s # <<>>
  BY <1>2
<1>4. PICK t \in Seq(A), x \in A : s = Append(t, x)
  BY <1>3, SequenceEmptyOrAppend
<1>5. t \notin T
  BY <1>2, <1>4
<1>6. Len(t) \in missing
  BY <1>4, <1>5
<1> HIDE DEF missing
<1>7. n <= Len(t) /\ n = Len(t) + 1 /\ Len(t) \in Nat
  BY <1>1, <1>2, <1>4, <1>6, AppendProperties
<1> QED  BY <1>7

(* Each character of s replaced by what g says.                            *)
Mapped(g, s) == FlattenSeq([i \in DOMAIN s |-> g[s[i]]])
Replaces(g, A, S) == g \in [A -> Seq(S)]

(* Mapped of one character more, of none, and of two texts.                *)
LEMMA MappedAppend ==
    ASSUME NEW A, NEW S, NEW g, Replaces(g, A, S), NEW s \in Seq(A), NEW x \in A
    PROVE  /\ Mapped(g, s) \in Seq(S)
           /\ Mapped(g, Append(s, x)) = Mapped(g, s) \o g[x]
<1> DEFINE n == Len(s)
           t == Append(s, x)
           p == [i \in DOMAIN s |-> g[s[i]]]
           q == [i \in DOMAIN t |-> g[t[i]]]
<1>0. g \in [A -> Seq(S)]
  BY DEF Replaces
<1>1. /\ n \in Nat /\ t \in Seq(A) /\ Len(t) = n + 1 /\ t[n + 1] = x
      /\ \A i \in 1..n : t[i] = s[i] /\ s[i] \in A
      /\ DOMAIN s = 1..n /\ DOMAIN t = 1..(n + 1)
  BY AppendProperties, ElementOfSeq
<1> HIDE DEF t, n
<1>2. p \in Seq(Seq(S)) /\ Len(p) = n /\ \A i \in 1..n : p[i] = g[s[i]]
  <2>1. p \in [1..n -> Seq(S)]
    BY <1>0, <1>1
  <2> QED  BY <1>1, <2>1
<1>3. q \in Seq(Seq(S)) /\ Len(q) = n + 1 /\ \A i \in 1..(n + 1) : q[i] = g[t[i]]
  <2>1. \A i \in 1..(n + 1) : t[i] \in A
    BY <1>1, ElementOfSeq
  <2>2. q \in [1..(n + 1) -> Seq(S)]
    BY <1>0, <1>1, <2>1
  <2>3. n + 1 \in Nat
    BY <1>1
  <2> QED  BY <1>1, <2>2, <2>3
<1> HIDE DEF p, q
<1>4. g[x] \in Seq(S)
  BY <1>0
<1>5. q = Append(p, g[x])
  <2> DEFINE r == Append(p, g[x])
  <2>1. /\ r \in Seq(Seq(S)) /\ Len(r) = n + 1 /\ r[n + 1] = g[x]
        /\ \A i \in 1..n : r[i] = p[i]
    BY <1>2, <1>4, AppendProperties
  <2> HIDE DEF r
  <2>2. ASSUME NEW i \in 1..(n + 1) PROVE q[i] = r[i]
    <3>1. CASE i = n + 1
      BY <1>1, <1>3, <2>1, <3>1
    <3>2. CASE i # n + 1
      <4>1. i \in 1..n
        BY <1>1, <3>2
      <4>2. q[i] = g[t[i]] /\ t[i] = s[i]
        BY ONLY <1>1, <1>3, <4>1, i \in 1..(n + 1)
      <4>3. r[i] = p[i] /\ p[i] = g[s[i]]
        BY ONLY <1>2, <2>1, <4>1
      <4> QED  BY ONLY <4>2, <4>3
    <3> QED  BY <3>1, <3>2
  <2>3. q = r
    BY <1>3, <2>1, <2>2, SeqEqual
  <2> QED  BY <2>3 DEF r
<1>6. FlattenSeq(p) \in Seq(S) /\ FlattenSeq(q) = FlattenSeq(p) \o g[x]
  BY <1>2, <1>4, <1>5, FlattenAppend
<1> QED  BY <1>6 DEF Mapped, p, q, t

LEMMA MappedEmpty == ASSUME NEW g PROVE Mapped(g, <<>>) = <<>>
<1>1. [i \in DOMAIN <<>> |-> g[<<>>[i]]] = <<>>
  OBVIOUS
<1>2. Len(<<>>) = 0
  OBVIOUS
<1>3. FlattenSeq(<<>>) = <<>>
  BY <1>2, Zenon DEF FlattenSeq
<1> QED  BY <1>1, <1>3 DEF Mapped

LEMMA MappedIs ==
    ASSUME NEW A, NEW S, NEW g, Replaces(g, A, S), NEW s \in Seq(A)
    PROVE  Mapped(g, s) \in Seq(S)
<1>1. CASE A = {}
  <2>1. s = <<>>
    BY <1>1, EmptySeq, ElementOfSeq
  <2>2. Mapped(g, <<>>) = <<>> /\ <<>> \in Seq(S)
    BY MappedEmpty, EmptySeq, Zenon
  <2> QED  BY <2>1, <2>2
<1>2. CASE A # {}
  <2>1. PICK x \in A : TRUE
    BY <1>2
  <2> QED  BY <2>1, MappedAppend
<1> QED  BY <1>1, <1>2

(* A character behind the second of two texts is behind both.              *)
LEMMA ConcatAppend ==
    ASSUME NEW A, NEW a \in Seq(A), NEW b \in Seq(A), NEW x \in A
    PROVE  a \o Append(b, x) = Append(a \o b, x)
<1>1. Append(b, x) = b \o <<x>> /\ Append(a \o b, x) = (a \o b) \o <<x>> /\ <<x>> \in Seq(A)
      /\ a \o b \in Seq(A)
  BY ConcatProperties, AppendIsConcat
<1>2. a \o (b \o <<x>>) = (a \o b) \o <<x>>
  BY <1>1, ConcatAssociative
<1> QED  BY <1>1, <1>2

AreOver(S, u, v, w) == u \in Seq(S) /\ v \in Seq(S) /\ w \in Seq(S)

(* Where three texts meet.                                                 *)
LEMMA ThreeParts ==
    ASSUME NEW S, NEW u, NEW v, NEW w, AreOver(S, u, v, w)
    PROVE  (u \o v) \o w = u \o (v \o w)
  BY ConcatAssociative DEF AreOver

LEMMA MappedConcat ==
    ASSUME NEW A, NEW S, NEW g, Replaces(g, A, S), NEW a \in Seq(A), NEW b \in Seq(A)
    PROVE  Mapped(g, a \o b) = Mapped(g, a) \o Mapped(g, b)
<1> DEFINE T == {t \in Seq(A) : Mapped(g, a \o t) = Mapped(g, a) \o Mapped(g, t)}
<1>1. <<>> \in T
  <2>1. a \o <<>> = a /\ Mapped(g, a) \o <<>> = Mapped(g, a)
    BY MappedIs, ConcatEmptySeq
  <2>2. Mapped(g, <<>>) = <<>>
    BY MappedEmpty, Zenon
  <2>3. <<>> \in Seq(A)
    OBVIOUS
  <2> QED  BY <2>1, <2>2, <2>3
<1>2. ASSUME NEW s \in Seq(A), NEW x \in A, s \in T PROVE Append(s, x) \in T
  <2>1. a \o Append(s, x) = Append(a \o s, x)
    BY ConcatAppend
  <2>2. a \o s \in Seq(A) /\ Append(s, x) \in Seq(A)
    BY ConcatProperties
  <2>3. Mapped(g, Append(a \o s, x)) = Mapped(g, a \o s) \o g[x]
    <3>1. PICK w \in Seq(A) : w = a \o s
      BY <2>2
    <3>2. Mapped(g, Append(w, x)) = Mapped(g, w) \o g[x]
      BY MappedAppend
    <3> QED  BY ONLY <3>1, <3>2
  <2>4. Mapped(g, Append(s, x)) = Mapped(g, s) \o g[x]
    BY MappedAppend
  <2>5. Mapped(g, a \o s) = Mapped(g, a) \o Mapped(g, s)
    BY <1>2
  <2>6. (Mapped(g, a) \o Mapped(g, s)) \o g[x] = Mapped(g, a) \o (Mapped(g, s) \o g[x])
    <3>1. Mapped(g, a) \in Seq(S) /\ Mapped(g, s) \in Seq(S) /\ g[x] \in Seq(S)
      BY MappedIs DEF Replaces
    <3>2. PICK u, v, w : u = Mapped(g, a) /\ v = Mapped(g, s) /\ w = g[x]
      OBVIOUS
    <3>3. AreOver(S, u, v, w)
      BY ONLY <3>1, <3>2 DEF AreOver
    <3>4. (u \o v) \o w = u \o (v \o w)
      BY ONLY <3>3, ThreeParts
    <3> QED  BY ONLY <3>2, <3>4
  <2>7. Mapped(g, a \o Append(s, x)) = Mapped(g, a) \o Mapped(g, Append(s, x))
    BY <2>1, <2>3, <2>4, <2>5, <2>6
  <2> QED  BY <2>2, <2>7
<1> HIDE DEF T
<1>3. b \in T
  BY <1>1, <1>2, TextInduction
<1> QED  BY <1>3 DEF T

--------------------------------------------------------------------------------
(* Escapes and conversions of whole texts.                                 *)

(* The characters with a letter of their own, and that Meant finds them    *)
(* from it.                                                                *)
LEMMA NamedIs ==
    /\ DOMAIN Named = {8, 9, 10, 12, 13}
    /\ EscapeLetters = {98, 102, 110, 114, 116}
    /\ \A c \in DOMAIN Named : Named[c] \in EscapeLetters /\ Meant(Named[c]) = c
    /\ Meant(Quote) = Quote /\ Meant(Backslash) = Backslash
<1>1. /\ DOMAIN Named = {8, 9, 10, 12, 13}
      /\ Named[8] = 98 /\ Named[9] = 116 /\ Named[10] = 110 /\ Named[12] = 102 /\ Named[13] = 114
  BY DEF Named
<1>2. EscapeLetters = {98, 102, 110, 114, 116}
  BY <1>1 DEF EscapeLetters
<1>3. \A c \in DOMAIN Named : Named[c] \in EscapeLetters
  BY DEF EscapeLetters
<1>4. ASSUME NEW c \in DOMAIN Named PROVE Meant(Named[c]) = c
  <2>1. \A n \in DOMAIN Named : Named[n] = Named[c] => n = c
    BY <1>1
  <2>2. Meant(Named[c]) = CHOOSE n \in DOMAIN Named : Named[n] = Named[c]
    BY <1>3 DEF Meant
  <2> QED  BY <2>1, <2>2
<1>5. Meant(Quote) = Quote /\ Meant(Backslash) = Backslash
  BY <1>2 DEF Meant, Quote, Backslash
<1> QED  BY <1>1, <1>2, <1>3, <1>4, <1>5

(* The conversions of a text are those of its characters.                  *)
Utf == [c \in Nat |-> UcsToUtf8(c)]
Escapes == [c \in Nat |-> EscapedChar(c)]

Special(c) == c \in {Quote, Backslash} \cup DOMAIN Named

(* A character is escaped by a backslash and a letter that means it, or it *)
(* stays.                                                                  *)
LEMMA EscapedIs ==
    ASSUME NEW c \in Nat
    PROVE  /\ EscapedChar(c) \in Seq(Nat)
           /\ ~Special(c) => EscapedChar(c) = <<c>>
           /\ Special(c) => \E l \in EscapeLetters \cup {Quote, Backslash} :
                                EscapedChar(c) = <<Backslash, l>> /\ Meant(l) = c
<1>1. \A l \in EscapeLetters \cup {Quote, Backslash} : l \in Nat
  BY NamedIs DEF Quote, Backslash
<1>2. CASE c \in {Quote, Backslash}
  <2>1. EscapedChar(c) = <<Backslash, c>> /\ Meant(c) = c
    BY <1>2, NamedIs DEF EscapedChar
  <2> QED  BY <1>1, <1>2, <2>1 DEF Special
<1>3. CASE c \notin {Quote, Backslash} /\ c \in DOMAIN Named
  <2>1. EscapedChar(c) = <<Backslash, Named[c]>> /\ Named[c] \in EscapeLetters
        /\ Meant(Named[c]) = c
    BY <1>3, NamedIs DEF EscapedChar
  <2> QED  BY <1>1, <1>3, <2>1 DEF Special
<1>4. CASE ~Special(c)
  BY <1>4 DEF EscapedChar, Special
<1> QED  BY <1>2, <1>3, <1>4 DEF Special

(* ToUtf8 and EscapedText replace each character.                          *)
LEMMA Conversions ==
    /\ Replaces(Utf, Nat, Nat) /\ Replaces(Escapes, Nat, Nat)
    /\ \A s \in Seq(Nat) : ToUtf8(s) = Mapped(Utf, s) /\ EscapedText(s) = Mapped(Escapes, s)
<1>1. Replaces(Utf, Nat, Nat)
  BY UtfBytes DEF Utf, Replaces
<1>2. Replaces(Escapes, Nat, Nat)
  BY EscapedIs DEF Escapes, Replaces
<1>3. ASSUME NEW s \in Seq(Nat)
      PROVE  ToUtf8(s) = Mapped(Utf, s) /\ EscapedText(s) = Mapped(Escapes, s)
  <2>1. \A i \in DOMAIN s : s[i] \in Nat
    BY ElementOfSeq
  <2>2. [i \in DOMAIN s |-> UcsToUtf8(s[i])] = [i \in DOMAIN s |-> Utf[s[i]]]
    BY <2>1 DEF Utf
  <2>3. [i \in DOMAIN s |-> EscapedChar(s[i])] = [i \in DOMAIN s |-> Escapes[s[i]]]
    BY <2>1 DEF Escapes
  <2> QED  BY ONLY <2>2, <2>3, Zenon DEF ToUtf8, EscapedText, Mapped
<1> QED  BY <1>1, <1>2, <1>3

(* What ToUtf8 gives for texts that are put together.                      *)
LEMMA ToUtf8Is ==
    /\ ToUtf8(<<>>) = <<>>
    /\ \A s \in Seq(Nat) : ToUtf8(s) \in Seq(Nat)
    /\ \A c \in Nat : ToUtf8(<<c>>) = UcsToUtf8(c)
    /\ \A s \in Seq(Nat), c \in Nat : ToUtf8(Append(s, c)) = ToUtf8(s) \o UcsToUtf8(c)
    /\ \A s \in Seq(Nat), t \in Seq(Nat) : ToUtf8(s \o t) = ToUtf8(s) \o ToUtf8(t)
<1>1. <<>> \in Seq(Nat) /\ \A c \in Nat : Utf[c] = UcsToUtf8(c) /\ UcsToUtf8(c) \in Seq(Nat)
  BY Conversions, UtfBytes DEF Utf
<1>2. ToUtf8(<<>>) = <<>>
  BY <1>1, Conversions, MappedEmpty
<1>3. \A s \in Seq(Nat) : ToUtf8(s) \in Seq(Nat)
  BY Conversions, MappedIs
<1>4. ASSUME NEW s \in Seq(Nat), NEW c \in Nat
      PROVE  ToUtf8(Append(s, c)) = ToUtf8(s) \o UcsToUtf8(c)
  <2>1. Mapped(Utf, Append(s, c)) = Mapped(Utf, s) \o Utf[c]
    <3>1. PICK g : g = Utf
      OBVIOUS
    <3>2. Replaces(g, Nat, Nat)
      BY <3>1, Conversions
    <3>3. Mapped(g, Append(s, c)) = Mapped(g, s) \o g[c]
      BY ONLY <3>2, s \in Seq(Nat), c \in Nat, MappedAppend
    <3> QED  BY ONLY <3>1, <3>3
  <2>2. Append(s, c) \in Seq(Nat)
    BY AppendProperties
  <2> QED  BY <1>1, <2>1, <2>2, Conversions
<1>5. ASSUME NEW c \in Nat PROVE ToUtf8(<<c>>) = UcsToUtf8(c)
  <2>1. Append(<<>>, c) = <<c>> /\ <<>> \o UcsToUtf8(c) = UcsToUtf8(c)
    BY <1>1, ConcatEmptySeq
  <2>2. ToUtf8(Append(<<>>, c)) = ToUtf8(<<>>) \o UcsToUtf8(c)
    BY <1>1, <1>4
  <2> QED  BY <1>2, <2>1, <2>2
<1>6. ASSUME NEW s \in Seq(Nat), NEW t \in Seq(Nat) PROVE ToUtf8(s \o t) = ToUtf8(s) \o ToUtf8(t)
  <2>1. Mapped(Utf, s \o t) = Mapped(Utf, s) \o Mapped(Utf, t)
    BY Conversions, MappedConcat
  <2>2. s \o t \in Seq(Nat)
    BY ConcatProperties
  <2> QED  BY <2>1, <2>2, Conversions
<1> QED  BY <1>2, <1>3, <1>4, <1>5, <1>6

(* What EscapedText gives for texts that are put together.                 *)
LEMMA EscapedTextIs ==
    /\ EscapedText(<<>>) = <<>>
    /\ \A s \in Seq(Nat) : EscapedText(s) \in Seq(Nat)
    /\ \A c \in Nat : EscapedText(<<c>>) = EscapedChar(c)
    /\ \A s \in Seq(Nat), c \in Nat : EscapedText(Append(s, c)) = EscapedText(s) \o EscapedChar(c)
    /\ \A s \in Seq(Nat), t \in Seq(Nat) : EscapedText(s \o t) = EscapedText(s) \o EscapedText(t)
<1>1. <<>> \in Seq(Nat) /\ \A c \in Nat : Escapes[c] = EscapedChar(c) /\ EscapedChar(c) \in Seq(Nat)
  BY Conversions, EscapedIs DEF Escapes
<1>2. EscapedText(<<>>) = <<>>
  BY <1>1, Conversions, MappedEmpty
<1>3. \A s \in Seq(Nat) : EscapedText(s) \in Seq(Nat)
  BY Conversions, MappedIs
<1>4. ASSUME NEW s \in Seq(Nat), NEW c \in Nat
      PROVE  EscapedText(Append(s, c)) = EscapedText(s) \o EscapedChar(c)
  <2>1. Mapped(Escapes, Append(s, c)) = Mapped(Escapes, s) \o Escapes[c]
    <3>1. PICK g : g = Escapes
      OBVIOUS
    <3>2. Replaces(g, Nat, Nat)
      BY <3>1, Conversions
    <3>3. Mapped(g, Append(s, c)) = Mapped(g, s) \o g[c]
      BY ONLY <3>2, s \in Seq(Nat), c \in Nat, MappedAppend
    <3> QED  BY ONLY <3>1, <3>3
  <2>2. Append(s, c) \in Seq(Nat)
    BY AppendProperties
  <2> QED  BY <1>1, <2>1, <2>2, Conversions
<1>5. ASSUME NEW c \in Nat PROVE EscapedText(<<c>>) = EscapedChar(c)
  <2>1. Append(<<>>, c) = <<c>> /\ <<>> \o EscapedChar(c) = EscapedChar(c)
    BY <1>1, ConcatEmptySeq
  <2>2. EscapedText(Append(<<>>, c)) = EscapedText(<<>>) \o EscapedChar(c)
    BY <1>1, <1>4
  <2> QED  BY <1>2, <2>1, <2>2
<1>6. ASSUME NEW s \in Seq(Nat), NEW t \in Seq(Nat)
      PROVE  EscapedText(s \o t) = EscapedText(s) \o EscapedText(t)
  <2>1. Mapped(Escapes, s \o t) = Mapped(Escapes, s) \o Mapped(Escapes, t)
    BY Conversions, MappedConcat
  <2>2. s \o t \in Seq(Nat)
    BY ConcatProperties
  <2> QED  BY <2>1, <2>2, Conversions
<1> QED  BY <1>2, <1>3, <1>4, <1>5, <1>6

(* What has no character that is escaped stays as it is.                   *)
Plain(s) == \A i \in 1..Len(s) : ~Special(s[i])

LEMMA PlainStays == ASSUME NEW s \in Seq(Nat), Plain(s) PROVE EscapedText(s) = s
<1> DEFINE T == {t \in Seq(Nat) : Plain(t) => EscapedText(t) = t}
<1>1. <<>> \in T
  BY EscapedTextIs
<1>2. ASSUME NEW t \in Seq(Nat), NEW c \in Nat, t \in T PROVE Append(t, c) \in T
  <2>1. Append(t, c) \in Seq(Nat)
    BY AppendProperties
  <2>2. ASSUME Plain(Append(t, c)) PROVE EscapedText(Append(t, c)) = Append(t, c)
    <3>1. Plain(t) /\ ~Special(c)
      <4>1. /\ Len(Append(t, c)) = Len(t) + 1 /\ Append(t, c)[Len(t) + 1] = c /\ Len(t) \in Nat
            /\ \A i \in 1..Len(t) : Append(t, c)[i] = t[i]
        BY AppendProperties
      <4>2. \A i \in 1..(Len(t) + 1) : ~Special(Append(t, c)[i])
        BY ONLY <2>2, <4>1 DEF Plain
      <4>3. Len(t) + 1 \in 1..(Len(t) + 1) /\ \A i \in 1..Len(t) : i \in 1..(Len(t) + 1)
        BY ONLY <4>1
      <4> QED  BY ONLY <4>1, <4>2, <4>3 DEF Plain
    <3>2. EscapedText(Append(t, c)) = t \o <<c>>
      BY <1>2, <3>1, EscapedTextIs, EscapedIs
    <3> QED  BY <3>2, AppendIsConcat
  <2> QED  BY <2>1, <2>2
<1> HIDE DEF T
<1>3. s \in T
  BY <1>1, <1>2, TextInduction
<1> QED  BY <1>3 DEF T

(* One character: its bytes that are not ASCII need no escape.             *)
LEMMA CharCommutes ==
    ASSUME NEW c \in Nat PROVE ToUtf8(EscapedChar(c)) = EscapedText(UcsToUtf8(c))
<1>1. CASE Special(c)
  <2>1. PICK l \in EscapeLetters \cup {Quote, Backslash} : EscapedChar(c) = <<Backslash, l>>
    BY <1>1, EscapedIs
  <2>2. l \in 0..127 /\ Backslash \in 0..127 /\ c < 128
    BY <1>1, NamedIs DEF Quote, Backslash, Special
  <2>3. UcsToUtf8(c) = <<c>> /\ UcsToUtf8(l) = <<l>> /\ UcsToUtf8(Backslash) = <<Backslash>>
    BY <2>2, UtfOne
  <2>4. <<Backslash, l>> = Append(<<Backslash>>, l) /\ <<Backslash, l>> = <<Backslash>> \o <<l>>
    OBVIOUS
  <2>5. <<Backslash>> \in Seq(Nat) /\ l \in Nat /\ Backslash \in Nat
    BY <2>2
  <2>6. ToUtf8(<<Backslash, l>>) = <<Backslash, l>>
    <3>1. ToUtf8(Append(<<Backslash>>, l)) = ToUtf8(<<Backslash>>) \o UcsToUtf8(l)
      BY ONLY <2>5, ToUtf8Is
    <3>2. ToUtf8(<<Backslash>>) = <<Backslash>>
      BY ONLY <2>3, <2>5, ToUtf8Is
    <3> QED  BY ONLY <2>3, <2>4, <3>1, <3>2
  <2> QED  BY <2>1, <2>3, <2>6, EscapedTextIs
<1>2. CASE ~Special(c)
  <2>1. EscapedChar(c) = <<c>>
    BY <1>2, EscapedIs
  <2>2. ToUtf8(EscapedChar(c)) = UcsToUtf8(c)
    BY <2>1, ToUtf8Is
  <2>3. UcsToUtf8(c) \in Seq(Nat) /\ Plain(UcsToUtf8(c))
    <3>1. CASE c < 128
      <4>1. UcsToUtf8(c) = <<c>>
        BY <3>1, UtfBytes
      <4> QED  BY <1>2, <4>1 DEF Plain
    <3>2. CASE ~(c < 128)
      <4>1. \A b : Special(b) => b < 128
        BY NamedIs DEF Special, Quote, Backslash
      <4> QED  BY <3>2, <4>1, UtfBytes DEF Plain
    <3> QED  BY <3>1, <3>2
  <2> QED  BY <2>2, <2>3, PlainStays
<1> QED  BY <1>1, <1>2

(* To escape the characters of a text is to escape its bytes.              *)
LEMMA EscapeCommutes ==
    ASSUME NEW s \in Seq(Nat) PROVE ToUtf8(EscapedText(s)) = EscapedText(ToUtf8(s))
<1> DEFINE T == {t \in Seq(Nat) : ToUtf8(EscapedText(t)) = EscapedText(ToUtf8(t))}
<1>1. <<>> \in T
  BY EscapedTextIs, ToUtf8Is
<1>2. ASSUME NEW t \in Seq(Nat), NEW c \in Nat, t \in T PROVE Append(t, c) \in T
  <2>1. /\ Append(t, c) \in Seq(Nat) /\ EscapedText(t) \in Seq(Nat) /\ ToUtf8(t) \in Seq(Nat)
        /\ EscapedChar(c) \in Seq(Nat) /\ UcsToUtf8(c) \in Seq(Nat)
    BY AppendProperties, EscapedTextIs, ToUtf8Is, EscapedIs, UtfBytes
  <2>2. ToUtf8(EscapedText(Append(t, c))) = ToUtf8(EscapedText(t)) \o ToUtf8(EscapedChar(c))
    <3>1. EscapedText(Append(t, c)) = EscapedText(t) \o EscapedChar(c)
      BY EscapedTextIs
    <3> QED  BY <2>1, <3>1, ToUtf8Is
  <2>3. EscapedText(ToUtf8(Append(t, c))) = EscapedText(ToUtf8(t)) \o EscapedText(UcsToUtf8(c))
    <3>1. ToUtf8(Append(t, c)) = ToUtf8(t) \o UcsToUtf8(c)
      BY ToUtf8Is
    <3> QED  BY <2>1, <3>1, EscapedTextIs
  <2> QED  BY <1>2, <2>1, <2>2, <2>3, CharCommutes
<1> HIDE DEF T
<1>3. s \in T
  BY <1>1, <1>2, TextInduction
<1> QED  BY <1>3 DEF T

--------------------------------------------------------------------------------
(* unescape undoes escape.                                                 *)

(* wunescape as a run over the text: what it has after each character.     *)
Scanned(res) == [escp |-> FALSE, res |-> res]
Runs(f, w, n) == f[0] = Scanned(<<>>) /\ \A i \in 1..n : f[i] = UnescapeChar(f[i - 1], w[i])
Scans(w, r) == \E f : Runs(f, w, Len(w)) /\ f[Len(w)] = r

(* Unescaped is where the run ends, for runs are alike.                    *)
LEMMA ScansIs ==
    ASSUME NEW w \in Seq(Nat), NEW r, Scans(w, r)
    PROVE  Unescaped(w) = r.res
<1> DEFINE n == Len(w)
           Again(h) == [i \in 0..n |-> IF i = 0 THEN [escp |-> FALSE, res |-> <<>>]
                                                 ELSE UnescapeChar(h[i - 1], w[i])]
<1>1. n \in Nat
  OBVIOUS
<1>2. PICK f : Runs(f, w, n) /\ f[n] = r
  BY DEF Scans
<1>3. Unescaped(w) = (CHOOSE h : h = Again(h))[n].res
  BY Zenon DEF Unescaped
<1> DEFINE k == [i \in 0..n |-> f[i]]
<1>4. k = Again(k)
  <2>1. ASSUME NEW i \in 0..n PROVE k[i] = Again(k)[i]
    <3>1. CASE i = 0
      BY <1>2, <3>1 DEF Runs, Scanned
    <3>2. CASE i # 0
      <4>1. i \in 1..n /\ i - 1 \in 0..n
        BY <1>1, <3>2
      <4>2. f[i] = UnescapeChar(f[i - 1], w[i])
        BY <1>2, <4>1 DEF Runs
      <4> QED  BY <3>2, <4>1, <4>2
    <3> QED  BY <3>1, <3>2
  <2> QED  BY <2>1
<1> DEFINE h == CHOOSE hh : hh = Again(hh)
<1>5. h = Again(h)
  BY <1>4, Zenon
<1>6. \A i \in 0..n : h[i] = IF i = 0 THEN [escp |-> FALSE, res |-> <<>>]
                                       ELSE UnescapeChar(h[i - 1], w[i])
  <2> HIDE DEF h
  <2> QED  BY <1>5
<1>7. \A i \in 0..n : k[i] = IF i = 0 THEN [escp |-> FALSE, res |-> <<>>]
                                       ELSE UnescapeChar(k[i - 1], w[i])
  <2> HIDE DEF k
  <2> QED  BY <1>4
<1>8. k[n] = f[n]
  BY <1>1
<1> HIDE DEF h, k, Again
<1>9. h[n] = k[n]
  <2>1. PICK a, b : a = h /\ b = k
    OBVIOUS
  <2>2. a[0] = b[0]
    <3>1. 0 \in 0..n
      BY <1>1
    <3> QED  BY ONLY <1>6, <1>7, <2>1, <3>1
  <2>3. \A i \in 1..n : a[i - 1] = b[i - 1] => a[i] = b[i]
    <3>1. ASSUME NEW i \in 1..n, a[i - 1] = b[i - 1] PROVE a[i] = b[i]
      <4>1. i \in 0..n /\ i # 0
        BY <1>1
      <4>2. a[i] = UnescapeChar(a[i - 1], w[i]) /\ b[i] = UnescapeChar(b[i - 1], w[i])
        BY ONLY <1>6, <1>7, <2>1, <4>1
      <4> QED  BY ONLY <3>1, <4>2
    <3> QED  BY <3>1
  <2>4. Alike(a, b, 0..n)
    BY ONLY <1>1, <2>2, <2>3, SameLoop
  <2> QED  BY <1>1, <2>1, <2>4 DEF Alike
<1> QED  BY <1>2, <1>3, <1>8, <1>9 DEF h

(* The run over nothing, and over one character more.                      *)
LEMMA ScansEmpty == Scans(<<>>, Scanned(<<>>))
<1> DEFINE f == [i \in 0..0 |-> Scanned(<<>>)]
<1>1. Len(<<>>) = 0 /\ f[0] = Scanned(<<>>)
  OBVIOUS
<1> HIDE DEF f
<1>2. Runs(f, <<>>, 0)
  BY <1>1 DEF Runs
<1> QED  BY <1>1, <1>2 DEF Scans

LEMMA ScansAppend ==
    ASSUME NEW w \in Seq(Nat), NEW r, NEW c \in Nat, Scans(w, r)
    PROVE  Scans(Append(w, c), UnescapeChar(r, c))
<1> DEFINE n == Len(w)
           t == Append(w, c)
<1>1. n \in Nat /\ Len(t) = n + 1 /\ t[n + 1] = c /\ \A i \in 1..n : t[i] = w[i]
  BY AppendProperties
<1>2. PICK f : Runs(f, w, n) /\ f[n] = r
  BY DEF Scans
<1> HIDE DEF n, t
<1> DEFINE g == [i \in 0..n + 1 |-> IF i = n + 1 THEN UnescapeChar(r, c) ELSE f[i]]
<1>3. /\ g[n + 1] = UnescapeChar(r, c)
      /\ \A i \in 0..n : g[i] = f[i]
  BY <1>1
<1> HIDE DEF g
<1>4. g[0] = Scanned(<<>>)
  BY <1>1, <1>2, <1>3 DEF Runs
<1>5. ASSUME NEW i \in 1..n + 1 PROVE g[i] = UnescapeChar(g[i - 1], t[i])
  <2>1. CASE i = n + 1
    <3>1. i - 1 = n /\ n \in 0..n
      BY <1>1, <2>1
    <3> QED  BY <1>1, <1>2, <1>3, <2>1, <3>1
  <2>2. CASE i # n + 1
    <3>1. i \in 1..n /\ i \in 0..n /\ i - 1 \in 0..n
      BY <1>1, <2>2
    <3>2. f[i] = UnescapeChar(f[i - 1], w[i])
      BY <1>2, <3>1 DEF Runs
    <3> QED  BY <1>1, <1>3, <3>1, <3>2
  <2> QED  BY <2>1, <2>2
<1>6. Runs(g, t, n + 1)
  BY <1>4, <1>5 DEF Runs
<1>7. Scans(t, UnescapeChar(r, c))
  BY <1>1, <1>3, <1>6 DEF Scans
<1> QED  BY <1>7 DEF t

(* A character that stands for itself, and two of an escape.               *)
LEMMA UnescapeStep ==
    ASSUME NEW res, NEW c
    PROVE  /\ c # Backslash => UnescapeChar(Scanned(res), c) = Scanned(Append(res, c))
           /\ UnescapeChar(UnescapeChar(Scanned(res), Backslash), c)
                = Scanned(Append(res, Meant(c)))
  BY DEF UnescapeChar, Scanned

(* The run over an escaped text ends with the text.                        *)
LEMMA ScansEscaped ==
    ASSUME NEW s \in Seq(Nat) PROVE Scans(EscapedText(s), Scanned(s))
<1> DEFINE T == {t \in Seq(Nat) : Scans(EscapedText(t), Scanned(t))}
<1>1. <<>> \in T
  BY EscapedTextIs, ScansEmpty
<1>2. ASSUME NEW t \in Seq(Nat), NEW c \in Nat, t \in T PROVE Append(t, c) \in T
  <2> DEFINE e == EscapedText(t)
  <2>1. /\ Append(t, c) \in Seq(Nat) /\ e \in Seq(Nat) /\ Scans(e, Scanned(t))
        /\ EscapedText(Append(t, c)) = e \o EscapedChar(c)
    BY <1>2, AppendProperties, EscapedTextIs
  <2> HIDE DEF e
  <2>2. CASE ~Special(c)
    <3>1. EscapedChar(c) = <<c>> /\ c # Backslash
      BY <2>2, EscapedIs DEF Special
    <3>2. e \o <<c>> = Append(e, c)
      BY <2>1, AppendIsConcat
    <3>3. Scans(Append(e, c), UnescapeChar(Scanned(t), c))
      BY <2>1, ScansAppend
    <3> QED  BY <2>1, <3>1, <3>2, <3>3, UnescapeStep
  <2>3. CASE Special(c)
    <3>1. PICK l \in EscapeLetters \cup {Quote, Backslash} :
            EscapedChar(c) = <<Backslash, l>> /\ Meant(l) = c
      BY <2>3, EscapedIs
    <3>2. l \in Nat /\ Backslash \in Nat
      BY NamedIs DEF Quote, Backslash
    <3>3. e \o <<Backslash, l>> = Append(Append(e, Backslash), l)
          /\ Append(e, Backslash) \in Seq(Nat)
      BY <2>1, <3>2
    <3>4. Scans(Append(e, Backslash), UnescapeChar(Scanned(t), Backslash))
      BY <2>1, <3>2, ScansAppend
    <3>5. Scans(Append(Append(e, Backslash), l),
                UnescapeChar(UnescapeChar(Scanned(t), Backslash), l))
      BY <3>2, <3>3, <3>4, ScansAppend
    <3>6. UnescapeChar(UnescapeChar(Scanned(t), Backslash), l) = Scanned(Append(t, c))
      BY <3>1, UnescapeStep
    <3> QED  BY <2>1, <3>1, <3>3, <3>5, <3>6
  <2> QED  BY <2>2, <2>3
<1> HIDE DEF T
<1>3. s \in T
  BY <1>1, <1>2, TextInduction
<1> QED  BY <1>3 DEF T

(* unescape gives back every text that escape has written, of any length   *)
(* and of any characters (json.hpp: escape, unescape).                     *)
THEOREM UnescapeUndoesEscape ==
    ASSUME NEW w \in Seq(Nat) PROVE Unescaped(EscapedText(w)) = w
<1>1. EscapedText(w) \in Seq(Nat) /\ Scans(EscapedText(w), Scanned(w))
  BY EscapedTextIs, ScansEscaped
<1> QED  BY <1>1, ScansIs DEF Scanned

--------------------------------------------------------------------------------
(* Parts of a text.                                                        *)

(* What is behind the first part of a text, and that it is the first part. *)
LEMMA BehindPrefix ==
    ASSUME NEW u \in Seq(Nat), NEW v \in Seq(Nat)
    PROVE  SubSeq(u \o v, Len(u) + 1, Len(u \o v)) = v /\ IsPrefix(u, u \o v)
<1> DEFINE w == u \o v
           m == Len(u)
           n == Len(v)
<1>1. /\ w \in Seq(Nat) /\ Len(w) = m + n /\ m \in Nat /\ n \in Nat
      /\ \A i \in 1..(m + n) : w[i] = IF i <= m THEN u[i] ELSE v[i - m]
  BY ConcatProperties
<1> HIDE DEF w, m, n
<1>2. \A i \in 1..(m + n) : w[i] \in Nat
  BY <1>1, ElementOfSeq
<1>3. SubSeq(w, m + 1, m + n) = v
  <2> DEFINE x == SubSeq(w, m + 1, m + n)
  <2>1. \A i \in (m + 1)..(m + n) : w[i] \in Nat
    BY <1>1, <1>2
  <2>2. m + 1 \in Int /\ m + n \in Int
    BY <1>1
  <2>3. /\ x \in Seq(Nat) /\ Len(x) = IF m + 1 <= m + n THEN (m + n) - (m + 1) + 1 ELSE 0
        /\ \A i \in 1..(m + n) - (m + 1) + 1 : x[i] = w[(m + 1) + i - 1]
    BY <2>1, <2>2, SubSeqProperties
  <2> HIDE DEF x
  <2>4. Len(x) = n
    BY ONLY <1>1, <2>3
  <2>5. ASSUME NEW i \in 1..n PROVE x[i] = v[i]
    <3>1. /\ i \in 1..(m + n) - (m + 1) + 1 /\ (m + 1) + i - 1 \in 1..(m + n)
          /\ ~((m + 1) + i - 1 <= m) /\ ((m + 1) + i - 1) - m = i
      BY ONLY <1>1, i \in 1..n
    <3> QED  BY ONLY <1>1, <2>3, <3>1
  <2>6. v \in Seq(Nat) /\ Len(v) = n
    BY DEF n
  <2>7. x = v
    BY ONLY <2>3, <2>4, <2>5, <2>6, SeqEqual
  <2> QED  BY <2>7 DEF x
<1>4. SubSeq(w, 1, m) = u
  <2> DEFINE x == SubSeq(w, 1, m)
  <2>1. \A i \in 1..m : w[i] \in Nat
    BY <1>1, <1>2
  <2>2. 1 \in Int /\ m \in Int
    BY <1>1
  <2>3. /\ x \in Seq(Nat) /\ Len(x) = IF 1 <= m THEN m - 1 + 1 ELSE 0
        /\ \A i \in 1..m - 1 + 1 : x[i] = w[1 + i - 1]
    BY <2>1, <2>2, SubSeqProperties
  <2> HIDE DEF x
  <2>4. Len(x) = m
    BY ONLY <1>1, <2>3
  <2>5. ASSUME NEW i \in 1..m PROVE x[i] = u[i]
    <3>1. i \in 1..m - 1 + 1 /\ 1 + i - 1 = i /\ i \in 1..(m + n) /\ i <= m
      BY ONLY <1>1, i \in 1..m
    <3> QED  BY ONLY <1>1, <2>3, <3>1
  <2>6. u \in Seq(Nat) /\ Len(u) = m
    BY DEF m
  <2>7. x = u
    BY ONLY <2>3, <2>4, <2>5, <2>6, SeqEqual
  <2> QED  BY <2>7 DEF x
<1>5. SubSeq(u, 1, Len(u)) = u
  BY SubSeqFull
<1>6. IsPrefix(u, w)
  BY <1>1, <1>4, <1>5 DEF IsPrefix, m
<1> QED  BY <1>1, <1>3, <1>6 DEF w, m, n

(* A text that is not empty is a character and the others.                 *)
LEMMA TextCases ==
    ASSUME NEW A, NEW s \in Seq(A), s # <<>>
    PROVE  \E c \in A, d \in Seq(A) : s = <<c>> \o d
<1> DEFINE d == Tail(s)
           t == <<s[1]>> \o d
<1>1. s[1] \in A /\ Len(s) \in Nat /\ Len(s) # 0
  BY ElementOfSeq
<1>2. d \in Seq(A) /\ Len(d) = Len(s) - 1 /\ \A i \in 1..Len(d) : d[i] = s[i + 1]
  BY HeadTailProperties
<1> HIDE DEF d
<1>3. <<s[1]>> \in Seq(A) /\ Len(<<s[1]>>) = 1 /\ <<s[1]>>[1] = s[1]
  BY <1>1
<1>4. /\ t \in Seq(A) /\ Len(t) = 1 + Len(d)
      /\ \A i \in 1..(1 + Len(d)) : t[i] = IF i <= 1 THEN <<s[1]>>[i] ELSE d[i - 1]
  <2>1. PICK a \in Seq(A) : a = <<s[1]>> /\ Len(a) = 1
    BY <1>3
  <2>2. /\ a \o d \in Seq(A) /\ Len(a \o d) = Len(a) + Len(d)
        /\ \A i \in 1..Len(a) + Len(d) : (a \o d)[i] = IF i <= Len(a) THEN a[i] ELSE d[i - Len(a)]
    BY <1>2, ConcatProperties
  <2> QED  BY <2>1, <2>2
<1> HIDE DEF t
<1>5. ASSUME NEW i \in 1..Len(s) PROVE s[i] = t[i]
  <2>1. CASE i = 1
    <3>1. i \in 1..(1 + Len(d)) /\ i <= 1
      BY <1>1, <1>2, <2>1
    <3> QED  BY <1>3, <1>4, <2>1, <3>1
  <2>2. CASE i # 1
    <3>1. i \in 1..(1 + Len(d)) /\ ~(i <= 1) /\ i - 1 \in 1..Len(d) /\ (i - 1) + 1 = i
      BY <1>1, <1>2, <2>2
    <3> QED  BY <1>2, <1>4, <3>1
  <2> QED  BY <2>1, <2>2
<1>6. Len(s) = Len(t)
  BY <1>1, <1>2, <1>4
<1>7. s = t
  BY <1>4, <1>5, <1>6, SeqEqual
<1> QED  BY <1>1, <1>2, <1>7 DEF t

(* The bytes of a part stand behind those in front of it.                  *)
LEMMA BytesStand ==
    ASSUME NEW a \in Seq(Nat), NEW u \in Seq(Nat), NEW b \in Seq(Nat)
    PROVE  StandsAt(a \o (u \o b), Len(a) + 1, u)
<1> DEFINE w == u \o b
           t == a \o w
<1>1. /\ w \in Seq(Nat) /\ Len(w) = Len(u) + Len(b)
      /\ \A i \in 1..Len(u) + Len(b) : w[i] = IF i <= Len(u) THEN u[i] ELSE b[i - Len(u)]
  BY ConcatProperties
<1> HIDE DEF w
<1>2. /\ Len(t) = Len(a) + Len(w)
      /\ \A i \in 1..Len(a) + Len(w) : t[i] = IF i <= Len(a) THEN a[i] ELSE w[i - Len(a)]
  <2>1. w \in Seq(Nat)
    BY <1>1
  <2> QED  BY ONLY <2>1, a \in Seq(Nat), ConcatProperties DEF t
<1> HIDE DEF t
<1>3. Len(a) \in Nat /\ Len(u) \in Nat /\ Len(b) \in Nat
  OBVIOUS
<1>4. ASSUME NEW i \in 1..Len(u) PROVE ByteAt(t, (Len(a) + 1) + (i - 1)) = u[i]
  <2>1. /\ (Len(a) + 1) + (i - 1) = Len(a) + i /\ Len(a) + i \in 1..Len(a) + Len(w)
        /\ ~(Len(a) + i <= Len(a)) /\ (Len(a) + i) - Len(a) = i /\ i \in 1..Len(u) + Len(b)
        /\ i <= Len(u) /\ Len(a) + i <= Len(t)
    BY ONLY <1>1, <1>2, <1>3, i \in 1..Len(u)
  <2>2. t[Len(a) + i] = u[i]
    BY ONLY <1>1, <1>2, <2>1
  <2> QED  BY ONLY <2>1, <2>2 DEF ByteAt
<1> QED  BY <1>4 DEF StandsAt, t, w

--------------------------------------------------------------------------------
(* The characters that survive, and their bytes.                           *)

(* The characters a content may have, those of a name, and the bytes that  *)
(* simdjson reads, if a backslash is put where there has to be one.        *)
Storables == {c \in Nat : Storable(c)}
Harmlesses == {c \in Nat : Harmless(c)}
Legibles == {b \in Nat : b \notin Control \/ b \in DOMAIN Named}

(* The sets against each other, and against ASCII.                         *)
LEMMA StorableIs ==
    /\ \A c \in Storables : c \in Nat /\ c # 0 /\ c < 65536
    /\ \A c \in Storables : c < 128 => c \in Legibles
    /\ \A c \in Harmlesses : c \in Nat /\ c \in Legibles /\ ~Special(c)
    /\ \A b \in Nat : ~(b < 128) => b \in Legibles /\ b \in Harmlesses
    /\ Storables \subseteq Nat /\ Harmlesses \subseteq Nat /\ Legibles \subseteq Nat
<1>1. 0 \in Control /\ 0 \notin DOMAIN Named /\ DOMAIN Named \subseteq Control
  BY NamedIs DEF Control
<1>2. \A b \in Nat : ~(b < 128) => b \notin Control \cup {Quote, Backslash}
  BY DEF Control, Quote, Backslash
<1>3. ASSUME NEW c \in Storables PROVE c \in Nat /\ c # 0 /\ c < 65536
  BY <1>1 DEF Storables, Storable
<1>4. ASSUME NEW c \in Storables PROVE c \in Legibles
  BY DEF Storables, Storable, Legibles
<1>5. ASSUME NEW c \in Harmlesses PROVE c \in Nat /\ c \in Legibles /\ ~Special(c)
  BY <1>1 DEF Harmlesses, Harmless, Legibles, Special
<1>6. ASSUME NEW b \in Nat, ~(b < 128) PROVE b \in Legibles /\ b \in Harmlesses
  BY <1>2, <1>6 DEF Legibles, Harmlesses, Harmless
<1>7. Storables \subseteq Nat /\ Harmlesses \subseteq Nat /\ Legibles \subseteq Nat
  BY DEF Storables, Harmlesses, Legibles
<1> QED  BY <1>3, <1>4, <1>5, <1>6, <1>7

(* A text of characters of a set is one of a larger set.                   *)
LEMMA SeqOfMore ==
    ASSUME NEW A, NEW S, A \subseteq S, NEW s \in Seq(A)
    PROVE  s \in Seq(S)
<1>1. \A i \in 1..Len(s) : s[i] \in S
  BY ElementOfSeq
<1>2. s \in [1..Len(s) -> S] /\ Len(s) \in Nat
  BY <1>1
<1> QED  BY <1>2

(* The conversion keeps to the characters of a set, if it does so with     *)
(* those of ASCII and all other bytes are in the set.                      *)
LEMMA BytesIn ==
    ASSUME NEW A \in SUBSET Nat, NEW S \in SUBSET Nat, NEW s \in Seq(A),
           \A c \in A : c < 128 => c \in S,
           \A b \in Nat : ~(b < 128) => b \in S
    PROVE  ToUtf8(s) \in Seq(S)
<1> DEFINE T == {t \in Seq(A) : ToUtf8(t) \in Seq(S)}
<1>1. <<>> \in T
  <2>1. <<>> \in Seq(A) /\ <<>> \in Seq(S) /\ ToUtf8(<<>>) = <<>>
    BY ONLY ToUtf8Is
  <2> QED  BY ONLY <2>1
<1>2. ASSUME NEW t \in Seq(A), NEW c \in A, t \in T PROVE Append(t, c) \in T
  <2>1. t \in Seq(Nat) /\ c \in Nat
    BY SeqOfMore
  <2>2. ToUtf8(Append(t, c)) = ToUtf8(t) \o UcsToUtf8(c)
    BY ONLY <2>1, ToUtf8Is
  <2>3. UcsToUtf8(c) \in Seq(S)
    <3>1. CASE c < 128
      <4>1. UcsToUtf8(c) = <<c>> /\ c \in S
        BY <2>1, <3>1, UtfBytes
      <4> QED  BY ONLY <4>1
    <3>2. CASE ~(c < 128)
      <4>1. PICK u \in Seq(Nat) : u = UcsToUtf8(c) /\ \A i \in 1..Len(u) : ~(u[i] < 128)
        BY <2>1, <3>2, UtfBytes
      <4>2. \A i \in 1..Len(u) : u[i] \in S
        BY <4>1, ElementOfSeq
      <4>3. u \in [1..Len(u) -> S] /\ Len(u) \in Nat
        BY <4>2
      <4> QED  BY ONLY <4>1, <4>3
    <3> QED  BY <3>1, <3>2
  <2>4. ToUtf8(t) \in Seq(S)
    BY <1>2
  <2>5. PICK u \in Seq(S), v \in Seq(S) : u = ToUtf8(t) /\ v = UcsToUtf8(c)
    BY <2>3, <2>4
  <2>6. u \o v \in Seq(S)
    BY ONLY u \in Seq(S), v \in Seq(S), ConcatProperties
  <2>7. Append(t, c) \in Seq(A)
    BY AppendProperties
  <2> QED  BY <2>2, <2>5, <2>6, <2>7
<1> HIDE DEF T
<1>3. s \in T
  BY <1>1, <1>2, TextInduction
<1> QED  BY <1>3 DEF T

(* The bytes of a name: legible as they are, for nothing in them is        *)
(* escaped.                                                                *)
LEMMA NameBytes ==
    ASSUME NEW s \in Seq(Harmlesses)
    PROVE  ToUtf8(s) \in Seq(Legibles) /\ EscapedText(ToUtf8(s)) = ToUtf8(s)
<1>1. ToUtf8(s) \in Seq(Harmlesses)
  BY StorableIs, BytesIn
<1>2. ToUtf8(s) \in Seq(Legibles) /\ ToUtf8(s) \in Seq(Nat)
  <2>1. Harmlesses \subseteq Legibles /\ Harmlesses \subseteq Nat
    BY StorableIs
  <2> QED  BY <1>1, <2>1, SeqOfMore
<1>3. Plain(ToUtf8(s))
  <2>1. PICK n \in Seq(Harmlesses) : n = ToUtf8(s)
    BY <1>1
  <2>2. \A i \in 1..Len(n) : n[i] \in Harmlesses
    BY ElementOfSeq
  <2>3. \A c \in Harmlesses : ~Special(c)
    BY ONLY StorableIs
  <2>4. \A i \in 1..Len(n) : ~Special(n[i])
    BY ONLY <2>2, <2>3
  <2> QED  BY ONLY <2>1, <2>4 DEF Plain
<1> QED  BY <1>2, <1>3, PlainStays

(* The bytes of a content: legible, once they are escaped.                 *)
LEMMA ContentBytes ==
    ASSUME NEW s \in Seq(Storables)
    PROVE  ToUtf8(s) \in Seq(Legibles)
  BY StorableIs, BytesIn

(* The conversion of a character.                                          *)
LEMMA UcsTypes ==
    ASSUME NEW bytes \in Seq(Nat), NEW at \in Nat, at >= 1
    PROVE  Wide(Utf8ToUcs(bytes, at)) \in Nat /\ Utf8ToUcs(bytes, at).increment \in Nat
<1>1. ASSUME NEW i \in Nat PROVE ByteAt(bytes, at + i) \in Nat
  <2>1. CASE at + i <= Len(bytes)
    <3>1. at + i \in 1..Len(bytes)
      BY <2>1
    <3>2. bytes[at + i] \in Nat
      BY <3>1, ElementOfSeq
    <3> QED  BY <2>1, <3>2 DEF ByteAt
  <2>2. CASE ~(at + i <= Len(bytes))
    BY <2>2 DEF ByteAt
  <2> QED  BY <2>1, <2>2
<1> DEFINE b(i) == ByteAt(bytes, at + i)
           c2 == (b(0) % 32) * 64 + (b(1) % 64)
           c3 == (b(0) % 16) * 4096 + (b(1) % 64) * 64 + (b(2) % 64)
           c4 == (b(0) % 8) * 262144 + (b(1) % 64) * 4096 + (b(2) % 64) * 64 + (b(3) % 64)
           c5 == c4 * 64 + (b(4) % 64)
           c6 == ((c4 % 524288) * 64 + (b(4) % 64)) * 64 + (b(5) % 64)
           u == Utf8ToUcs(bytes, at)
           Found == {[minus |-> TRUE, c |-> 1, increment |-> 0],
                     Ucs(b(0), 1), Ucs(c2, 2), Ucs(c3, 3), Ucs(c4, 4), Ucs(c5, 5), Ucs(c6, 6)}
<1>2. b(0) \in Nat /\ c2 \in Nat /\ c3 \in Nat /\ c4 \in Nat
  <2>1. PICK w \in Nat, x \in Nat, y \in Nat, z \in Nat : w = b(0) /\ x = b(1) /\ y = b(2) /\ z = b(3)
    BY <1>1
  <2>2. /\ (w % 32) * 64 + (x % 64) \in Nat
        /\ (w % 16) * 4096 + (x % 64) * 64 + (y % 64) \in Nat
        /\ (w % 8) * 262144 + (x % 64) * 4096 + (y % 64) * 64 + (z % 64) \in Nat
    BY ONLY w \in Nat, x \in Nat, y \in Nat, z \in Nat, SMT
  <2> HIDE DEF b
  <2> QED  BY ONLY <2>1, <2>2, w \in Nat, SMT
<1>3. u \in Found
  BY ONLY SMT DEF Utf8ToUcs
<1> HIDE DEF c4
<1>4. c5 \in Nat /\ c6 \in Nat
  <2>1. 4 \in Nat /\ 5 \in Nat
    OBVIOUS
  <2>2. b(4) \in Nat /\ b(5) \in Nat
    BY ONLY <1>1, <2>1
  <2>3. c4 \in Nat /\ b(4) \in Nat /\ b(5) \in Nat
    BY ONLY <1>2, <2>2
  <2>4. PICK x \in Nat, y \in Nat, z \in Nat : x = c4 /\ y = b(4) /\ z = b(5)
    BY ONLY <2>3
  <2>5. /\ x * 64 + (y % 64) \in Nat
        /\ ((x % 524288) * 64 + (y % 64)) * 64 + (z % 64) \in Nat
    BY ONLY x \in Nat, y \in Nat, z \in Nat, SMT
  <2> HIDE DEF b
  <2> QED  BY ONLY <2>4, <2>5
<1> HIDE DEF u, b, c2, c3, c5, c6
<1>5. u.minus \in BOOLEAN /\ u.c \in Nat /\ u.increment \in Nat
  <2>1. \A c \in Nat, k \in Nat :
          Ucs(c, k).minus \in BOOLEAN /\ Ucs(c, k).c \in Nat /\ Ucs(c, k).increment \in Nat
    BY ONLY SMT DEF Ucs
  <2>2. PICK d1 \in Nat, d2 \in Nat, d3 \in Nat, d4 \in Nat,
             d5 \in Nat, d6 \in Nat :
          d1 = b(0) /\ d2 = c2 /\ d3 = c3 /\ d4 = c4 /\ d5 = c5 /\ d6 = c6
    BY ONLY <1>2, <1>4
  <2>3. \/ u = [minus |-> TRUE, c |-> 1, increment |-> 0]
        \/ u = Ucs(d1, 1) \/ u = Ucs(d2, 2) \/ u = Ucs(d3, 3) \/ u = Ucs(d4, 4)
        \/ u = Ucs(d5, 5) \/ u = Ucs(d6, 6)
    BY ONLY <1>3, <2>2
  <2>4. 1 \in Nat /\ 2 \in Nat /\ 3 \in Nat /\ 4 \in Nat /\ 5 \in Nat /\ 6 \in Nat
    OBVIOUS
  <2>5. ASSUME u = [minus |-> TRUE, c |-> 1, increment |-> 0]
        PROVE  u.minus \in BOOLEAN /\ u.c \in Nat /\ u.increment \in Nat
    BY ONLY <2>5
  <2>6. ASSUME NEW d \in Nat, NEW k \in Nat, u = Ucs(d, k)
        PROVE  u.minus \in BOOLEAN /\ u.c \in Nat /\ u.increment \in Nat
    BY ONLY <2>1, <2>6, d \in Nat, k \in Nat
  <2> HIDE DEF Found
  <2> QED  BY <2>3, <2>4, <2>5, <2>6
<1>6. Wide(u) \in Nat
  BY ONLY <1>5, SMT DEF Wide
<1> QED  BY <1>5, <1>6 DEF u

--------------------------------------------------------------------------------
(* simdjson in front of an escaped text.                                   *)

(* The same for texts of numbers, and how a text begins.                   *)
LEMMA Associative ==
    ASSUME NEW x \in Seq(Nat), NEW y \in Seq(Nat), NEW z \in Seq(Nat)
    PROVE  (x \o y) \o z = x \o (y \o z)
<1>1. PICK S : S = Nat
  OBVIOUS
<1>2. x \in Seq(S) /\ y \in Seq(S) /\ z \in Seq(S)
  BY <1>1
<1> QED  BY ONLY <1>2, ConcatAssociative

LEMMA Begins ==
    ASSUME NEW u \in Seq(Nat), NEW v \in Seq(Nat), Len(u) >= 1
    PROVE  /\ u \o v # <<>> /\ (u \o v)[1] = u[1]
           /\ Len(u) >= 2 => Len(u \o v) > 1 /\ (u \o v)[2] = u[2]
<1> DEFINE w == u \o v
<1>1. /\ Len(w) = Len(u) + Len(v) /\ Len(u) \in Nat /\ Len(v) \in Nat
      /\ \A i \in 1..Len(u) + Len(v) : w[i] = IF i <= Len(u) THEN u[i] ELSE v[i - Len(u)]
  BY ConcatProperties
<1> HIDE DEF w
<1>2. 1 \in 1..Len(u) + Len(v) /\ Len(w) # 0
  BY <1>1
<1>3. w # <<>> /\ w[1] = u[1]
  BY <1>1, <1>2
<1>4. ASSUME Len(u) >= 2 PROVE Len(w) > 1 /\ w[2] = u[2]
  <2>1. 2 \in 1..Len(u) + Len(v) /\ 2 <= Len(u)
    BY <1>1, <1>4
  <2> QED  BY <1>1, <2>1
<1> QED  BY <1>3, <1>4 DEF w

(* Behind a string is a quote.                                             *)
LEMMA BehindIs ==
    ASSUME NEW field
    PROVE  /\ Behind(field) \in Seq(Nat) /\ Len(Behind(field)) >= 1
           /\ Behind(field)[1] = Quote
  BY DEF Behind, Quote, Colon, CloseBrace

(* What ReadString does where the escaped bytes b stand in front of the    *)
(* quote: it takes the first of them, or ends with them.                   *)
StandsUnread(field, b, rest) == unread = EscapedText(b) \o (Behind(field) \o rest)

ReadsByte(field, b, rest) ==
    \/ b = <<>> /\ EndsString(field) /\ unread' = rest
    \/ \E c \in Legibles, d \in Seq(Legibles) :
         /\ b = <<c>> \o d /\ jxPc' = jxPc
         /\ loaded' = [loaded EXCEPT ![field] = Append(@, c)]
         /\ unread' = EscapedText(d) \o (Behind(field) \o rest)

LEMMA ReadStep ==
    ASSUME NEW field, NEW b \in Seq(Legibles), NEW rest \in Seq(Nat),
           StandsUnread(field, b, rest), ReadString(field)
    PROVE  ReadsByte(field, b, rest)
<1> DEFINE tail == Behind(field) \o rest
<1>0. tail \in Seq(Nat)
  BY BehindIs, ConcatProperties
<1>9. unread = EscapedText(b) \o tail
  BY DEF StandsUnread
<1>1. CASE b = <<>>
  <2>1. unread = tail
    <3>1. <<>> \o tail = tail
      BY <1>0, ConcatEmptySeq
    <3> QED  BY <1>1, <1>9, <3>1, EscapedTextIs
  <2>2. unread # <<>> /\ unread[1] = Quote
    BY <2>1, BehindIs, Begins
  <2>3. IsPrefix(Behind(field), unread) /\ Without(Len(Behind(field))) = rest
    BY <2>1, BehindIs, BehindPrefix DEF Without
  <2>4. unread[1] \notin Control
    BY <2>2 DEF Control, Quote
  <2>5. EndsString(field)
    BY <2>2, <2>3, <2>4 DEF ReadString
  <2> QED  BY <1>1, <2>3, <2>5 DEF EndsString, ReadsByte
<1>2. CASE b # <<>>
  <2>1. PICK c \in Legibles, d \in Seq(Legibles) : b = <<c>> \o d
    BY <1>2, TextCases
  <2>2. /\ c \in Nat /\ d \in Seq(Nat) /\ <<c>> \in Seq(Nat)
        /\ EscapedChar(c) \in Seq(Nat) /\ EscapedText(d) \in Seq(Nat)
    <3>1. c \in Nat /\ Legibles \subseteq Nat
      BY StorableIs
    <3>2. d \in Seq(Nat) /\ <<c>> \in Seq(Nat)
      <4>1. PICK A, S : A = Legibles /\ S = Nat
        OBVIOUS
      <4>2. A \subseteq S /\ d \in Seq(A)
        BY ONLY <3>1, <4>1, d \in Seq(Legibles)
      <4>3. d \in Seq(S)
        BY ONLY <4>2, SeqOfMore
      <4>4. <<c>> \in Seq(Nat)
        BY ONLY <3>1
      <4> QED  BY ONLY <4>1, <4>3, <4>4
    <3> QED  BY ONLY <3>1, <3>2, EscapedIs, EscapedTextIs
  <2> DEFINE after == EscapedText(d) \o tail
  <2>3. after \in Seq(Nat) /\ unread = EscapedChar(c) \o after
    <3>1. EscapedText(b) = EscapedText(<<c>>) \o EscapedText(d)
      BY <2>1, <2>2, EscapedTextIs
    <3>2. EscapedText(<<c>>) = EscapedChar(c)
      BY <2>2, EscapedTextIs
    <3>3. (EscapedChar(c) \o EscapedText(d)) \o tail = EscapedChar(c) \o (EscapedText(d) \o tail)
      <4>1. PICK x \in Seq(Nat), y \in Seq(Nat), z \in Seq(Nat) :
              x = EscapedChar(c) /\ y = EscapedText(d) /\ z = tail
        BY <1>0, <2>2
      <4>2. (x \o y) \o z = x \o (y \o z)
        BY ONLY x \in Seq(Nat), y \in Seq(Nat), z \in Seq(Nat), Associative
      <4> QED  BY ONLY <4>1, <4>2
    <3> QED  BY <1>0, <1>9, <2>2, <3>1, <3>2, <3>3, ConcatProperties
  <2> HIDE DEF after
  <2>4. CASE ~Special(c)
    <3>1. EscapedChar(c) = <<c>>
      BY <2>2, <2>4, EscapedIs
    <3>2. unread # <<>> /\ unread[1] = c
      BY <2>2, <2>3, <3>1, Begins
    <3>3. c # Quote /\ c # Backslash /\ c \notin Control
      BY <2>4 DEF Special, Legibles
    <3>4. Takes(field, c, 1)
      BY <3>2, <3>3 DEF ReadString
    <3>5. Without(1) = after
      <4>1. Len(<<c>>) = 1
        OBVIOUS
      <4> QED  BY <2>2, <2>3, <3>1, <4>1, BehindPrefix DEF Without
    <3> QED  BY <2>1, <3>4, <3>5 DEF Takes, after, ReadsByte
  <2>5. CASE Special(c)
    <3>1. PICK l \in EscapeLetters \cup {Quote, Backslash} :
            EscapedChar(c) = <<Backslash, l>> /\ Meant(l) = c
      BY <2>2, <2>5, EscapedIs
    <3> DEFINE pair == <<Backslash, l>>
    <3>2. /\ pair \in Seq(Nat) /\ Len(pair) = 2 /\ pair[1] = Backslash /\ pair[2] = l
      BY <2>2, <3>1
    <3> HIDE DEF pair
    <3>3. unread = pair \o after
      BY <2>3, <3>1 DEF pair
    <3>4. unread # <<>> /\ unread[1] = Backslash /\ Len(unread) > 1 /\ unread[2] = l
      <4>1. Len(pair) >= 1 /\ Len(pair) >= 2
        BY ONLY <3>2
      <4>2. /\ pair \o after # <<>> /\ (pair \o after)[1] = pair[1]
            /\ Len(pair \o after) > 1 /\ (pair \o after)[2] = pair[2]
        BY ONLY <2>3, <3>2, <4>1, Begins
      <4> QED  BY ONLY <3>2, <3>3, <4>2
    <3>5. Backslash # Quote /\ Backslash \notin Control
      BY DEF Backslash, Quote, Control
    <3>6. Takes(field, Meant(l), 2)
      BY <3>4, <3>5 DEF ReadString
    <3>7. Without(2) = after
      BY <2>3, <3>2, <3>3, BehindPrefix DEF Without
    <3> QED  BY <2>1, <3>1, <3>6, <3>7 DEF Takes, after, ReadsByte
  <2> QED  BY <2>4, <2>5
<1> QED  BY <1>1, <1>2

--------------------------------------------------------------------------------
(* The invariant.                                                          *)

AreTexts(i, n, p, w, q) ==
    i \in Seq(Nat) /\ n \in Seq(Nat) /\ p \in Seq(Nat) /\ w \in Seq(Nat) /\ q \in Seq(Nat)

AsWritten(i, n, p, w, q) == (((i \o n) \o p) \o w) \o q
AsRead(i, n, p, w, q) == i \o (n \o (p \o (w \o (q \o <<>>))))

(* The document, with its parts grouped from the left and from the right.  *)
LEMMA FiveParts ==
    ASSUME NEW i, NEW n, NEW p, NEW w, NEW q, AreTexts(i, n, p, w, q)
    PROVE  AsWritten(i, n, p, w, q) = AsRead(i, n, p, w, q)
<1>0. i \in Seq(Nat) /\ n \in Seq(Nat) /\ p \in Seq(Nat) /\ w \in Seq(Nat) /\ q \in Seq(Nat)
  BY DEF AreTexts
<1>1. q \o <<>> = q
  BY ONLY <1>0, ConcatEmptySeq
<1>2. PICK a, b, c, d : a = i \o n /\ b = w \o q /\ c = p \o b /\ d = a \o p
  OBVIOUS
<1>3. a \in Seq(Nat)
  BY ONLY <1>0, <1>2, ConcatProperties
<1>4. b \in Seq(Nat)
  BY ONLY <1>0, <1>2, ConcatProperties
<1>5. c \in Seq(Nat)
  BY ONLY <1>0, <1>4, <1>2, ConcatProperties
<1>6. d \in Seq(Nat)
  BY ONLY <1>0, <1>3, <1>2, ConcatProperties
<1>7. (d \o w) \o q = d \o (w \o q)
  <2>1. d \in Seq(Nat) /\ w \in Seq(Nat) /\ q \in Seq(Nat)
    BY ONLY <1>0, <1>6
  <2> QED  BY ONLY <2>1, Associative
<1>8. (a \o p) \o b = a \o (p \o b)
  <2>1. a \in Seq(Nat) /\ p \in Seq(Nat) /\ b \in Seq(Nat)
    BY ONLY <1>0, <1>3, <1>4
  <2> QED  BY ONLY <2>1, Associative
<1>9. (i \o n) \o c = i \o (n \o c)
  <2>1. i \in Seq(Nat) /\ n \in Seq(Nat) /\ c \in Seq(Nat)
    BY ONLY <1>0, <1>5
  <2> QED  BY ONLY <2>1, Associative
<1> QED  BY ONLY <1>1, <1>2, <1>7, <1>8, <1>9 DEF AsWritten, AsRead

(* The texts that have to come back.                                       *)
Good == /\ \A c \in CharsOf(name) : Harmless(c)
        /\ \A c \in CharsOf(content) : Storable(c)

(* The bytes of a string, what is behind its quote, and what is read.      *)
TextOf(field) == IF field = "name" THEN ToUtf8(name) ELSE Bytes
Rest(field) == IF field = "name" THEN EscapedText(Bytes) \o (Behind("content") \o <<>>) ELSE <<>>
Texts(n, c) == [name |-> n, content |-> c]

(* from_utf8 has converted a part, and stands in front of the others.      *)
Converting ==
    \E b \in Seq(Storables) :
      content = wide \o b /\ place = Len(ToUtf8(wide)) + 1 /\ left = Len(ToUtf8(b))

(* simdjson has a part of a string, and stands in front of the others.     *)
Reading(field, read) ==
    \E b \in Seq(Legibles) :
      TextOf(field) = read \o b /\ unread = EscapedText(b) \o (Behind(field) \o Rest(field))

(* Where the texts are in each phase: none of a character is lost, and the *)
(* reader is in front of what it has not taken.                            *)
OnTheWay ==
    /\ jxPc # "unreadable"
    /\ jxPc = "convert" => Converting
    /\ jxPc = "save" => wide = content
    /\ jxPc \in {"convert", "save", "load"} => loaded = Texts(<<>>, <<>>)
    /\ jxPc = "load" => saved = InFront \o (ToUtf8(name) \o (Behind("name") \o Rest("name")))
    /\ jxPc = "name" => \E r \in Seq(Nat) : loaded = Texts(r, <<>>) /\ Reading("name", r)
    /\ jxPc = "content" =>
         \E r \in Seq(Nat) : loaded = Texts(ToUtf8(name), r) /\ Reading("content", r)
    /\ jxPc = "read" => loaded = Texts(ToUtf8(name), Bytes)

JxTypes == /\ name \in Seq(Nat) /\ content \in Seq(Nat) /\ wide \in Seq(Nat)
           /\ place \in Nat /\ place >= 1

JxInv == JxTypes /\ (Good => OnTheWay)

(* The texts of the invariant, by their characters and bytes.              *)
LEMMA GoodIs ==
    ASSUME JxTypes, Good
    PROVE  /\ name \in Seq(Harmlesses) /\ content \in Seq(Storables)
           /\ ToUtf8(name) \in Seq(Legibles) /\ Bytes \in Seq(Legibles)
           /\ ToUtf8(name) \in Seq(Nat) /\ Bytes \in Seq(Nat)
           /\ EscapedText(ToUtf8(name)) = ToUtf8(name)
           /\ \A f : Rest(f) \in Seq(Nat)
<1>1. name \in Seq(Harmlesses)
  <2>1. \A i \in 1..Len(name) : name[i] \in Harmlesses
    BY ElementOfSeq DEF JxTypes, Good, CharsOf, Harmlesses
  <2>2. name \in [1..Len(name) -> Harmlesses] /\ Len(name) \in Nat
    BY <2>1 DEF JxTypes
  <2> QED  BY ONLY <2>2
<1>2. content \in Seq(Storables)
  <2>1. \A i \in 1..Len(content) : content[i] \in Storables
    BY ElementOfSeq DEF JxTypes, Good, CharsOf, Storables
  <2>2. content \in [1..Len(content) -> Storables] /\ Len(content) \in Nat
    BY <2>1 DEF JxTypes
  <2> QED  BY ONLY <2>2
<1>3. ToUtf8(name) \in Seq(Legibles) /\ EscapedText(ToUtf8(name)) = ToUtf8(name)
  BY <1>1, NameBytes
<1>4. Bytes \in Seq(Legibles)
  BY <1>2, ContentBytes DEF Bytes
<1>5. ToUtf8(name) \in Seq(Nat) /\ Bytes \in Seq(Nat)
  BY ToUtf8Is DEF JxTypes, Bytes
<1>6. \A f : Rest(f) \in Seq(Nat)
  <2>1. <<>> \in Seq(Nat)
    OBVIOUS
  <2>2. EscapedText(Bytes) \in Seq(Nat) /\ Behind("content") \in Seq(Nat)
    BY <1>5, EscapedTextIs, BehindIs
  <2>3. EscapedText(Bytes) \o (Behind("content") \o <<>>) \in Seq(Nat)
    <3>1. PICK w \in Seq(Nat), q \in Seq(Nat) : w = EscapedText(Bytes) /\ q = Behind("content")
      BY <2>2
    <3>2. q \o <<>> = q /\ w \o q \in Seq(Nat)
      BY ConcatEmptySeq, ConcatProperties
    <3> QED  BY <3>1, <3>2
  <2> QED  BY <2>1, <2>3 DEF Rest
<1> QED  BY <1>1, <1>2, <1>3, <1>4, <1>5, <1>6
(* The start: nothing is converted.                                        *)
LEMMA JxInitHolds == JxInit => JxInv
<1> SUFFICES ASSUME JxInit PROVE JxInv
  OBVIOUS
<1>1. Chars \subseteq Nat
  <2>1. \A c \in CodePoints : c \in Nat
    BY SMT DEF CodePoints
  <2> QED  BY <2>1, JsonTextConstants
<1>2. name \in Seq(Nat) /\ content \in Seq(Nat)
  <2>1. ASSUME NEW n \in Nat, NEW t \in TextsUpTo(n) PROVE t \in Seq(Nat)
    <3>1. PICK k \in 0..n : t \in [1..k -> Chars]
      BY <2>1 DEF TextsUpTo
    <3>2. t \in [1..k -> Nat] /\ k \in Nat
      <4>1. k \in Nat
        BY ONLY k \in 0..n, n \in Nat
      <4>2. DOMAIN t = 1..k /\ t = [i \in 1..k |-> t[i]] /\ \A i \in 1..k : t[i] \in Chars
        BY ONLY <3>1
      <4>3. \A i \in 1..k : t[i] \in Nat
        BY ONLY <1>1, <4>2
      <4> QED  BY ONLY <4>1, <4>2, <4>3
    <3> QED  BY ONLY <3>2
  <2>2. name \in TextsUpTo(1) /\ content \in TextsUpTo(MaxChars)
    BY DEF JxInit
  <2>3. MaxChars \in Nat /\ 1 \in Nat
    BY JsonTextConstants
  <2> QED  BY <2>1, <2>2, <2>3
<1>3. JxTypes
  BY <1>2 DEF JxInit, JxTypes
<1>4. ASSUME Good PROVE OnTheWay
  <2>1. content \in Seq(Storables)
    BY <1>3, <1>4, GoodIs
  <2>2. <<>> \o content = content /\ Len(ToUtf8(<<>>)) = 0
    BY <1>2, ConcatEmptySeq, ToUtf8Is
  <2>3. Converting
    BY <2>1, <2>2 DEF JxInit, Converting, Bytes
  <2> QED  BY <2>3 DEF JxInit, OnTheWay, Texts
<1> QED  BY <1>3, <1>4 DEF JxInv

--------------------------------------------------------------------------------
(* The steps.                                                              *)

(* What depends on the member only, stays.                                 *)
LEMMA SameTexts ==
    ASSUME name' = name, content' = content
    PROVE  /\ (Good' <=> Good) /\ Bytes' = Bytes /\ ToUtf8(name)' = ToUtf8(name)
           /\ Rest("name")' = Rest("name") /\ Rest("content")' = Rest("content")
<1>1. Bytes' = Bytes /\ ToUtf8(name)' = ToUtf8(name)
  BY DEF Bytes
<1>2. Good' <=> Good
  BY DEF Good, CharsOf
<1>3. Rest("name")' = Rest("name") /\ Rest("content")' = Rest("content")
  BY <1>1 DEF Rest
<1> QED  BY <1>1, <1>2, <1>3

(* from_utf8 in front of a character.                                      *)
LEMMA ConvertsNext ==
    ASSUME JxTypes, NEW c \in Storables, NEW d \in Seq(Storables),
           content = wide \o (<<c>> \o d), place = Len(ToUtf8(wide)) + 1
    PROVE  /\ Wide(Utf8ToUcs(Bytes, place)) = c /\ c > 0
           /\ Utf8ToUcs(Bytes, place).increment = Len(UcsToUtf8(c))
           /\ Len(ToUtf8(<<c>> \o d)) = Len(UcsToUtf8(c)) + Len(ToUtf8(d))
           /\ Len(UcsToUtf8(c)) >= 1 /\ Len(UcsToUtf8(c)) \in Nat
<1>1. c \in Nat /\ c # 0 /\ c < 65536 /\ Storables \subseteq Nat
  BY StorableIs, SMT
<1>2. d \in Seq(Nat) /\ <<c>> \in Seq(Nat)
  <2>1. PICK A, S : A = Storables /\ S = Nat
    OBVIOUS
  <2>2. A \subseteq S /\ d \in Seq(A)
    BY ONLY <1>1, <2>1, d \in Seq(Storables)
  <2>3. d \in Seq(S)
    BY ONLY <2>2, SeqOfMore
  <2>4. <<c>> \in Seq(Nat)
    BY ONLY <1>1
  <2> QED  BY ONLY <2>1, <2>3, <2>4
<1>3. <<c>> \o d \in Seq(Nat) /\ wide \in Seq(Nat)
  BY <1>2, ConcatProperties DEF JxTypes
<1>4. PICK a, u, b : a = ToUtf8(wide) /\ u = UcsToUtf8(c) /\ b = ToUtf8(d)
  OBVIOUS
<1>5. a \in Seq(Nat) /\ b \in Seq(Nat)
  BY ONLY <1>2, <1>3, <1>4, ToUtf8Is
<1>6. u \in Seq(Nat) /\ Len(u) >= 1 /\ Len(u) \in Nat
  <2>1. u \in Seq(Nat) /\ Len(u) >= 1
    BY ONLY <1>1, <1>4, UtfBytes, SMT
  <2> QED  BY ONLY <2>1
<1>7. ToUtf8(<<c>> \o d) = u \o b
  <2>1. ToUtf8(<<c>> \o d) = ToUtf8(<<c>>) \o ToUtf8(d)
    BY ONLY <1>2, ToUtf8Is
  <2>2. ToUtf8(<<c>>) = UcsToUtf8(c)
    BY ONLY <1>1, ToUtf8Is, SMT
  <2> QED  BY ONLY <1>4, <2>1, <2>2
<1>8. Bytes = a \o (u \o b)
  <2>1. ToUtf8(wide \o (<<c>> \o d)) = ToUtf8(wide) \o ToUtf8(<<c>> \o d)
    BY ONLY <1>3, ToUtf8Is
  <2> QED  BY <1>4, <1>7, <2>1 DEF Bytes
<1>9. StandsAt(Bytes, place, u)
  <2>1. StandsAt(a \o (u \o b), Len(a) + 1, u)
    BY ONLY <1>5, <1>6, BytesStand
  <2> QED  BY <1>4, <1>8, <2>1
<1>10. /\ Utf8ToUcs(Bytes, place) = Ucs(c, Len(u)) /\ Wide(Utf8ToUcs(Bytes, place)) = c
  <2>1. place \in Nat /\ StandsAt(Bytes, place, UcsToUtf8(c))
    BY <1>4, <1>9 DEF JxTypes
  <2> QED  BY ONLY <1>1, <1>4, <2>1, CharOfBytes, SMT
<1>11. Ucs(c, Len(u)).increment = Len(u)
  BY DEF Ucs
<1>12. Len(u \o b) = Len(u) + Len(b)
  BY ONLY <1>5, <1>6, ConcatProperties
<1>13. c > 0
  BY ONLY <1>1, SMT
<1> QED  BY ONLY <1>4, <1>6, <1>7, <1>10, <1>11, <1>12, <1>13

(* from_utf8: a character that is left has at least a byte, so the loop    *)
(* neither ends early nor passes the end.                                  *)
LEMMA ConvertStep == ASSUME JxInv, ConvertChar PROVE JxInv'
<1> DEFINE u == Utf8ToUcs(Bytes, place)
<1>0. JxTypes /\ name' = name /\ content' = content /\ jxPc = "convert"
      /\ loaded' = loaded
  BY DEF JxInv, ConvertChar
<1>1. CASE left > 0 /\ Wide(u) > 0
  <2>1. /\ wide' = Append(wide, Wide(u)) /\ place' = place + u.increment
        /\ left' = left - u.increment /\ jxPc' = jxPc
    BY <1>1 DEF ConvertChar
  <2>2. Wide(u) \in Nat /\ u.increment \in Nat
    <3>1. Bytes \in Seq(Nat) /\ place \in Nat /\ place >= 1
      BY <1>0, ToUtf8Is DEF Bytes, JxTypes
    <3> QED  BY <3>1, UcsTypes
  <2> HIDE DEF u
  <2>3. JxTypes'
    <3>1. wide' \in Seq(Nat)
      BY <1>0, <2>1, <2>2, AppendProperties DEF JxTypes
    <3>2. place' \in Nat /\ place' >= 1
      BY <1>0, <2>1, <2>2 DEF JxTypes
    <3> QED  BY <1>0, <3>1, <3>2 DEF JxTypes
  <2>4. ASSUME Good PROVE OnTheWay'
    <3>1. Converting /\ loaded = Texts(<<>>, <<>>)
      BY <1>0, <2>4 DEF JxInv, OnTheWay
    <3>2. PICK b \in Seq(Storables) :
            /\ content = wide \o b /\ place = Len(ToUtf8(wide)) + 1 /\ left = Len(ToUtf8(b))
      BY <3>1 DEF Converting
    <3>3. b # <<>>
      <4>1. Len(ToUtf8(<<>>)) = 0
        BY ToUtf8Is
      <4> QED  BY <1>1, <3>2, <4>1
    <3>4. PICK c \in Storables, d \in Seq(Storables) : b = <<c>> \o d
      BY <3>3, TextCases
    <3>5. /\ Wide(u) = c /\ u.increment = Len(UcsToUtf8(c))
          /\ Len(ToUtf8(<<c>> \o d)) = Len(UcsToUtf8(c)) + Len(ToUtf8(d))
      BY <1>0, <3>2, <3>4, ConvertsNext DEF u
    <3>6. /\ wide \in Seq(Nat) /\ c \in Nat /\ Len(UcsToUtf8(c)) \in Nat /\ d \in Seq(Nat)
          /\ <<c>> \in Seq(Nat) /\ Len(ToUtf8(d)) \in Nat /\ UcsToUtf8(c) \in Seq(Nat)
          /\ ToUtf8(wide) \in Seq(Nat)
      <4>1. c \in Nat /\ Storables \subseteq Nat
        BY StorableIs, SMT
      <4>2. PICK A, S : A = Storables /\ S = Nat
        OBVIOUS
      <4>3. A \subseteq S /\ d \in Seq(A)
        BY ONLY <4>1, <4>2, d \in Seq(Storables)
      <4>4. d \in Seq(S)
        BY ONLY <4>3, SeqOfMore
      <4>5. d \in Seq(Nat) /\ <<c>> \in Seq(Nat)
        BY ONLY <4>1, <4>2, <4>4
      <4>6. wide \in Seq(Nat)
        BY <1>0 DEF JxTypes
      <4>7. ToUtf8(d) \in Seq(Nat) /\ ToUtf8(wide) \in Seq(Nat)
        BY ONLY <4>5, <4>6, ToUtf8Is
      <4>8. UcsToUtf8(c) \in Seq(Nat)
        BY ONLY <4>1, UtfBytes, SMT
      <4>9. Len(ToUtf8(d)) \in Nat /\ Len(UcsToUtf8(c)) \in Nat
        BY ONLY <4>7, <4>8
      <4> QED  BY ONLY <4>1, <4>5, <4>6, <4>7, <4>8, <4>9
    <3>7. content = wide' \o d
      <4>1. (wide \o <<c>>) \o d = wide \o (<<c>> \o d)
        <5>1. PICK x : x = <<c>>
          OBVIOUS
        <5>2. (wide \o x) \o d = wide \o (x \o d)
          BY ONLY <3>6, <5>1, Associative
        <5> QED  BY ONLY <5>1, <5>2
      <4>2. Append(wide, c) = wide \o <<c>>
        BY ONLY <3>6, AppendIsConcat
      <4> QED  BY ONLY <2>1, <3>2, <3>4, <3>5, <4>1, <4>2
    <3>8. place' = Len(ToUtf8(wide')) + 1
      <4>1. ToUtf8(Append(wide, c)) = ToUtf8(wide) \o UcsToUtf8(c)
        BY ONLY <3>6, ToUtf8Is
      <4>2. Len(ToUtf8(wide) \o UcsToUtf8(c)) = Len(ToUtf8(wide)) + Len(UcsToUtf8(c))
        BY ONLY <3>6, ConcatProperties
      <4>3. Len(ToUtf8(wide)) \in Nat
        BY ONLY <3>6
      <4>4. wide' = Append(wide, c)
        BY ONLY <2>1, <3>5
      <4>5. place' = (Len(ToUtf8(wide)) + 1) + Len(UcsToUtf8(c))
        BY ONLY <2>1, <3>2, <3>5
      <4>6. Len(ToUtf8(wide')) = Len(ToUtf8(wide)) + Len(UcsToUtf8(c))
        BY ONLY <4>1, <4>2, <4>4
      <4> QED  BY ONLY <3>6, <4>3, <4>5, <4>6
    <3>9. left' = Len(ToUtf8(d))
      <4>1. left = Len(UcsToUtf8(c)) + Len(ToUtf8(d))
        BY ONLY <3>2, <3>4, <3>5
      <4>2. left' = left - Len(UcsToUtf8(c))
        BY ONLY <2>1, <3>5
      <4> QED  BY ONLY <3>6, <4>1, <4>2
    <3>10. Converting'
      BY <1>0, <3>7, <3>8, <3>9 DEF Converting
    <3> QED  BY <1>0, <2>1, <3>1, <3>10 DEF OnTheWay, Texts
  <2> QED  BY <1>0, <2>3, <2>4, SameTexts DEF JxInv
<1>2. CASE ~(left > 0 /\ Wide(u) > 0)
  <2>1. jxPc' = "save" /\ place' = place /\ left' = left /\ wide' = wide
    BY <1>2 DEF ConvertChar
  <2> HIDE DEF u
  <2>2. JxTypes'
    BY <1>0, <2>1 DEF JxTypes
  <2>3. ASSUME Good PROVE OnTheWay'
    <3>1. Converting /\ loaded = Texts(<<>>, <<>>)
      BY <1>0, <2>3 DEF JxInv, OnTheWay
    <3>2. PICK b \in Seq(Storables) :
            /\ content = wide \o b /\ place = Len(ToUtf8(wide)) + 1 /\ left = Len(ToUtf8(b))
      BY <3>1 DEF Converting
    <3>3. ASSUME b # <<>> PROVE FALSE
      <4>1. PICK c \in Storables, d \in Seq(Storables) : b = <<c>> \o d
        BY <3>3, TextCases
      <4>2. /\ Wide(u) = c /\ c > 0 /\ Len(UcsToUtf8(c)) >= 1 /\ Len(UcsToUtf8(c)) \in Nat
            /\ left = Len(UcsToUtf8(c)) + Len(ToUtf8(d))
        BY <1>0, <3>2, <4>1, ConvertsNext DEF u
      <4>3. Len(ToUtf8(d)) \in Nat
        <5>1. Storables \subseteq Nat
          BY StorableIs, SMT
        <5>2. PICK A, S : A = Storables /\ S = Nat
          OBVIOUS
        <5>3. A \subseteq S /\ d \in Seq(A)
          BY ONLY <5>1, <5>2, d \in Seq(Storables)
        <5>4. d \in Seq(S)
          BY ONLY <5>3, SeqOfMore
        <5>5. ToUtf8(d) \in Seq(Nat)
          BY ONLY <5>2, <5>4, ToUtf8Is
        <5> QED  BY ONLY <5>5
      <4>4. left > 0
        BY ONLY <4>2, <4>3
      <4> QED  BY ONLY <1>2, <4>2, <4>4
    <3>4. wide = content
      <4>1. wide \o <<>> = wide
        BY <1>0, ConcatEmptySeq DEF JxTypes
      <4> QED  BY <3>2, <3>3, <4>1
    <3> QED  BY <1>0, <2>1, <3>1, <3>4 DEF OnTheWay, Texts
  <2> QED  BY <1>0, <2>2, <2>3, SameTexts DEF JxInv
<1> QED  BY <1>1, <1>2

(* The conversion back gives the bytes of the escapes, which are the       *)
(* escapes of the bytes.                                                   *)
LEMMA SaveStep == ASSUME JxInv, SaveText PROVE JxInv'
<1>0. /\ JxTypes /\ name' = name /\ content' = content /\ wide' = wide /\ place' = place
      /\ loaded' = loaded /\ jxPc = "save" /\ jxPc' = "load" /\ saved' = Document
  BY DEF JxInv, SaveText
<1>1. JxTypes'
  BY <1>0 DEF JxTypes
<1>2. ASSUME Good PROVE OnTheWay'
  <2>1. wide = content /\ loaded = Texts(<<>>, <<>>)
    BY <1>0, <1>2 DEF JxInv, OnTheWay
  <2>2. ToUtf8(EscapedText(wide)) = EscapedText(Bytes)
    BY <1>0, <2>1, EscapeCommutes DEF JxTypes, Bytes
  <2>3. PICK i, n, p, w, q : /\ i = InFront /\ n = ToUtf8(name) /\ p = Behind("name")
                             /\ w = EscapedText(Bytes) /\ q = Behind("content")
    OBVIOUS
  <2>4. i \in Seq(Nat)
    BY <2>3 DEF InFront, OpenBrace, Quote
  <2>5. n \in Seq(Nat) /\ w \in Seq(Nat)
    <3>1. ToUtf8(name) \in Seq(Nat) /\ Bytes \in Seq(Nat)
      BY <1>0, ToUtf8Is DEF JxTypes, Bytes
    <3> QED  BY ONLY <2>3, <3>1, EscapedTextIs
  <2>6. p \in Seq(Nat) /\ q \in Seq(Nat)
    BY ONLY <2>3, BehindIs
  <2>7. (((i \o n) \o p) \o w) \o q = i \o (n \o (p \o (w \o (q \o <<>>))))
    <3>1. AreTexts(i, n, p, w, q)
      BY ONLY <2>4, <2>5, <2>6 DEF AreTexts
    <3>2. AsWritten(i, n, p, w, q) = AsRead(i, n, p, w, q)
      BY ONLY <3>1, FiveParts
    <3> QED  BY ONLY <3>2 DEF AsWritten, AsRead
  <2>8. saved' = InFront \o (ToUtf8(name) \o (Behind("name") \o Rest("name")))
    BY <1>0, <2>2, <2>3, <2>7 DEF Document, Rest
  <2> QED  BY <1>0, <2>1, <2>8, SameTexts DEF OnTheWay, Texts
<1> QED  BY <1>0, <1>1, <1>2, SameTexts DEF JxInv

(* simdjson passes the brace and is in front of the name.                  *)
LEMMA LoadStep == ASSUME JxInv, LoadText PROVE JxInv'
<1>0. /\ JxTypes /\ name' = name /\ content' = content /\ wide' = wide /\ place' = place
      /\ loaded' = loaded /\ jxPc = "load"
  BY DEF JxInv, LoadText
<1>1. JxTypes'
  BY <1>0 DEF JxTypes
<1>2. ASSUME Good PROVE OnTheWay'
  <2> DEFINE behind == ToUtf8(name) \o (Behind("name") \o Rest("name"))
  <2>1. saved = InFront \o behind /\ loaded = Texts(<<>>, <<>>)
    BY <1>0, <1>2 DEF JxInv, OnTheWay
  <2>2. /\ ToUtf8(name) \in Seq(Legibles) /\ ToUtf8(name) \in Seq(Nat)
        /\ EscapedText(ToUtf8(name)) = ToUtf8(name) /\ Rest("name") \in Seq(Nat)
    BY <1>0, <1>2, GoodIs
  <2>3. behind \in Seq(Nat) /\ InFront \in Seq(Nat) /\ Len(InFront) = 2
    <3>1. Behind("name") \o Rest("name") \in Seq(Nat)
      BY <2>2, BehindIs, ConcatProperties
    <3>2. InFront \in Seq(Nat) /\ Len(InFront) = 2
      BY DEF InFront, OpenBrace, Quote
    <3> QED  BY ONLY <2>2, <3>1, <3>2, ConcatProperties
  <2> HIDE DEF behind
  <2>4. SubSeq(saved, Len(InFront) + 1, Len(saved)) = behind /\ IsPrefix(InFront, saved)
    BY ONLY <2>1, <2>3, BehindPrefix
  <2>5. SubSeq(saved, 3, Len(saved)) = behind
    BY ONLY <2>3, <2>4
  <2>6. jxPc' = "name" /\ unread' = behind
    BY <2>4, <2>5 DEF LoadText
  <2>7. <<>> \o ToUtf8(name) = ToUtf8(name) /\ <<>> \in Seq(Nat)
    BY <2>2, ConcatEmptySeq
  <2>8. Reading("name", <<>>)'
    <3>1. /\ ToUtf8(name)' = <<>> \o ToUtf8(name)
          /\ unread' = EscapedText(ToUtf8(name)) \o (Behind("name") \o Rest("name"))
      BY <1>0, <2>2, <2>6, <2>7 DEF behind
    <3> QED  BY <1>0, <2>2, <3>1, SameTexts DEF Reading, TextOf
  <2> QED  BY <1>0, <2>1, <2>6, <2>7, <2>8 DEF OnTheWay, Texts
<1> QED  BY <1>0, <1>1, <1>2, SameTexts DEF JxInv

(* A character that is taken goes from the one part to the other.          *)
LEMMA TakesNext ==
    ASSUME NEW text \in Seq(Nat), NEW r \in Seq(Nat), NEW c \in Legibles,
           NEW d \in Seq(Legibles), text = r \o (<<c>> \o d)
    PROVE  text = Append(r, c) \o d /\ Append(r, c) \in Seq(Nat)
<1>1. c \in Nat /\ Legibles \subseteq Nat
  BY StorableIs, SMT
<1>2. PICK A, S, x : A = Legibles /\ S = Nat /\ x = <<c>>
  OBVIOUS
<1>3. A \subseteq S /\ d \in Seq(A)
  BY ONLY <1>1, <1>2, d \in Seq(Legibles)
<1>4. d \in Seq(S)
  BY ONLY <1>3, SeqOfMore
<1>5. d \in Seq(Nat) /\ x \in Seq(Nat) /\ r \in Seq(Nat)
  BY ONLY <1>1, <1>2, <1>4, r \in Seq(Nat)
<1>6. (r \o x) \o d = r \o (x \o d)
  BY ONLY <1>5, Associative
<1>7. Append(r, c) = r \o <<c>> /\ Append(r, c) \in Seq(Nat)
  BY ONLY <1>1, <1>5, AppendIsConcat, AppendProperties
<1> QED  BY ONLY <1>2, <1>6, <1>7, text = r \o (<<c>> \o d)

(* The second string is what is behind the first; and the texts of both.   *)
LEMMA RestIs ==
    /\ Rest("name") = EscapedText(Bytes) \o (Behind("content") \o Rest("content"))
    /\ TextOf("name") = ToUtf8(name) /\ TextOf("content") = Bytes
<1>1. Rest("content") = <<>>
  BY DEF Rest
<1> QED  BY <1>1 DEF Rest, TextOf

LEMMA RestIsNext ==
    TextOf("name")' = ToUtf8(name)' /\ TextOf("content")' = Bytes'
  BY DEF TextOf

(* Reading in the next state, from its parts.                              *)
LEMMA ReadsOn ==
    ASSUME NEW field \in {"name", "content"}, NEW r, NEW d \in Seq(Legibles),
           TextOf(field)' = r \o d,
           unread' = EscapedText(d) \o (Behind(field) \o Rest(field)')
    PROVE  Reading(field, r)'
  BY DEF Reading

(* simdjson in the name, and in the content: the next character or the     *)
(* end.                                                                    *)
LEMMA NameStep == ASSUME JxInv, ReadString("name") PROVE JxInv'
<1>0. /\ JxTypes /\ name' = name /\ content' = content /\ wide' = wide /\ place' = place
      /\ jxPc = "name"
  BY DEF JxInv, ReadString
<1>1. JxTypes'
  BY <1>0 DEF JxTypes
<1>2. ASSUME Good PROVE OnTheWay'
  <2>1. PICK r \in Seq(Nat) : loaded = Texts(r, <<>>) /\ Reading("name", r)
    BY <1>0, <1>2 DEF JxInv, OnTheWay
  <2>2. PICK b \in Seq(Legibles) :
          /\ ToUtf8(name) = r \o b
          /\ unread = EscapedText(b) \o (Behind("name") \o Rest("name"))
    BY <2>1 DEF Reading, TextOf
  <2>3. /\ Rest("name") \in Seq(Nat) /\ ToUtf8(name) \in Seq(Nat) /\ Bytes \in Seq(Legibles)
        /\ Bytes \in Seq(Nat)
    BY <1>0, <1>2, GoodIs
  <2>4. CASE b = <<>> /\ EndsString("name") /\ unread' = Rest("name")
    <3>1. jxPc' = "content" /\ loaded' = loaded
      BY <2>4 DEF EndsString
    <3>2. ToUtf8(name) = r
      BY <2>1, <2>2, <2>4, ConcatEmptySeq
    <3>3. <<>> \o Bytes = Bytes /\ <<>> \in Seq(Nat)
      BY <2>3, ConcatEmptySeq
    <3>4. Reading("content", <<>>)'
      <4>1. Bytes' = Bytes /\ Rest("content")' = Rest("content")
        BY ONLY <1>0, SameTexts
      <4>2. TextOf("content")' = <<>> \o Bytes
        BY ONLY <3>3, <4>1, RestIsNext
      <4>3. unread' = EscapedText(Bytes) \o (Behind("content") \o Rest("content")')
        BY ONLY <2>4, <4>1, RestIs
      <4> QED  BY ONLY <2>3, <4>2, <4>3, ReadsOn
    <3>5. loaded' = Texts(ToUtf8(name), <<>>)'
      BY <1>0, <2>1, <3>1, <3>2 DEF Texts
    <3> QED  BY <3>1, <3>3, <3>4, <3>5 DEF OnTheWay
  <2>5. ASSUME NEW c \in Legibles, NEW d \in Seq(Legibles),
               b = <<c>> \o d, jxPc' = jxPc,
               loaded' = [loaded EXCEPT !["name"] = Append(@, c)],
               unread' = EscapedText(d) \o (Behind("name") \o Rest("name"))
        PROVE  OnTheWay'
    <3>1. ToUtf8(name) = Append(r, c) \o d /\ Append(r, c) \in Seq(Nat)
      BY <2>2, <2>3, <2>5, TakesNext
    <3>2. loaded' = Texts(Append(r, c), <<>>)
      BY <2>1, <2>5 DEF Texts
    <3>3. Reading("name", Append(r, c))'
      <4>1. ToUtf8(name)' = ToUtf8(name) /\ Rest("name")' = Rest("name")
        BY ONLY <1>0, SameTexts
      <4>2. TextOf("name")' = Append(r, c) \o d
        BY ONLY <3>1, <4>1, RestIsNext
      <4>3. unread' = EscapedText(d) \o (Behind("name") \o Rest("name")')
        BY ONLY <2>5, <4>1
      <4> QED  BY ONLY <4>2, <4>3, d \in Seq(Legibles), ReadsOn
    <3> QED  BY <1>0, <2>5, <3>1, <3>2, <3>3 DEF OnTheWay, Texts
  <2>6. \/ b = <<>> /\ EndsString("name") /\ unread' = Rest("name")
        \/ \E c \in Legibles, d \in Seq(Legibles) :
             /\ b = <<c>> \o d /\ jxPc' = jxPc
             /\ loaded' = [loaded EXCEPT !["name"] = Append(@, c)]
             /\ unread' = EscapedText(d) \o (Behind("name") \o Rest("name"))
    <3>1. StandsUnread("name", b, Rest("name"))
      BY ONLY <2>2 DEF StandsUnread
    <3>2. Rest("name") \in Seq(Nat)
      BY ONLY <2>3
    <3>3. ReadsByte("name", b, Rest("name"))
      BY ONLY ReadString("name"), <3>1, <3>2, b \in Seq(Legibles), ReadStep
    <3> QED  BY ONLY <3>3 DEF ReadsByte
  <2> QED  BY ONLY <2>4, <2>5, <2>6
<1> QED  BY <1>0, <1>1, <1>2, SameTexts DEF JxInv

LEMMA ContentStep == ASSUME JxInv, ReadString("content") PROVE JxInv'
<1>0. /\ JxTypes /\ name' = name /\ content' = content /\ wide' = wide /\ place' = place
      /\ jxPc = "content"
  BY DEF JxInv, ReadString
<1>1. JxTypes'
  BY <1>0 DEF JxTypes
<1>2. ASSUME Good PROVE OnTheWay'
  <2>1. PICK r \in Seq(Nat) : loaded = Texts(ToUtf8(name), r) /\ Reading("content", r)
    BY <1>0, <1>2 DEF JxInv, OnTheWay
  <2>2. PICK b \in Seq(Legibles) :
          /\ Bytes = r \o b
          /\ unread = EscapedText(b) \o (Behind("content") \o Rest("content"))
    BY <2>1 DEF Reading, TextOf
  <2>3. Rest("content") \in Seq(Nat) /\ Bytes \in Seq(Nat)
    BY <1>0, <1>2, GoodIs
  <2>4. CASE b = <<>> /\ EndsString("content") /\ unread' = Rest("content")
    <3>1. jxPc' = "read" /\ loaded' = loaded
      BY <2>4 DEF EndsString
    <3>2. Bytes = r
      BY <2>1, <2>2, <2>4, ConcatEmptySeq
    <3>3. loaded' = Texts(ToUtf8(name), Bytes)'
      <4>1. ToUtf8(name)' = ToUtf8(name) /\ Bytes' = Bytes
        BY ONLY <1>0, SameTexts
      <4> QED  BY ONLY <2>1, <3>1, <3>2, <4>1 DEF Texts
    <3> QED  BY ONLY <3>1, <3>3 DEF OnTheWay
  <2>5. ASSUME NEW c \in Legibles, NEW d \in Seq(Legibles),
               b = <<c>> \o d, jxPc' = jxPc,
               loaded' = [loaded EXCEPT !["content"] = Append(@, c)],
               unread' = EscapedText(d) \o (Behind("content") \o Rest("content"))
        PROVE  OnTheWay'
    <3>1. Bytes = Append(r, c) \o d /\ Append(r, c) \in Seq(Nat)
      BY <2>2, <2>3, <2>5, TakesNext
    <3>2. loaded' = Texts(ToUtf8(name), Append(r, c))'
      BY <1>0, <2>1, <2>5 DEF Texts
    <3>3. Reading("content", Append(r, c))'
      <4>1. Bytes' = Bytes /\ Rest("content")' = Rest("content")
        BY ONLY <1>0, SameTexts
      <4>2. TextOf("content")' = Append(r, c) \o d
        BY ONLY <3>1, <4>1, RestIsNext
      <4>3. unread' = EscapedText(d) \o (Behind("content") \o Rest("content")')
        BY ONLY <2>5, <4>1
      <4> QED  BY ONLY <4>2, <4>3, d \in Seq(Legibles), ReadsOn
    <3> QED  BY <1>0, <2>5, <3>1, <3>2, <3>3 DEF OnTheWay, Texts
  <2>6. \/ b = <<>> /\ EndsString("content") /\ unread' = Rest("content")
        \/ \E c \in Legibles, d \in Seq(Legibles) :
             /\ b = <<c>> \o d /\ jxPc' = jxPc
             /\ loaded' = [loaded EXCEPT !["content"] = Append(@, c)]
             /\ unread' = EscapedText(d) \o (Behind("content") \o Rest("content"))
    <3>1. StandsUnread("content", b, Rest("content"))
      BY ONLY <2>2 DEF StandsUnread
    <3>2. Rest("content") \in Seq(Nat)
      BY ONLY <2>3
    <3>3. ReadsByte("content", b, Rest("content"))
      BY ONLY ReadString("content"), <3>1, <3>2, b \in Seq(Legibles), ReadStep
    <3> QED  BY ONLY <3>3 DEF ReadsByte
  <2> QED  BY ONLY <2>4, <2>5, <2>6
<1> QED  BY <1>0, <1>1, <1>2, SameTexts DEF JxInv

(* A step that changes nothing.                                            *)
LEMMA JxStutters == ASSUME JxInv, UNCHANGED jxVars PROVE JxInv'
<1>1. /\ name' = name /\ content' = content /\ wide' = wide /\ place' = place /\ left' = left
      /\ saved' = saved /\ unread' = unread /\ loaded' = loaded /\ jxPc' = jxPc
  BY DEF jxVars
<1>2. JxTypes'
  BY <1>1 DEF JxInv, JxTypes
<1>3. Converting' <=> Converting
  BY <1>1 DEF Converting
<1>4. /\ ToUtf8(name)' = ToUtf8(name) /\ Bytes' = Bytes
      /\ Rest("name")' = Rest("name") /\ Rest("content")' = Rest("content")
  BY ONLY <1>1, SameTexts
<1>5. \A r : (Reading("name", r)' <=> Reading("name", r))
            /\ (Reading("content", r)' <=> Reading("content", r))
  BY ONLY <1>1, <1>4, RestIs, RestIsNext DEF Reading
<1>6. OnTheWay => OnTheWay'
  BY ONLY <1>1, <1>3, <1>4, <1>5 DEF OnTheWay, Texts
<1> QED  BY <1>1, <1>2, <1>6, SameTexts DEF JxInv

(* The property from the invariant, and from UnescapeUndoesEscape.         *)
LEMMA JxInvSays == JxInv => TextSurvives
<1> SUFFICES ASSUME JxInv PROVE TextSurvives
  OBVIOUS
<1>1. Unescaped(EscapedText(wide)) = wide
  BY UnescapeUndoesEscape DEF JxInv, JxTypes
<1>2. ASSUME Good
      PROVE  /\ jxPc # "unreadable"
             /\ jxPc = "read" => loaded = [name |-> ToUtf8(name), content |-> Bytes]
  BY <1>2 DEF JxInv, OnTheWay, Texts
<1> QED  BY <1>1, <1>2 DEF TextSurvives, Good

(* A string of storable characters, and a name of harmless ones, come back *)
(* from the data file as they were, for all texts of any length:           *)
(* from_utf8, escape, to_utf8 and simdjson undo each other, and the        *)
(* fallback unescapes what was escaped.                                    *)
THEOREM TextsSurvive == JxSpec => []TextSurvives
<1>1. JxInv /\ [JxNext]_jxVars => JxInv'
  <2> SUFFICES ASSUME JxInv, [JxNext]_jxVars PROVE JxInv'
    OBVIOUS
  <2>1. CASE ConvertChar
    BY <2>1, ConvertStep
  <2>2. CASE SaveText
    BY <2>2, SaveStep
  <2>3. CASE LoadText
    BY <2>3, LoadStep
  <2>4. CASE ReadString("name")
    BY <2>4, NameStep
  <2>5. CASE ReadString("content")
    BY <2>5, ContentStep
  <2>6. CASE UNCHANGED jxVars
    BY <2>6, JxStutters
  <2> QED  BY <2>1, <2>2, <2>3, <2>4, <2>5, <2>6 DEF JxNext
<1> QED  BY <1>1, JxInitHolds, JxInvSays, PTL DEF JxSpec
================================================================================
