------------------------------- MODULE HttpProofs ------------------------------
(***************************************************************************)
(* HttpRequest for every URL and every text that is given for a date: the  *)
(* parser takes a URL apart into the parts it was made of, whatever        *)
(* delimiters the later parts have, and the request asks for them.         *)
(*                                                                         *)
(* HttpReader for every set of bodies: whatever the server sends, however  *)
(* it is framed and wherever the pieces that arrive begin and end, it is   *)
(* read as it was sent and not beyond.                                     *)
(***************************************************************************)
EXTENDS HttpRequest, HttpReader, SequenceTheorems, WellFoundedInduction, TLAPS

(* d is not in s.                                                          *)
Without(s, d) == \A i \in 1..Len(s) : s[i] # d

LEMMA WithoutIsRange ==
    ASSUME NEW S, NEW s \in Seq(S), NEW d
    PROVE  Without(s, d) <=> d \notin Range(s)
  BY LenProperties DEF Without, Range

LEMMA WithoutConcat ==
    ASSUME NEW S, NEW a \in Seq(S), NEW b \in Seq(S), NEW d, Without(a, d), Without(b, d)
    PROVE  a \o b \in Seq(S) /\ Without(a \o b, d)
<1>1. /\ Len(a) \in Nat /\ Len(b) \in Nat /\ Len(a \o b) = Len(a) + Len(b) /\ a \o b \in Seq(S)
      /\ \A i \in 1..(Len(a) + Len(b)) : (a \o b)[i] = IF i <= Len(a) THEN a[i] ELSE b[i - Len(a)]
  BY ConcatProperties, LenProperties
<1>2. ASSUME NEW i \in 1..Len(a \o b) PROVE (a \o b)[i] # d
  <2>1. CASE i <= Len(a)
    BY <1>1, <2>1 DEF Without
  <2>2. CASE ~(i <= Len(a))
    <3>1. i - Len(a) \in 1..Len(b)
      BY <1>1, <2>2
    <3> QED  BY <1>1, <2>2, <3>1 DEF Without
  <2> QED  BY <2>1, <2>2
<1> QED  BY <1>1, <1>2 DEF Without

(* A text behind its first part, and the first part of a text.             *)
LEMMA SubSeqOfConcat ==
    ASSUME NEW S, NEW a \in Seq(S), NEW b \in Seq(S)
    PROVE  /\ SubSeq(a \o b, Len(a) + 1, Len(a \o b)) = b
           /\ SubSeq(a \o b, 1, Len(a)) = a
<1> DEFINE c == a \o b
           m == Len(a)
           n == Len(b)
<1>1. /\ m \in Nat /\ n \in Nat /\ Len(c) = m + n /\ c \in Seq(S)
      /\ \A i \in 1..(m + n) : c[i] = IF i <= m THEN a[i] ELSE b[i - m]
  BY ConcatProperties, LenProperties
<1> HIDE DEF c, m, n
<1>2. \A i \in 1..Len(c) : c[i] \in S
  BY <1>1, ElementOfSeq
<1>3. SubSeq(c, m + 1, Len(c)) = b
  <2> DEFINE t == SubSeq(c, m + 1, Len(c))
  <2>1. \A i \in (m + 1)..Len(c) : c[i] \in S
    BY <1>1, <1>2
  <2>2. /\ t \in Seq(S) /\ Len(t) = IF m + 1 <= Len(c) THEN Len(c) - (m + 1) + 1 ELSE 0
        /\ \A i \in 1..(Len(c) - (m + 1) + 1) : t[i] = c[(m + 1) + i - 1]
    <3>1. m + 1 \in Int /\ Len(c) \in Int
      BY <1>1
    <3> HIDE DEF t
    <3> QED  BY <2>1, <3>1, SubSeqProperties DEF t
  <2> HIDE DEF t
  <2>3. Len(t) = n
    BY <1>1, <2>2
  <2>4. ASSUME NEW i \in 1..n PROVE t[i] = b[i]
    <3>1. i \in 1..(Len(c) - (m + 1) + 1) /\ (m + 1) + i - 1 = m + i /\ m + i \in 1..(m + n)
          /\ ~(m + i <= m) /\ (m + i) - m = i
      BY <1>1
    <3> QED  BY <1>1, <2>2, <3>1
  <2> QED  BY <2>2, <2>3, <2>4, SeqEqual DEF t, n
<1>4. SubSeq(c, 1, m) = a
  <2> DEFINE t == SubSeq(c, 1, m)
  <2>1. \A i \in 1..m : c[i] \in S
    BY <1>1, <1>2
  <2>2. /\ t \in Seq(S) /\ Len(t) = IF 1 <= m THEN m - 1 + 1 ELSE 0
        /\ \A i \in 1..(m - 1 + 1) : t[i] = c[1 + i - 1]
    <3>1. 1 \in Int /\ m \in Int
      BY <1>1
    <3> HIDE DEF t
    <3> QED  BY <2>1, <3>1, SubSeqProperties DEF t
  <2> HIDE DEF t
  <2>3. Len(t) = m
    BY <1>1, <2>2
  <2>4. ASSUME NEW i \in 1..m PROVE t[i] = a[i]
    <3>1. i \in 1..(m - 1 + 1) /\ 1 + i - 1 = i /\ i <= m /\ i \in 1..(m + n)
      BY <1>1
    <3> QED  BY <1>1, <2>2, <3>1
  <2> QED  BY <2>2, <2>3, <2>4, SeqEqual DEF t, m
<1> QED  BY <1>3, <1>4 DEF c, m

LEMMA MinOf ==
    ASSUME NEW S \in SUBSET Nat, NEW n \in S, \A k \in S : n <= k
    PROVE  Min(S) = n
<1>1. Min(S) \in S /\ \A k \in S : Min(S) <= k
  BY DEF Min
<1>2. Min(S) \in Nat /\ n \in Nat /\ Min(S) <= n /\ n <= Min(S)
  BY <1>1
<1> QED  BY <1>2

(* Where CutAt cuts.                                                       *)
LEMMA CutIs ==
    ASSUME NEW s, NEW d
    PROVE  CutAt(s, d) = [found |-> Find(s, d) <= Len(s), before |-> SubSeq(s, 1, Find(s, d) - 1),
                          after |-> SubSeq(s, Find(s, d) + 1, Len(s))]
  BY Zenon DEF CutAt

LEMMA FirstPlace ==
    ASSUME NEW S, NEW s \in Seq(S), NEW d, NEW k \in 1..(Len(s) + 1),
           \A i \in 1..(k - 1) : s[i] # d, k <= Len(s) => s[k] = d
    PROVE  /\ CutAt(s, d).found <=> k <= Len(s)
           /\ CutAt(s, d).before = SubSeq(s, 1, k - 1)
           /\ CutAt(s, d).after = SubSeq(s, k + 1, Len(s))
<1> DEFINE P == {Len(s) + 1} \cup {i \in DOMAIN s : s[i] = d}
<1>1. Len(s) \in Nat /\ DOMAIN s = 1..Len(s)
  BY LenProperties
<1>2. \A i \in P : i \in Nat /\ (i = Len(s) + 1 \/ (i \in 1..Len(s) /\ s[i] = d))
  BY <1>1
<1>3. k \in P
  <2>1. k = Len(s) + 1 \/ k \in 1..Len(s)
    BY <1>1
  <2> QED  BY <1>1, <2>1
<1>4. ASSUME NEW i \in P PROVE k <= i
  <2>1. CASE i = Len(s) + 1
    BY <1>1, <2>1
  <2>2. CASE i \in 1..Len(s) /\ s[i] = d
    <3> HIDE DEF P
    <3>1. i \notin 1..(k - 1)
      BY <2>2
    <3> QED  BY <1>1, <2>2, <3>1
  <2> QED  BY <1>2, <2>1, <2>2
<1>5. Find(s, d) = k
  <2>1. P \in SUBSET Nat
    BY <1>2
  <2>2. Min(P) = k
    BY <1>3, <1>4, <2>1, MinOf
  <2> QED  BY <2>2 DEF Find
<1> DEFINE before == SubSeq(s, 1, k - 1)
           after == SubSeq(s, k + 1, Len(s))
           found == k <= Len(s)
<1>6. CutAt(s, d) = [found |-> found, before |-> before, after |-> after]
  BY ONLY <1>5, CutIs, Zenon
<1> HIDE DEF before, after, found
<1>7. (CutAt(s, d).found <=> found) /\ CutAt(s, d).before = before /\ CutAt(s, d).after = after
  BY ONLY <1>6
<1> QED  BY ONLY <1>7, Zenon DEF found, before, after

LEMMA ConcatPlaces ==
    ASSUME NEW S, NEW a \in Seq(S), NEW b \in Seq(S)
    PROVE  /\ a \o b \in Seq(S) /\ Len(a \o b) = Len(a) + Len(b)
           /\ Len(a) \in Nat /\ Len(b) \in Nat
           /\ \A i \in 1..Len(a) : (a \o b)[i] = a[i]
           /\ \A i \in 1..Len(b) : (a \o b)[Len(a) + i] = b[i]
  BY ConcatProperties, LenProperties

LEMMA OneWord ==
    ASSUME NEW S, NEW d \in S
    PROVE  <<d>> \in Seq(S) /\ Len(<<d>>) = 1 /\ <<d>>[1] = d
  OBVIOUS

(* A text is cut at the delimiter behind a part that does not have it.     *)
LEMMA CutBetween ==
    ASSUME NEW S, NEW a \in Seq(S), NEW e \in Seq(S), NEW b \in Seq(S), Len(e) = 1, Without(a, e[1])
    PROVE  LET s == a \o (e \o b) IN
           /\ s \in Seq(S)
           /\ CutAt(s, e[1]).found /\ CutAt(s, e[1]).before = a /\ CutAt(s, e[1]).after = b
<1> DEFINE r == e \o b
           s == a \o r
           m == Len(a)
           d == e[1]
<1>1. r \in Seq(S) /\ Len(r) = Len(b) + 1 /\ r[1] = d /\ m \in Nat /\ Len(b) \in Nat
  <2>1. 1 \in 1..Len(e)
    OBVIOUS
  <2> HIDE DEF d
  <2> QED  BY <2>1, ConcatPlaces DEF d
<1> HIDE DEF r
<1>2. /\ s \in Seq(S) /\ Len(s) = m + (Len(b) + 1)
      /\ \A i \in 1..m : s[i] = a[i]
      /\ s[m + 1] = d
  <2>1. /\ s \in Seq(S) /\ Len(s) = m + Len(r)
        /\ \A i \in 1..m : s[i] = a[i]
        /\ \A i \in 1..Len(r) : s[m + i] = r[i]
    <3>1. r \in Seq(S)
      BY <1>1
    <3> HIDE DEF d
    <3> QED  BY <3>1, ConcatPlaces
  <2>2. 1 \in 1..Len(r)
    BY <1>1
  <2> QED  BY <1>1, <2>1, <2>2
<1>3. s = (a \o e) \o b /\ a \o e \in Seq(S) /\ Len(a \o e) = m + 1
  <2>1. s = (a \o e) \o b
    BY ConcatAssociative DEF r
  <2> HIDE DEF s, d
  <2>2. a \o e \in Seq(S) /\ Len(a \o e) = m + Len(e)
    BY ConcatPlaces
  <2> QED  BY <2>1, <2>2
<1>4. SubSeq(s, 1, m) = a
  BY <1>1, SubSeqOfConcat
<1>5. SubSeq(s, m + 2, Len(s)) = b
  <2>1. SubSeq((a \o e) \o b, Len(a \o e) + 1, Len((a \o e) \o b)) = b
    BY <1>3, SubSeqOfConcat
  <2>2. Len(a \o e) + 1 = m + 2
    BY <1>1, <1>3
  <2> QED  BY <1>3, <2>1, <2>2
<1> HIDE DEF s
<1>6. \A i \in 1..m : s[i] # d
  BY <1>2 DEF Without
<1> HIDE DEF m, d
<1>7. /\ m + 1 \in 1..(Len(s) + 1) /\ m + 1 <= Len(s) /\ (m + 1) - 1 = m /\ (m + 1) + 1 = m + 2
  BY <1>1, <1>2
<1> DEFINE k == m + 1
<1>8. /\ s \in Seq(S) /\ k \in 1..(Len(s) + 1) /\ \A i \in 1..(k - 1) : s[i] # d
      /\ k <= Len(s) => s[k] = d
  BY <1>2, <1>6, <1>7
<1>9. k <= Len(s) /\ k - 1 = m /\ k + 1 = m + 2
  BY <1>7
<1> HIDE DEF k
<1>10. /\ CutAt(s, d).found <=> k <= Len(s)
       /\ CutAt(s, d).before = SubSeq(s, 1, k - 1)
       /\ CutAt(s, d).after = SubSeq(s, k + 1, Len(s))
  BY ONLY <1>8, FirstPlace
<1> QED  BY <1>2, <1>4, <1>5, <1>9, <1>10 DEF s, r, d, m

LEMMA CutFound ==
    ASSUME NEW S, NEW a \in Seq(S), NEW b \in Seq(S), NEW d \in S, Without(a, d)
    PROVE  LET s == a \o (<<d>> \o b) IN
           /\ s \in Seq(S)
           /\ CutAt(s, d).found /\ CutAt(s, d).before = a /\ CutAt(s, d).after = b
<1> DEFINE e == <<d>>
<1>1. e \in Seq(S) /\ Len(e) = 1 /\ e[1] = d
  BY OneWord
<1> HIDE DEF e
<1>2. LET s == a \o (e \o b) IN
      /\ s \in Seq(S)
      /\ CutAt(s, e[1]).found /\ CutAt(s, e[1]).before = a /\ CutAt(s, e[1]).after = b
  BY <1>1, CutBetween
<1> QED  BY <1>1, <1>2 DEF e

LEMMA CutNowhere ==
    ASSUME NEW S, NEW a \in Seq(S), NEW d, Without(a, d)
    PROVE  ~CutAt(a, d).found /\ CutAt(a, d).before = a /\ CutAt(a, d).after = <<>>
<1> DEFINE m == Len(a)
<1>1. m \in Nat
  BY LenProperties
<1>2. SubSeq(a, 1, m) = a
  BY SubSeqFull
<1>3. SubSeq(a, m + 2, m) = <<>>
  BY <1>1, SubSeqEmpty
<1>4. /\ m + 1 \in 1..(m + 1) /\ ~(m + 1 <= m) /\ (m + 1) - 1 = m /\ (m + 1) + 1 = m + 2
  BY <1>1
<1>5. /\ CutAt(a, d).found <=> m + 1 <= m
      /\ CutAt(a, d).before = SubSeq(a, 1, (m + 1) - 1)
      /\ CutAt(a, d).after = SubSeq(a, (m + 1) + 1, m)
  BY <1>4, FirstPlace DEF Without
<1> HIDE DEF m
<1> QED  BY <1>2, <1>3, <1>4, <1>5

(* Both, for a part that may be missing.                                   *)
LEMMA CutPart ==
    ASSUME NEW S, NEW a \in Seq(S), NEW p \in Seq(S), NEW d \in S, Without(a, d)
    PROVE  LET s == a \o Optional(d, p) IN
           /\ s \in Seq(S)
           /\ CutAt(s, d).found <=> p # <<>>
           /\ CutAt(s, d).before = a /\ CutAt(s, d).after = p
<1>1. CASE p = <<>>
  <2>1. a \o Optional(d, p) = a
    BY <1>1, ConcatEmptySeq DEF Optional
  <2>2. ~CutAt(a, d).found /\ CutAt(a, d).before = a /\ CutAt(a, d).after = <<>>
    BY CutNowhere
  <2> HIDE DEF Optional
  <2> QED  BY <1>1, <2>1, <2>2
<1>2. CASE p # <<>>
  <2>1. a \o Optional(d, p) = a \o (<<d>> \o p)
    BY <1>2 DEF Optional
  <2> QED  BY <1>2, <2>1, CutFound
<1> QED  BY <1>1, <1>2

--------------------------------------------------------------------------------
(* The parser gives back the parts of a URL.                               *)

LEMMA Shift ==
    ASSUME NEW S, NEW p \in Seq(S), NEW a \in Seq(S), NEW z \in Seq(S), NEW q, q = p \o a
    PROVE  q \o z = p \o (a \o z) /\ a \o z \in Seq(S)
<1>1. (p \o a) \o z = p \o (a \o z)
  BY ConcatAssociative
<1>2. a \o z \in Seq(S)
  BY ConcatProperties
<1> QED  BY <1>1, <1>2

LEMMA OptionalPart ==
    ASSUME NEW S, NEW p \in Seq(S), NEW d \in S
    PROVE  /\ Optional(d, p) \in Seq(S)
           /\ \A c : c # d /\ Without(p, c) => Without(Optional(d, p), c)
<1>1. CASE p = <<>>
  BY <1>1 DEF Optional
<1>2. CASE p # <<>>
  <2>1. <<d>> \in Seq(S) /\ \A c : c # d => Without(<<d>>, c)
    BY OneWord DEF Without
  <2>2. Optional(d, p) = <<d>> \o p
    BY <1>2 DEF Optional
  <2>3. Optional(d, p) \in Seq(S)
    BY <2>1, <2>2, ConcatPlaces
  <2>4. ASSUME NEW c, c # d, Without(p, c) PROVE Without(Optional(d, p), c)
    <3>1. Without(<<d>>, c)
      BY <2>1, <2>4
    <3> QED  BY <2>1, <2>2, <2>4, <3>1, WithoutConcat
  <2> QED  BY <2>3, <2>4
<1> QED  BY <1>1, <1>2

LEMMA FirstWord ==
    ASSUME NEW S, NEW p \in Seq(S), p # <<>>
    PROVE  Tail(p) \in Seq(S) /\ p = <<p[1]>> \o Tail(p) /\ p[1] \in S
<1>1. Len(p) \in Nat \ {0}
  BY EmptySeq
<1>2. Tail(p) \in Seq(S)
  BY HeadTailProperties
<1>3. p[1] \in S
  <2>1. 1 \in 1..Len(p)
    BY <1>1
  <2> QED  BY <2>1, ElementOfSeq
<1>4. p = <<p[1]>> \o Tail(p)
  <2>1. 1 \in 1..Len(p) /\ Len(p) \in 1..Len(p) /\ 1 + 1 = 2
    BY <1>1
  <2>2. SubSeq(p, 1, Len(p)) = <<p[1]>> \o SubSeq(p, 1 + 1, Len(p))
    BY <2>1, SubSeqRecursiveFirst
  <2>3. SubSeq(p, 1, Len(p)) = p /\ SubSeq(p, 2, Len(p)) = Tail(p)
    BY SubSeqFull, TailIsSubSeq
  <2> QED  BY <2>1, <2>2, <2>3
<1> QED  BY <1>2, <1>3, <1>4

(* A URL whose texts are over S.                                           *)
UrlOver(S, u) ==
    /\ u.scheme \in Seq(S) /\ u.user \in Seq(S) /\ u.password \in Seq(S) /\ u.host \in Seq(S)
    /\ u.port \in Seq(S) /\ u.path \in Seq(S) /\ u.query \in Seq(S) /\ u.fragment \in Seq(S)
    /\ UrlDelimiters \subseteq S
    /\ \A d \in UrlDelimiters : /\ Without(u.scheme, d) /\ Without(u.user, d)
                                /\ Without(u.password, d) /\ Without(u.host, d) /\ Without(u.port, d)
    /\ Without(u.path, "?") /\ Without(u.path, "#") /\ (u.path = <<>> \/ u.path[1] = "/")
    /\ Without(u.query, "#")
    /\ u.user = <<>> => u.password = <<>>

UserInfo(u) == IF u.user = <<>> THEN <<>> ELSE u.user \o Optional(":", u.password) \o <<"@">>
Authority(u) == UserInfo(u) \o u.host \o Optional(":", u.port)
Beginning(u) == u.scheme \o <<":", "/", "/">>
Rest(u) == Authority(u) \o u.path \o Optional("?", u.query) \o Optional("#", u.fragment)

LEMMA DelimitersDiffer ==
    /\ UrlDelimiters = {":", "/", "?", "#", "@"}
    /\ ":" # "/" /\ ":" # "?" /\ ":" # "#" /\ ":" # "@" /\ "/" # "?" /\ "/" # "#" /\ "/" # "@"
    /\ "?" # "#" /\ "?" # "@" /\ "#" # "@"
  BY DEF UrlDelimiters

LEMMA AuthorityWords ==
    ASSUME NEW S, NEW u, UrlOver(S, u)
    PROVE  /\ UserInfo(u) \in Seq(S) /\ Authority(u) \in Seq(S)
           /\ \A d \in {"/", "?", "#"} : Without(Authority(u), d)
<1>0. /\ u.user \in Seq(S) /\ u.password \in Seq(S) /\ u.host \in Seq(S) /\ u.port \in Seq(S)
      /\ ":" \in S /\ "@" \in S
      /\ \A d \in UrlDelimiters : /\ Without(u.user, d) /\ Without(u.password, d)
                                  /\ Without(u.host, d) /\ Without(u.port, d)
  BY DelimitersDiffer DEF UrlOver
<1>1. /\ Optional(":", u.password) \in Seq(S) /\ Optional(":", u.port) \in Seq(S)
      /\ <<"@">> \in Seq(S)
  BY <1>0, OptionalPart, OneWord
<1>2. ASSUME NEW d \in {"/", "?", "#"}
      PROVE  /\ UserInfo(u) \in Seq(S) /\ Without(UserInfo(u), d)
             /\ Authority(u) \in Seq(S) /\ Without(Authority(u), d)
  <2>1. d \in UrlDelimiters /\ d # ":" /\ d # "@"
    BY DelimitersDiffer
  <2>2. /\ Without(u.user, d) /\ Without(u.password, d) /\ Without(u.host, d) /\ Without(u.port, d)
    BY <1>0, <2>1
  <2>3. /\ Without(Optional(":", u.password), d) /\ Without(Optional(":", u.port), d)
        /\ Without(<<"@">>, d)
    <3>1. Without(<<"@">>, d)
      <4>1. Len(<<"@">>) = 1 /\ <<"@">>[1] = "@"
        BY <1>0, OneWord
      <4> QED  BY <2>1, <4>1 DEF Without
    <3>2. Without(Optional(":", u.password), d)
      BY <1>0, <2>1, <2>2, OptionalPart
    <3>3. Without(Optional(":", u.port), d)
      BY <1>0, <2>1, <2>2, OptionalPart
    <3> QED  BY <3>1, <3>2, <3>3
  <2>4. UserInfo(u) \in Seq(S) /\ Without(UserInfo(u), d)
    <3>1. /\ u.user \o Optional(":", u.password) \in Seq(S)
          /\ Without(u.user \o Optional(":", u.password), d)
      BY <1>0, <1>1, <2>2, <2>3, WithoutConcat
    <3>2. /\ u.user \o Optional(":", u.password) \o <<"@">> \in Seq(S)
          /\ Without(u.user \o Optional(":", u.password) \o <<"@">>, d)
      BY <1>1, <2>3, <3>1, WithoutConcat
    <3>3. <<>> \in Seq(S) /\ Without(<<>>, d)
      BY DEF Without
    <3> QED  BY <3>2, <3>3 DEF UserInfo
  <2>5. UserInfo(u) \o u.host \in Seq(S) /\ Without(UserInfo(u) \o u.host, d)
    BY <1>0, <2>2, <2>4, WithoutConcat
  <2>6. Authority(u) \in Seq(S) /\ Without(Authority(u), d)
    BY <1>1, <2>3, <2>5, WithoutConcat DEF Authority
  <2> QED  BY <2>4, <2>6
<1> QED  BY <1>2

(* The host part: the user is cut off, and the port behind the host.       *)
LEMMA AuthorityCut ==
    ASSUME NEW S, NEW u, UrlOver(S, u)
    PROVE  LET user == CutAt(Authority(u), "@")
               password == CutAt(user.before, ":")
               host == CutAt(IF user.found THEN user.after ELSE Authority(u), ":")
           IN /\ user.found <=> u.user # <<>>
              /\ user.found => password.before = u.user /\ password.after = u.password
              /\ host.before = u.host /\ host.after = u.port
<1> DEFINE A == Authority(u)
           O == Optional(":", u.port)
           T == u.host \o O
           W == u.user \o Optional(":", u.password)
<1>0. /\ u.user \in Seq(S) /\ u.password \in Seq(S) /\ u.host \in Seq(S) /\ u.port \in Seq(S)
      /\ ":" \in S /\ "@" \in S /\ ":" # "@" /\ ":" \in UrlDelimiters /\ "@" \in UrlDelimiters
      /\ \A d \in UrlDelimiters : /\ Without(u.user, d) /\ Without(u.password, d)
                                  /\ Without(u.host, d) /\ Without(u.port, d)
  BY DelimitersDiffer DEF UrlOver
<1>1. /\ O \in Seq(S) /\ Without(O, "@")
      /\ Optional(":", u.password) \in Seq(S) /\ Without(Optional(":", u.password), "@")
  BY <1>0, OptionalPart
<1>2. T \in Seq(S) /\ Without(T, "@") /\ CutAt(T, ":").before = u.host /\ CutAt(T, ":").after = u.port
  <2>1. T \in Seq(S) /\ Without(T, "@")
    BY <1>0, <1>1, WithoutConcat
  <2>2. LET s == u.host \o Optional(":", u.port) IN
        /\ s \in Seq(S)
        /\ CutAt(s, ":").found <=> u.port # <<>>
        /\ CutAt(s, ":").before = u.host /\ CutAt(s, ":").after = u.port
    <3>1. u.host \in Seq(S) /\ u.port \in Seq(S) /\ ":" \in S /\ Without(u.host, ":")
      BY <1>0
    <3> HIDE DEF A, O, T, W
    <3> QED  BY <3>1, CutPart
  <2> QED  BY <2>1, <2>2
<1>3. W \in Seq(S) /\ Without(W, "@") /\ CutAt(W, ":").before = u.user /\ CutAt(W, ":").after = u.password
  <2>1. W \in Seq(S) /\ Without(W, "@")
    BY <1>0, <1>1, WithoutConcat
  <2>2. LET s == u.user \o Optional(":", u.password) IN
        /\ s \in Seq(S)
        /\ CutAt(s, ":").found <=> u.password # <<>>
        /\ CutAt(s, ":").before = u.user /\ CutAt(s, ":").after = u.password
    <3>1. u.user \in Seq(S) /\ u.password \in Seq(S) /\ ":" \in S /\ Without(u.user, ":")
      BY <1>0
    <3> HIDE DEF A, O, T, W
    <3> QED  BY <3>1, CutPart
  <2> QED  BY <2>1, <2>2
<1>4. CASE u.user = <<>>
  <2>1. A = T
    <3>1. UserInfo(u) = <<>>
      BY <1>4 DEF UserInfo
    <3>2. UserInfo(u) \o u.host = u.host
      BY <1>0, <3>1, ConcatEmptySeq
    <3> QED  BY <3>2 DEF Authority
  <2>2. ~CutAt(A, "@").found
    BY <1>2, <2>1, CutNowhere
  <2> HIDE DEF A, T
  <2> QED  BY <1>2, <1>4, <2>1, <2>2 DEF A
<1>5. CASE u.user # <<>>
  <2>1. A = W \o (<<"@">> \o T)
    <3> DEFINE e == <<"@">>
    <3>0. e \in Seq(S) /\ e \o u.host \in Seq(S)
      BY <1>0, OneWord, ConcatPlaces
    <3>1. A = ((W \o e) \o u.host) \o O
      BY <1>5 DEF Authority, UserInfo
    <3> HIDE DEF e, W, O, A
    <3> DEFINE h == u.host
               H == e \o h
    <3>2. h \in Seq(S) /\ H \in Seq(S)
      BY <1>0, <3>0
    <3> HIDE DEF h, H
    <3>6. W \in Seq(S) /\ e \in Seq(S) /\ h \in Seq(S) /\ O \in Seq(S)
      BY <1>1, <1>3, <3>0, <3>2
    <3>3. (W \o e) \o h = W \o (e \o h)
      <4>1. W \in Seq(S) /\ e \in Seq(S) /\ h \in Seq(S)
        BY <3>6
      <4> QED  BY ONLY <4>1, ConcatAssociative
    <3>4. (W \o H) \o O = W \o (H \o O)
      <4>1. W \in Seq(S) /\ H \in Seq(S) /\ O \in Seq(S)
        BY <3>2, <3>6
      <4> QED  BY ONLY <4>1, ConcatAssociative
    <3>5. (e \o h) \o O = e \o (h \o O)
      <4>1. e \in Seq(S) /\ h \in Seq(S) /\ O \in Seq(S)
        BY <3>6
      <4> QED  BY ONLY <4>1, ConcatAssociative
    <3> QED  BY <3>1, <3>3, <3>4, <3>5 DEF H, e, h, T
  <2> HIDE DEF A, W, T
  <2>2. CutAt(A, "@").found /\ CutAt(A, "@").before = W /\ CutAt(A, "@").after = T
    BY <1>0, <1>2, <1>3, <2>1, CutFound
  <2> QED  BY <1>2, <1>3, <1>5, <2>2 DEF A
<1> QED  BY <1>4, <1>5

(* The scheme in front.                                                    *)
LEMMA BeginningWords ==
    ASSUME NEW S, NEW u, UrlOver(S, u)
    PROVE  /\ Beginning(u) \in Seq(S) /\ Len(Beginning(u)) = Len(u.scheme) + 3
           /\ Len(u.scheme) \in Nat
           /\ \A i \in 1..Len(u.scheme) : Beginning(u)[i] = u.scheme[i]
           /\ Beginning(u)[Len(u.scheme) + 1] = ":"
           /\ Beginning(u)[Len(u.scheme) + 2] = "/" /\ Beginning(u)[Len(u.scheme) + 3] = "/"
<1> DEFINE e == <<":", "/", "/">>
           a == u.scheme
<1>1. a \in Seq(S) /\ ":" \in S /\ "/" \in S
  BY DelimitersDiffer DEF UrlOver
<1>2. e \in Seq(S) /\ Len(e) = 3 /\ e[1] = ":" /\ e[2] = "/" /\ e[3] = "/"
  BY <1>1
<1> HIDE DEF e, a
<1>3. /\ a \o e \in Seq(S) /\ Len(a \o e) = Len(a) + Len(e) /\ Len(a) \in Nat
      /\ \A i \in 1..Len(a) : (a \o e)[i] = a[i]
      /\ \A i \in 1..Len(e) : (a \o e)[Len(a) + i] = e[i]
  <2>1. a \in Seq(S) /\ e \in Seq(S)
    BY <1>1, <1>2
  <2> QED  BY ONLY <2>1, ConcatPlaces
<1>4. 1 \in 1..Len(e) /\ 2 \in 1..Len(e) /\ 3 \in 1..Len(e)
  BY <1>2
<1>5. Beginning(u) = a \o e
  BY DEF Beginning, a, e
<1>6. /\ (a \o e)[Len(a) + 1] = ":" /\ (a \o e)[Len(a) + 2] = "/" /\ (a \o e)[Len(a) + 3] = "/"
      /\ Len(a \o e) = Len(a) + 3
  BY <1>2, <1>3, <1>4
<1> QED  BY <1>3, <1>5, <1>6 DEF a

LEMMA TextOfUrl ==
    ASSUME NEW S, NEW u, UrlOver(S, u)
    PROVE  UrlText(u) = Beginning(u) \o Rest(u) /\ Rest(u) \in Seq(S) /\ UrlText(u) \in Seq(S)
<1> DEFINE p == Beginning(u)
           b == u.host
           c == Optional(":", u.port)
           d == u.path
           e == Optional("?", u.query)
           f == Optional("#", u.fragment)
           A0 == UserInfo(u)  P0 == p \o A0
           A1 == A0 \o b      P1 == P0 \o b
           A2 == A1 \o c      P2 == P1 \o c
           A3 == A2 \o d      P3 == P2 \o d
           A4 == A3 \o e      P4 == P3 \o e
           A5 == A4 \o f      P5 == P4 \o f
<1>1. /\ p \in Seq(S) /\ A0 \in Seq(S) /\ b \in Seq(S) /\ d \in Seq(S)
      /\ u.port \in Seq(S) /\ u.query \in Seq(S) /\ u.fragment \in Seq(S)
      /\ ":" \in S /\ "?" \in S /\ "#" \in S
  BY BeginningWords, AuthorityWords, DelimitersDiffer DEF UrlOver
<1>2. c \in Seq(S) /\ e \in Seq(S) /\ f \in Seq(S)
  BY <1>1, OptionalPart
<1>3. UrlText(u) = P5
  BY DEF UrlText, Beginning, UserInfo
<1>4. Rest(u) = A5
  BY DEF Rest, Authority
<1> HIDE DEF p, b, c, d, e, f, A0
<1>5. P0 = p \o A0
  OBVIOUS
<1> HIDE DEF P0
<1>6. P1 = p \o A1 /\ A1 \in Seq(S)
  <2>1. p \in Seq(S) /\ A0 \in Seq(S) /\ b \in Seq(S) /\ P0 = p \o A0
    BY <1>1, <1>5
  <2> QED  BY ONLY <2>1, Shift DEF A1, P1
<1> HIDE DEF A1, P1
<1>7. P2 = p \o A2 /\ A2 \in Seq(S)
  <2>1. p \in Seq(S) /\ A1 \in Seq(S) /\ c \in Seq(S) /\ P1 = p \o A1
    BY <1>1, <1>2, <1>6
  <2> QED  BY ONLY <2>1, Shift DEF A2, P2
<1> HIDE DEF A2, P2
<1>8. P3 = p \o A3 /\ A3 \in Seq(S)
  <2>1. p \in Seq(S) /\ A2 \in Seq(S) /\ d \in Seq(S) /\ P2 = p \o A2
    BY <1>1, <1>7
  <2> QED  BY ONLY <2>1, Shift DEF A3, P3
<1> HIDE DEF A3, P3
<1>9. P4 = p \o A4 /\ A4 \in Seq(S)
  <2>1. p \in Seq(S) /\ A3 \in Seq(S) /\ e \in Seq(S) /\ P3 = p \o A3
    BY <1>1, <1>2, <1>8
  <2> QED  BY ONLY <2>1, Shift DEF A4, P4
<1> HIDE DEF A4, P4
<1>10. P5 = p \o A5 /\ A5 \in Seq(S)
  <2>1. p \in Seq(S) /\ A4 \in Seq(S) /\ f \in Seq(S) /\ P4 = p \o A4
    BY <1>1, <1>2, <1>9
  <2> QED  BY ONLY <2>1, Shift DEF A5, P5
<1> HIDE DEF A5, P5
<1>11. p \o A5 \in Seq(S)
  BY <1>1, <1>10, ConcatProperties
<1> QED  BY <1>3, <1>4, <1>10, <1>11 DEF p

(* The parser refuses exactly the URLs without a scheme of one word that   *)
(* it knows.                                                               *)
LEMMA SchemeSeen ==
    ASSUME NEW S, NEW u, UrlOver(S, u)
    PROVE  HasScheme(UrlText(u)) <=> \E s \in Schemes : u.scheme = <<s>>
<1> DEFINE a == u.scheme
           n == Len(a)
           B == Beginning(u)
           R == Rest(u)
           t == UrlText(u)
<1>1. /\ B \in Seq(S) /\ Len(B) = n + 3 /\ n \in Nat /\ \A i \in 1..n : B[i] = a[i]
      /\ B[n + 1] = ":" /\ B[n + 2] = "/" /\ B[n + 3] = "/"
  BY BeginningWords
<1>2. t = B \o R /\ R \in Seq(S)
  BY TextOfUrl
<1>3. a \in Seq(S) /\ \A i \in 1..n : a[i] # ":"
  BY DelimitersDiffer DEF UrlOver, Without
<1> HIDE DEF a, B, R, t
<1>4. /\ t \in Seq(S) /\ Len(t) = (n + 3) + Len(R) /\ Len(R) \in Nat
      /\ \A i \in 1..(n + 3) : t[i] = B[i]
  <2>1. B \in Seq(S) /\ R \in Seq(S) /\ Len(B) = n + 3 /\ t = B \o R
    BY <1>1, <1>2
  <2>2. /\ B \o R \in Seq(S) /\ Len(B \o R) = Len(B) + Len(R) /\ Len(R) \in Nat
        /\ \A i \in 1..Len(B) : (B \o R)[i] = B[i]
    BY ONLY <2>1, ConcatPlaces
  <2> QED  BY ONLY <2>1, <2>2
<1>5. ASSUME HasScheme(t) PROVE \E s \in Schemes : a = <<s>>
  <2>1. t[1] \in Schemes /\ SubSeq(t, 2, 4) = <<":", "/", "/">> /\ Len(t) >= 4
    BY <1>5 DEF HasScheme
  <2>2. t[2] = ":"
    <3> DEFINE w == SubSeq(t, 2, 4)
    <3>1. \A i \in 2..4 : t[i] \in S
      <4>1. \A i \in 2..4 : i \in 1..Len(t)
        BY <1>4, <2>1
      <4> QED  BY <1>4, <4>1, ElementOfSeq
    <3>2. \A i \in 1..(4 - 2 + 1) : w[i] = t[2 + i - 1]
      <4> HIDE DEF w
      <4> QED  BY <3>1, SubSeqProperties DEF w
    <3>3. 1 \in 1..(4 - 2 + 1) /\ 2 + 1 - 1 = 2
      OBVIOUS
    <3>4. w[1] = t[2]
      <4> HIDE DEF w
      <4> QED  BY <3>2, <3>3
    <3>5. w[1] = ":"
      <4>1. w = <<":", "/", "/">>
        BY <2>1
      <4> HIDE DEF w
      <4> QED  BY <4>1
    <3> QED  BY <3>4, <3>5
  <2>3. n # 0
    <3>1. SUFFICES ASSUME n = 0 PROVE FALSE
      OBVIOUS
    <3>2. 1 \in 1..(n + 3) /\ 1 = n + 1
      BY <1>1, <3>1
    <3>3. t[1] = ":"
      BY <1>1, <1>4, <3>2
    <3> QED  BY <2>1, <3>3 DEF Schemes
  <2>4. ~(n >= 2)
    <3>1. SUFFICES ASSUME n >= 2 PROVE FALSE
      OBVIOUS
    <3>2. 2 \in 1..n /\ 2 \in 1..(n + 3)
      BY <1>1, <3>1
    <3> QED  BY <1>1, <1>3, <1>4, <2>2, <3>2
  <2>5. n = 1 /\ 1 \in 1..n /\ 1 \in 1..(n + 3)
    BY <1>1, <2>3, <2>4
  <2>6. a[1] \in Schemes
    BY <1>1, <1>4, <2>1, <2>5
  <2>7. a = <<a[1]>>
    <3> DEFINE b == <<a[1]>>
    <3>1. a[1] \in S
      BY <1>3, <2>5, ElementOfSeq
    <3>2. b \in Seq(S) /\ Len(b) = 1 /\ b[1] = a[1]
      BY <3>1, OneWord
    <3> HIDE DEF b
    <3>3. \A i \in 1..Len(a) : a[i] = b[i]
      BY <2>5, <3>2
    <3>4. a = b
      BY <1>3, <2>5, <3>2, <3>3, SeqEqual
    <3> QED  BY <3>4 DEF b
  <2> QED  BY <2>6, <2>7
<1>6. ASSUME NEW s \in Schemes, a = <<s>> PROVE HasScheme(t)
  <2>1. n = 1 /\ a[1] = s
    BY <1>6
  <2>2. Len(t) >= 4 /\ t[1] = s /\ t[2] = ":" /\ t[3] = "/" /\ t[4] = "/"
    BY <1>1, <1>4, <2>1
  <2>3. SubSeq(t, 2, 4) = <<":", "/", "/">>
    <3> DEFINE w == SubSeq(t, 2, 4)
               e == <<":", "/", "/">>
    <3>1. \A i \in 2..4 : t[i] \in S
      <4>1. \A i \in 2..4 : i \in 1..Len(t)
        BY <1>4, <2>2
      <4> QED  BY <1>4, <4>1, ElementOfSeq
    <3>2. /\ w \in Seq(S) /\ Len(w) = IF 2 <= 4 THEN 4 - 2 + 1 ELSE 0
          /\ \A i \in 1..(4 - 2 + 1) : w[i] = t[2 + i - 1]
      <4> HIDE DEF w
      <4> QED  BY <3>1, SubSeqProperties DEF w
    <3>3. e \in Seq(S) /\ Len(e) = 3 /\ e[1] = ":" /\ e[2] = "/" /\ e[3] = "/"
      BY DelimitersDiffer DEF UrlOver
    <3> HIDE DEF w, e
    <3>4. Len(w) = 3 /\ w[1] = t[2] /\ w[2] = t[3] /\ w[3] = t[4]
      BY <3>2
    <3>5. \A i \in 1..3 : w[i] = e[i]
      BY <2>2, <3>3, <3>4
    <3>6. w = e
      BY <3>2, <3>3, <3>4, <3>5, SeqEqual
    <3> QED  BY <3>6 DEF w, e
  <2> QED  BY <2>2, <2>3 DEF HasScheme
<1> QED  BY <1>5, <1>6 DEF a, t

(* What the parser makes of a URL that it does not refuse.                 *)
Parsed(u) ==
    [scheme |-> u.scheme, user |-> u.user, password |-> u.password, host |-> u.host,
     port |-> u.port, path |-> IF u.path = <<>> THEN <<"/">> ELSE u.path,
     query |-> u.query, fragment |-> u.fragment]

LEMMA PartsBack ==
    ASSUME NEW S, NEW u, UrlOver(S, u), NEW s, u.scheme = <<s>>
    PROVE  ParseUri(UrlText(u)) = Parsed(u)
<1> DEFINE t == UrlText(u)
           A == Authority(u)
           AP == A \o u.path
           APQ == AP \o Optional("?", u.query)
           fragment == CutAt(SubSeq(t, 5, Len(t)), "#")
           query == CutAt(fragment.before, "?")
           path == CutAt(query.before, "/")
           user == CutAt(path.before, "@")
           password == CutAt(user.before, ":")
           host == CutAt(IF user.found THEN user.after ELSE path.before, ":")
<1>0. /\ u.path \in Seq(S) /\ u.query \in Seq(S) /\ u.fragment \in Seq(S)
      /\ "?" \in S /\ "#" \in S /\ "/" \in S /\ "?" # "#"
      /\ Without(u.path, "?") /\ Without(u.path, "#") /\ (u.path = <<>> \/ u.path[1] = "/")
      /\ Without(u.query, "#")
      /\ u.user = <<>> => u.password = <<>>
  BY DelimitersDiffer DEF UrlOver
<1>1. A \in Seq(S) /\ Without(A, "/") /\ Without(A, "?") /\ Without(A, "#")
  BY AuthorityWords
<1>2. Len(Beginning(u)) = 4 /\ Beginning(u)[1] = s
  <2>1. Len(u.scheme) = 1 /\ u.scheme[1] = s
    OBVIOUS
  <2>2. /\ Len(Beginning(u)) = Len(u.scheme) + 3
        /\ \A i \in 1..Len(u.scheme) : Beginning(u)[i] = u.scheme[i]
    BY ONLY UrlOver(S, u), BeginningWords
  <2> QED  BY ONLY <2>1, <2>2
<1>3. SubSeq(t, 5, Len(t)) = Rest(u) /\ t[1] = s
  <2> DEFINE B == Beginning(u)
             R == Rest(u)
  <2>1. t = B \o R /\ R \in Seq(S) /\ B \in Seq(S)
    BY TextOfUrl, BeginningWords
  <2>2. Len(B) = 4 /\ B[1] = s
    BY <1>2
  <2> HIDE DEF B, R, t
  <2>3. SubSeq(B \o R, Len(B) + 1, Len(B \o R)) = R
    BY <2>1, SubSeqOfConcat
  <2>4. (B \o R)[1] = B[1]
    <3>1. \A i \in 1..Len(B) : (B \o R)[i] = B[i]
      BY ONLY <2>1, ConcatPlaces
    <3> QED  BY ONLY <2>2, <3>1
  <2> QED  BY <2>1, <2>2, <2>3, <2>4 DEF R
<1>4. AP \in Seq(S) /\ Without(AP, "?") /\ Without(AP, "#")
  <2> HIDE DEF A
  <2> QED  BY <1>0, <1>1, WithoutConcat
<1>5. APQ \in Seq(S) /\ Without(APQ, "#")
  <2>1. Optional("?", u.query) \in Seq(S) /\ Without(Optional("?", u.query), "#")
    <3>1. u.query \in Seq(S) /\ "?" \in S /\ "#" # "?" /\ Without(u.query, "#")
      BY <1>0
    <3> QED  BY ONLY <3>1, OptionalPart
  <2> HIDE DEF AP
  <2> QED  BY <1>4, <2>1, WithoutConcat
<1>6. fragment.before = APQ /\ fragment.after = u.fragment
  <2>1. Rest(u) = APQ \o Optional("#", u.fragment)
    BY DEF Rest
  <2> HIDE DEF APQ, t
  <2>2. LET q == APQ \o Optional("#", u.fragment) IN
        /\ q \in Seq(S) /\ CutAt(q, "#").found <=> u.fragment # <<>>
        /\ CutAt(q, "#").before = APQ /\ CutAt(q, "#").after = u.fragment
    <3>1. APQ \in Seq(S) /\ u.fragment \in Seq(S) /\ "#" \in S /\ Without(APQ, "#")
      BY <1>0, <1>5
    <3> QED  BY ONLY <3>1, CutPart
  <2> QED  BY <1>3, <2>1, <2>2
<1> HIDE DEF fragment
<1>7. query.before = AP /\ query.after = u.query
  <2> HIDE DEF AP
  <2>1. LET q == AP \o Optional("?", u.query) IN
        /\ q \in Seq(S) /\ CutAt(q, "?").found <=> u.query # <<>>
        /\ CutAt(q, "?").before = AP /\ CutAt(q, "?").after = u.query
    <3>1. AP \in Seq(S) /\ u.query \in Seq(S) /\ "?" \in S /\ Without(AP, "?")
      BY <1>0, <1>4
    <3> QED  BY ONLY <3>1, CutPart
  <2> QED  BY <1>6, <2>1
<1> HIDE DEF query
<1>8. path.before = A /\ <<"/">> \o path.after = IF u.path = <<>> THEN <<"/">> ELSE u.path
  <2>1. CASE u.path = <<>>
    <3>1. AP = A
      <4> HIDE DEF A
      <4> QED  BY <1>1, <2>1, ConcatEmptySeq
    <3> HIDE DEF A, AP
    <3>2. CutAt(A, "/").before = A /\ CutAt(A, "/").after = <<>>
      BY <1>1, CutNowhere
    <3>3. <<"/">> \o <<>> = <<"/">>
      <4>1. <<"/">> \in Seq(S)
        BY <1>0, OneWord
      <4> QED  BY <4>1, ConcatEmptySeq
    <3> QED  BY <1>7, <2>1, <3>1, <3>2, <3>3
  <2>2. CASE u.path # <<>>
    <3> DEFINE T == Tail(u.path)
    <3>1. T \in Seq(S) /\ u.path = <<"/">> \o T
      BY <1>0, <2>2, FirstWord
    <3> HIDE DEF A, T
    <3>2. LET q == A \o (<<"/">> \o T) IN
          /\ q \in Seq(S) /\ CutAt(q, "/").found /\ CutAt(q, "/").before = A /\ CutAt(q, "/").after = T
      BY <1>0, <1>1, <3>1, CutFound
    <3> QED  BY <1>7, <2>2, <3>1, <3>2
  <2> QED  BY <2>1, <2>2
<1>9. /\ user.found <=> u.user # <<>>
      /\ user.found => password.before = u.user /\ password.after = u.password
      /\ host.before = u.host /\ host.after = u.port
  <2> HIDE DEF path
  <2> QED  BY <1>8, AuthorityCut
<1> HIDE DEF path, user, password, host
<1>10. ParseUri(t) =
         [scheme |-> <<t[1]>>,
          user |-> IF user.found THEN password.before ELSE <<>>,
          password |-> IF user.found THEN password.after ELSE <<>>,
          host |-> host.before, port |-> host.after,
          path |-> <<"/">> \o path.after,
          query |-> query.after, fragment |-> fragment.after]
  BY DEF ParseUri, path, user, password, host, query, fragment
<1>11. /\ (IF user.found THEN password.before ELSE <<>>) = u.user
       /\ (IF user.found THEN password.after ELSE <<>>) = u.password
  BY <1>0, <1>9
<1> HIDE DEF t
<1>12. <<t[1]>> = u.scheme
  BY <1>3
<1> QED  BY <1>6, <1>7, <1>8, <1>9, <1>10, <1>11, <1>12 DEF Parsed, t

--------------------------------------------------------------------------------
(* The request of a URL, whatever words its parts are made of.             *)
Asks(r, u) ==
    /\ r.host = u.host /\ r.secure = (u.scheme = <<"https">>)
    /\ u.port = <<>> => r.port = IF u.scheme = <<"https">> THEN 443 ELSE 80
    /\ Range(u.port) \subseteq Range(DecimalDigits) /\ u.port # <<>> => r.port = NumberOf(u.port)
    /\ r.target = (IF u.path = <<>> THEN <<"/">> ELSE u.path) \o Optional("?", u.query)
    /\ r.userinfo = IF u.user = <<>> THEN <<>> ELSE u.user \o <<":">> \o u.password

LEMMA RequestOfUrl ==
    ASSUME NEW S, NEW u, UrlOver(S, u), HasScheme(UrlText(u))
    PROVE  Asks(Composed(ParseUri(UrlText(u))), u)
<1> DEFINE r == Composed(ParseUri(UrlText(u)))
<1> DEFINE v == Parsed(u)
<1>1. PICK s \in Schemes : u.scheme = <<s>>
  BY SchemeSeen
<1>2. r = Composed(v)
  <2>1. ParseUri(UrlText(u)) = v
    BY ONLY UrlOver(S, u), <1>1, PartsBack
  <2> QED  BY ONLY <2>1 DEF r
<1>3. /\ v.scheme = u.scheme /\ v.user = u.user /\ v.password = u.password /\ v.host = u.host
      /\ v.port = u.port /\ v.path = (IF u.path = <<>> THEN <<"/">> ELSE u.path) /\ v.query = u.query
  BY DEF Parsed
<1>4. u.user = <<>> => u.password = <<>>
  BY DEF UrlOver
<1> HIDE DEF v, r
<1>5. /\ r.host = v.host /\ r.secure = (v.scheme = <<"https">>) /\ r.port = PortOf(v)
      /\ r.target = v.path \o Optional("?", v.query)
      /\ r.userinfo = IF v.user = <<>> /\ v.password = <<>> THEN <<>>
                      ELSE v.user \o <<":">> \o v.password
  BY ONLY <1>2 DEF Composed
<1>6. /\ v.port = <<>> => PortOf(v) = IF v.scheme = <<"https">> THEN 443 ELSE 80
      /\ Range(v.port) \subseteq Range(DecimalDigits) /\ v.port # <<>> => PortOf(v) = NumberOf(v.port)
  <2>1. \A x : Range(x) \subseteq Range(DecimalDigits) => \A i \in DOMAIN x : IsDigit(x[i])
    BY DEF IsDigit, Range
  <2> QED  BY ONLY <2>1 DEF PortOf
<1>7. Asks(r, u)
  BY ONLY <1>3, <1>4, <1>5, <1>6 DEF Asks
<1> QED  BY ONLY <1>7 DEF r

(* The words of a URL, those that the code writes among them.              *)
WordOrDelimiter ==
    STRING \cup UrlDelimiters
    \cup {"https", "bank.gov.ua", "NBUStatService", "exchange", "date", "=", "&", "json"}

LEMMA MoreWords ==
    ASSUME NEW s \in Seq(STRING)
    PROVE  s \in Seq(WordOrDelimiter)
<1>1. \A i \in 1..Len(s) : s[i] \in WordOrDelimiter
  BY ElementOfSeq DEF WordOrDelimiter
<1>2. Len(s) \in Nat /\ s = [i \in 1..Len(s) |-> s[i]]
  OBVIOUS
<1> QED  BY <1>1, <1>2, IsASeq

LEMMA UrlsAreOverWords ==
    ASSUME NEW u \in Urls
    PROVE  UrlOver(WordOrDelimiter, u)
<1>1. IsUrl(u)
  BY HttpRequestConstants
<1>2. /\ u.scheme \in Seq(STRING) /\ u.user \in Seq(STRING) /\ u.password \in Seq(STRING)
      /\ u.host \in Seq(STRING) /\ u.port \in Seq(STRING) /\ u.path \in Seq(STRING)
      /\ u.query \in Seq(STRING) /\ u.fragment \in Seq(STRING)
  BY <1>1 DEF IsUrl, UrlParts, Words
<1>3. \A d \in UrlDelimiters :
        /\ d \notin Range(u.scheme) /\ d \notin Range(u.user) /\ d \notin Range(u.password)
        /\ d \notin Range(u.host) /\ d \notin Range(u.port)
  BY <1>1 DEF IsUrl
<1>4. /\ "?" \notin Range(u.path) /\ "#" \notin Range(u.path) /\ "#" \notin Range(u.query)
      /\ (u.path = <<>> \/ u.path[1] = "/")
      /\ u.user = <<>> => u.password = <<>>
  BY <1>1 DEF IsUrl
<1>5. \A w \in Seq(STRING) : \A d : d \notin Range(w) => Without(w, d)
  BY WithoutIsRange
<1>6. UrlDelimiters \subseteq WordOrDelimiter
  BY DEF WordOrDelimiter
<1>9. /\ u.scheme \in Seq(WordOrDelimiter) /\ u.user \in Seq(WordOrDelimiter)
      /\ u.password \in Seq(WordOrDelimiter) /\ u.host \in Seq(WordOrDelimiter)
      /\ u.port \in Seq(WordOrDelimiter) /\ u.path \in Seq(WordOrDelimiter)
      /\ u.query \in Seq(WordOrDelimiter) /\ u.fragment \in Seq(WordOrDelimiter)
  BY ONLY <1>2, MoreWords
<1>7. \A d \in UrlDelimiters : /\ Without(u.scheme, d) /\ Without(u.user, d)
                               /\ Without(u.password, d) /\ Without(u.host, d) /\ Without(u.port, d)
  BY ONLY <1>2, <1>3, <1>5
<1>8. Without(u.path, "?") /\ Without(u.path, "#") /\ Without(u.query, "#")
  BY ONLY <1>2, <1>4, <1>5
<1> QED  BY ONLY <1>4, <1>6, <1>7, <1>8, <1>9 DEF UrlOver

(* What is asked for on a date: given_date_rates writes it as the parser   *)
(* reads it.                                                               *)
AskedOn(date) == [Service EXCEPT !.query = DateQuery(date)]

LEMMA ServiceIsUrl ==
    ASSUME NEW date \in Seq(WordOrDelimiter), IsValidDate(date)
    PROVE  UrlOver(WordOrDelimiter, AskedOn(date)) /\ UrlText(AskedOn(date)) = GivenDateRates(date)
<1> DEFINE q == DateQuery(date)
           u == AskedOn(date)
<1>1. /\ u.scheme = <<"https">> /\ u.user = <<>> /\ u.password = <<>> /\ u.host = <<"bank.gov.ua">>
      /\ u.port = <<>> /\ u.path = <<"/", "NBUStatService", "/", "exchange">>
      /\ u.query = q /\ u.fragment = <<>>
  BY DEF AskedOn, Service
<1>2. q \in Seq(WordOrDelimiter) /\ Without(q, "#") /\ q # <<>>
  <2> DEFINE a == <<"date", "=">>
             b == <<"&", "json">>
  <2>1. a \in Seq(WordOrDelimiter) /\ b \in Seq(WordOrDelimiter) /\ Without(a, "#") /\ Without(b, "#") /\ Len(a) = 2
    <3>1. {"date", "=", "&", "json"} \subseteq WordOrDelimiter
      BY DEF WordOrDelimiter
    <3> QED  BY <3>1 DEF Without
  <2>2. Without(date, "#")
    <3>1. \A c : IsDigit(c) => c # "#"
      BY DEF IsDigit, DecimalDigits, Range
    <3>2. \A i \in 1..Len(date) : IsDigit(date[i])
      BY DEF IsValidDate
    <3> QED  BY <3>1, <3>2 DEF Without
  <2> HIDE DEF a, b
  <2>3. a \o date \in Seq(WordOrDelimiter) /\ Without(a \o date, "#") /\ Len(a \o date) >= 2
    <3>1. a \o date \in Seq(WordOrDelimiter) /\ Without(a \o date, "#")
      BY ONLY <2>1, <2>2, date \in Seq(WordOrDelimiter), WithoutConcat
    <3>2. Len(a \o date) = Len(a) + Len(date) /\ Len(date) \in Nat
      BY ONLY <2>1, date \in Seq(WordOrDelimiter), ConcatPlaces
    <3> QED  BY <2>1, <3>1, <3>2
  <2>4. /\ (a \o date) \o b \in Seq(WordOrDelimiter) /\ Without((a \o date) \o b, "#")
        /\ Len((a \o date) \o b) = Len(a \o date) + Len(b) /\ Len(b) \in Nat
        /\ Len(a \o date) \in Nat
    <3>1. (a \o date) \o b \in Seq(WordOrDelimiter) /\ Without((a \o date) \o b, "#")
      BY ONLY <2>1, <2>3, WithoutConcat
    <3>2. /\ Len((a \o date) \o b) = Len(a \o date) + Len(b) /\ Len(b) \in Nat
          /\ Len(a \o date) \in Nat
      BY ONLY <2>1, <2>3, ConcatPlaces
    <3> QED  BY <3>1, <3>2
  <2>5. Len((a \o date) \o b) # 0
    BY <2>3, <2>4
  <2>6. q = (a \o date) \o b
    BY DEF DateQuery, a, b
  <2>7. Len(<<>>) = 0
    OBVIOUS
  <2> QED  BY ONLY <2>4, <2>5, <2>6, <2>7
<1> HIDE DEF q
<1>3. UrlOver(WordOrDelimiter, u)
  <2>1. /\ <<"https">> \in Seq(WordOrDelimiter) /\ <<>> \in Seq(WordOrDelimiter) /\ <<"bank.gov.ua">> \in Seq(WordOrDelimiter)
        /\ <<"/", "NBUStatService", "/", "exchange">> \in Seq(WordOrDelimiter)
    BY DEF WordOrDelimiter, UrlDelimiters
  <2>2. /\ UrlDelimiters \subseteq WordOrDelimiter
        /\ \A d \in UrlDelimiters : d # "https" /\ d # "bank.gov.ua"
    BY DEF UrlDelimiters, WordOrDelimiter
  <2>3. \A d : Without(<<>>, d) /\ (d # "https" => Without(<<"https">>, d))
               /\ (d # "bank.gov.ua" => Without(<<"bank.gov.ua">>, d))
    BY DEF Without
  <2>4. /\ Without(<<"/", "NBUStatService", "/", "exchange">>, "?")
        /\ Without(<<"/", "NBUStatService", "/", "exchange">>, "#")
        /\ <<"/", "NBUStatService", "/", "exchange">>[1] = "/"
    BY DEF Without
  <2> HIDE DEF u
  <2>5. \A d \in UrlDelimiters : /\ Without(u.scheme, d) /\ Without(u.user, d)
                                 /\ Without(u.password, d) /\ Without(u.host, d) /\ Without(u.port, d)
    BY ONLY <1>1, <2>2, <2>3
  <2>6. Without(u.path, "?") /\ Without(u.path, "#") /\ u.path[1] = "/" /\ Without(u.query, "#")
    BY ONLY <1>1, <1>2, <2>4
  <2>7. /\ u.scheme \in Seq(WordOrDelimiter) /\ u.user \in Seq(WordOrDelimiter) /\ u.password \in Seq(WordOrDelimiter)
        /\ u.host \in Seq(WordOrDelimiter) /\ u.port \in Seq(WordOrDelimiter) /\ u.path \in Seq(WordOrDelimiter)
        /\ u.query \in Seq(WordOrDelimiter) /\ u.fragment \in Seq(WordOrDelimiter)
    BY ONLY <1>1, <1>2, <2>1
  <2> QED  BY ONLY <1>1, <2>2, <2>5, <2>6, <2>7 DEF UrlOver
<1>4. UrlText(u) = GivenDateRates(date)
  <2> DEFINE X == <<"https">> \o <<":", "/", "/">> \o <<>> \o <<"bank.gov.ua">> \o <<>>
                  \o <<"/", "NBUStatService", "/", "exchange">>
             e == <<"?">>
  <2>1. X \in Seq(WordOrDelimiter) /\ e \in Seq(WordOrDelimiter)
    <3>1. {"https", "bank.gov.ua", "NBUStatService", "exchange", ":", "/", "?"} \subseteq WordOrDelimiter
      BY DEF WordOrDelimiter, UrlDelimiters
    <3> QED  BY <3>1
  <2>2. UrlText(Service) = X
    <3>1. UrlText(Service) = (X \o <<>>) \o <<>>
      BY DEF UrlText, Optional, Service
    <3> HIDE DEF X
    <3>2. X \o <<>> = X
      BY <2>1, ConcatEmptySeq
    <3> QED  BY <3>1, <3>2
  <2>3. UrlText(u) = (X \o (e \o q)) \o <<>>
    <3> HIDE DEF u
    <3> QED  BY <1>1, <1>2 DEF UrlText, Optional
  <2> HIDE DEF X, e, u
  <2>4. e \o q \in Seq(WordOrDelimiter) /\ X \o (e \o q) \in Seq(WordOrDelimiter)
    BY ONLY <1>2, <2>1, ConcatProperties
  <2>5. (X \o (e \o q)) \o <<>> = X \o (e \o q)
    BY ONLY <2>4, ConcatEmptySeq
  <2>6. X \o (e \o q) = (X \o e) \o q
    <3> DEFINE V == WordOrDelimiter
    <3>1. q \in Seq(V) /\ X \in Seq(V) /\ e \in Seq(V)
      BY <1>2, <2>1
    <3> HIDE DEF V
    <3> QED  BY ONLY <3>1, ConcatAssociative
  <2>7. GivenDateRates(date) = (X \o e) \o q
    BY <2>2 DEF GivenDateRates, e, q
  <2> QED  BY <2>3, <2>5, <2>6, <2>7
<1> QED  BY <1>3, <1>4

(* A text that is not a date gives no URL.                                 *)
LEMMA NoUrl == ~HasScheme(<<>>)
  BY DEF HasScheme

--------------------------------------------------------------------------------
(* The specification.                                                      *)

WantedText == IF wanted.kind = "url" THEN UrlText(wanted.parts) ELSE GivenDateRates(wanted.date)

RqInv ==
    /\ \/ wanted.kind = "url" /\ wanted.parts \in Urls
       \/ wanted.kind = "date" /\ wanted.date \in QueryDates
    /\ rqPc \in {"compose", "parse", "send", "sent", "threw"}
    /\ rqPc = "parse" => url = WantedText
    /\ rqPc \in {"send", "sent"} => HasScheme(WantedText) /\ uri = ParseUri(WantedText)
    /\ rqPc = "sent" => request = Composed(uri)
    /\ rqPc = "threw" => ~HasScheme(WantedText)

LEMMA RqInvIsInductive ==
    /\ RqInit => RqInv
    /\ RqInv /\ [RqNext]_rqVars => RqInv'
<1>1. RqInit => RqInv
  BY DEF RqInit, RqInv
<1>2. ASSUME RqInv, [RqNext]_rqVars PROVE RqInv'
  <2>1. CASE Compose
    BY <1>2, <2>1 DEF RqInv, Compose, WantedText
  <2>2. CASE Construct
    BY <1>2, <2>2 DEF RqInv, Construct, WantedText
  <2>3. CASE SendRequest
    BY <1>2, <2>3 DEF RqInv, SendRequest, WantedText
  <2>4. CASE UNCHANGED rqVars
    BY <1>2, <2>4 DEF RqInv, rqVars, WantedText
  <2> QED  BY <1>2, <2>1, <2>2, <2>3, <2>4 DEF RqNext
<1> QED  BY <1>1, <1>2

LEMMA RqInvSuffices == RqInv => RequestAsAsked
<1> SUFFICES ASSUME RqInv PROVE RequestAsAsked
  OBVIOUS
<1> DEFINE u == AskedFor
<1>1. CASE wanted.kind = "url" /\ wanted.parts \in Urls
  <2>1. u = wanted.parts /\ WantedText = UrlText(u) /\ UrlOver(WordOrDelimiter, u)
    BY <1>1, UrlsAreOverWords DEF AskedFor, WantedText
  <2> HIDE DEF u
  <2>2. ASSUME rqPc = "sent" PROVE HasScheme(UrlText(u)) /\ request = Composed(ParseUri(UrlText(u)))
    BY <2>1, <2>2 DEF RqInv
  <2>3. rqPc = "threw" => u.scheme \notin {<<s>> : s \in Schemes}
    <3>1. rqPc = "threw" => ~HasScheme(UrlText(u))
      BY <2>1 DEF RqInv
    <3>2. HasScheme(UrlText(u)) <=> \E s \in Schemes : u.scheme = <<s>>
      BY ONLY <2>1, SchemeSeen
    <3> QED  BY <3>1, <3>2
  <2>4. ASSUME rqPc = "sent" PROVE Asks(request, u)
    <3>1. /\ UrlOver(WordOrDelimiter, u) /\ HasScheme(UrlText(u)) /\ request = Composed(ParseUri(UrlText(u)))
      BY <2>1, <2>2, <2>4
    <3>2. Asks(Composed(ParseUri(UrlText(u))), u)
      BY ONLY <3>1, RequestOfUrl
    <3> QED  BY ONLY <3>1, <3>2
  <2> QED  BY <1>1, <2>3, <2>4 DEF Asks, RequestAsAsked, DefaultPort, u
<1>2. CASE wanted.kind = "date" /\ wanted.date \in QueryDates
  <2>0. wanted.date \in Seq(WordOrDelimiter)
    BY <1>2, HttpRequestConstants, MoreWords DEF Words
  <2>1. u = AskedOn(wanted.date) /\ WantedText = GivenDateRates(wanted.date)
    BY <1>2 DEF AskedFor, AskedOn, WantedText
  <2>2. IsValidDate(wanted.date) => UrlOver(WordOrDelimiter, u) /\ WantedText = UrlText(u)
    <3> HIDE DEF u
    <3> QED  BY <2>0, <2>1, ServiceIsUrl
  <2>3. ~IsValidDate(wanted.date) => ~HasScheme(WantedText)
    BY <2>1, NoUrl DEF GivenDateRates
  <2>4. IsValidDate(wanted.date) => HasScheme(WantedText)
    <3>1. u.scheme = <<"https">>
      BY <2>1 DEF AskedOn, Service
    <3>2. "https" \in Schemes
      BY DEF Schemes
    <3> HIDE DEF u
    <3>3. UrlOver(WordOrDelimiter, u) => (HasScheme(UrlText(u)) <=> \E s \in Schemes : u.scheme = <<s>>)
      BY ONLY SchemeSeen
    <3> QED  BY <2>2, <3>1, <3>2, <3>3
  <2> HIDE DEF u
  <2>5. rqPc = "threw" => ~IsValidDate(wanted.date)
    BY <2>4 DEF RqInv
  <2>6. ASSUME rqPc = "sent" PROVE Asks(request, u)
    <3>1. UrlOver(WordOrDelimiter, u) /\ HasScheme(UrlText(u)) /\ request = Composed(ParseUri(UrlText(u)))
      BY <2>2, <2>3, <2>6 DEF RqInv
    <3>2. Asks(Composed(ParseUri(UrlText(u))), u)
      BY ONLY <3>1, RequestOfUrl
    <3> QED  BY ONLY <3>1, <3>2
  <2> QED  BY <1>2, <2>5, <2>6 DEF Asks, RequestAsAsked, DefaultPort, u
<1> QED  BY <1>1, <1>2 DEF RqInv

(* Whatever parts a URL has, the parser finds them, and the request goes   *)
(* to the host and port that are named and asks for the path and the query *)
(* that are written; for a date it is the bank that is asked, for that     *)
(* date; and it is refused only without a scheme that the parser knows or  *)
(* for a text that is not a date (Uri::parseUri, Request, given_date_rates).*)
THEOREM RequestAsAskedAlways == RqSpec => []RequestAsAsked
<1>1. RqSpec => []RqInv
  BY RqInvIsInductive, PTL DEF RqSpec
<1> QED  BY <1>1, RqInvSuffices, PTL

--------------------------------------------------------------------------------
(* The reader.                                                             *)

(* The first bytes of a text, and the others.                              *)
LEMMA TakeAndDrop ==
    ASSUME NEW s \in Seq(Nat), NEW n \in Nat, n <= Len(s)
    PROVE  /\ Take(s, n) \in Seq(Nat) /\ Len(Take(s, n)) = n
           /\ \A p \in 1..n : Take(s, n)[p] = s[p]
           /\ Drop(s, n) \in Seq(Nat) /\ Len(Drop(s, n)) = Len(s) - n
           /\ \A p \in 1..(Len(s) - n) : Drop(s, n)[p] = s[n + p]
<1> DEFINE l == Len(s)
<1>1. l \in Nat /\ \A i \in 1..l : s[i] \in Nat
  BY LenProperties, ElementOfSeq
<1> HIDE DEF l
<1>2. /\ SubSeq(s, 1, n) \in Seq(Nat)
      /\ Len(SubSeq(s, 1, n)) = IF 1 <= n THEN n - 1 + 1 ELSE 0
      /\ \A i \in 1..(n - 1 + 1) : SubSeq(s, 1, n)[i] = s[1 + i - 1]
  <2>1. 1 \in Int /\ n \in Int /\ \A i \in 1..n : s[i] \in Nat
    BY <1>1 DEF l
  <2> QED  BY <2>1, SubSeqProperties
<1>3. /\ SubSeq(s, n + 1, l) \in Seq(Nat)
      /\ Len(SubSeq(s, n + 1, l)) = IF n + 1 <= l THEN l - (n + 1) + 1 ELSE 0
      /\ \A i \in 1..(l - (n + 1) + 1) : SubSeq(s, n + 1, l)[i] = s[(n + 1) + i - 1]
  <2>1. n + 1 \in Int /\ l \in Int /\ \A i \in (n + 1)..l : s[i] \in Nat
    BY <1>1
  <2> QED  BY <2>1, SubSeqProperties
<1>4. \A p \in 1..n : p \in 1..(n - 1 + 1) /\ 1 + p - 1 = p
  OBVIOUS
<1>5. \A p \in 1..(l - n) : p \in 1..(l - (n + 1) + 1) /\ (n + 1) + p - 1 = n + p
  BY <1>1
<1>6. Len(SubSeq(s, 1, n)) = n /\ \A p \in 1..n : SubSeq(s, 1, n)[p] = s[p]
  BY <1>2, <1>4
<1>7. Len(SubSeq(s, n + 1, l)) = l - n /\ \A p \in 1..(l - n) : SubSeq(s, n + 1, l)[p] = s[n + p]
  BY <1>1, <1>3, <1>5 DEF l
<1> QED  BY <1>2, <1>3, <1>6, <1>7 DEF Take, Drop, l

(* One text behind another.                                                *)
LEMMA Appended ==
    ASSUME NEW a \in Seq(Nat), NEW b \in Seq(Nat)
    PROVE  /\ a \o b \in Seq(Nat) /\ Len(a) \in Nat /\ Len(b) \in Nat
           /\ Len(a \o b) = Len(a) + Len(b)
           /\ \A p \in 1..Len(a) : (a \o b)[p] = a[p]
           /\ \A p \in 1..Len(b) : (a \o b)[Len(a) + p] = b[p]
<1>1. /\ Len(a) \in Nat /\ Len(b) \in Nat /\ Len(a \o b) = Len(a) + Len(b) /\ a \o b \in Seq(Nat)
      /\ \A i \in 1..(Len(a) + Len(b)) : (a \o b)[i] = IF i <= Len(a) THEN a[i] ELSE b[i - Len(a)]
  BY ConcatProperties, LenProperties
<1>2. \A p \in 1..Len(a) : p \in 1..(Len(a) + Len(b)) /\ p <= Len(a)
  BY <1>1
<1>3. \A p \in 1..Len(b) : /\ Len(a) + p \in 1..(Len(a) + Len(b)) /\ ~(Len(a) + p <= Len(a))
                           /\ (Len(a) + p) - Len(a) = p
  BY <1>1
<1> QED  BY <1>1, <1>2, <1>3

(* The same, of m.                                                         *)
Joined(m, a, b) ==
    /\ m \in Seq(Nat) /\ Len(m) = Len(a) + Len(b)
    /\ \A p \in 1..Len(a) : m[p] = a[p]
    /\ \A p \in 1..Len(b) : m[Len(a) + p] = b[p]

LEMMA JoinedIs ==
    ASSUME NEW a \in Seq(Nat), NEW b \in Seq(Nat), NEW m, m = a \o b
    PROVE  Joined(m, a, b)
<1>1. Joined(a \o b, a, b)
  BY Appended DEF Joined
<1> QED  BY ONLY <1>1, m = a \o b

(* A pattern that is not at the beginning of a text is seen behind its     *)
(* first byte, once the text is long enough.                               *)
LEMMA SearchSecond ==
    ASSUME NEW data \in Seq(Nat), NEW pattern \in Seq(Nat), Len(pattern) > 0,
           Len(data) > 0 => data[1] # pattern[1]
    PROVE  /\ Len(data) < Len(pattern) + 1 => Search(data, pattern) = 0
           /\ (/\ Len(data) >= Len(pattern) + 1
               /\ \A p \in 1..Len(pattern) : data[1 + p] = pattern[p])
              => Search(data, pattern) = 2
<1> DEFINE l == Len(data)
           k == Len(pattern)
           at == {i \in 1..l - k + 1 : SubSeq(data, i, i + k - 1) = pattern}
<1>1. l \in Nat /\ k \in Nat /\ \A i \in 1..l : data[i] \in Nat
  BY LenProperties, ElementOfSeq
<1>2. Search(data, pattern) = IF at = {} THEN 0 ELSE CHOOSE i \in at : \A j \in at : i <= j
  BY DEF Search
<1> HIDE DEF l, k
<1>3. ASSUME NEW i \in 1..l - k + 1
      PROVE  /\ SubSeq(data, i, i + k - 1) \in Seq(Nat) /\ Len(SubSeq(data, i, i + k - 1)) = k
             /\ \A p \in 1..k : SubSeq(data, i, i + k - 1)[p] = data[i + p - 1]
  <2> DEFINE e == i + k - 1
  <2>1. i \in Int /\ e \in Int /\ (\A q \in i..e : q \in 1..l) /\ e - i + 1 = k
        /\ (i <= e \/ k = 0)
    BY <1>1
  <2>2. \A q \in i..e : data[q] \in Nat
    BY <1>1, <2>1
  <2> HIDE DEF e
  <2>3. /\ SubSeq(data, i, e) \in Seq(Nat)
        /\ Len(SubSeq(data, i, e)) = IF i <= e THEN e - i + 1 ELSE 0
        /\ \A p \in 1..(e - i + 1) : SubSeq(data, i, e)[p] = data[i + p - 1]
    BY <2>1, <2>2, SubSeqProperties
  <2>4. /\ SubSeq(data, i, e) \in Seq(Nat) /\ Len(SubSeq(data, i, e)) = k
        /\ \A p \in 1..k : SubSeq(data, i, e)[p] = data[i + p - 1]
    BY <1>1, <2>1, <2>3
  <2> QED  BY <2>4 DEF e
<1>4. 1 \notin at
  <2> SUFFICES ASSUME 1 \in 1..l - k + 1, SubSeq(data, 1, 1 + k - 1) = pattern PROVE FALSE
    OBVIOUS
  <2>1. l > 0 /\ 1 \in 1..k /\ 1 + 1 - 1 = 1
    BY <1>1 DEF k
  <2>2. SubSeq(data, 1, 1 + k - 1)[1] = data[1]
    BY <1>3, <2>1
  <2> QED  BY <2>1, <2>2 DEF l
<1>5. \A i \in at : i \in Nat /\ i >= 2 /\ l >= k + 1
  BY <1>1, <1>4
<1>6. ASSUME l < k + 1 PROVE at = {}
  <2>1. ASSUME NEW i \in at PROVE FALSE
    <3>1. l >= k + 1
      BY <1>5
    <3> QED  BY ONLY <1>1, <1>6, <3>1
  <2> QED  BY <2>1, Zenon
<1>7. ASSUME l >= k + 1, \A p \in 1..k : data[1 + p] = pattern[p]
      PROVE  2 \in at
  <2>1. 2 \in 1..l - k + 1
    BY <1>1, <1>7
  <2>2. \A p \in 1..k : 2 + p - 1 = 1 + p
    BY <1>1
  <2>3. \A p \in 1..k : SubSeq(data, 2, 2 + k - 1)[p] = pattern[p]
    BY <1>3, <1>7, <2>1, <2>2
  <2>4. SubSeq(data, 2, 2 + k - 1) = pattern
    BY <1>3, <2>1, <2>3, SeqEqual DEF k
  <2> QED  BY <2>1, <2>4
<1> HIDE DEF at
<1>8. ASSUME 2 \in at PROVE (CHOOSE i \in at : \A j \in at : i <= j) = 2
  <2>1. \A j \in at : 2 <= j
    BY <1>5
  <2>2. \A i \in at : (\A j \in at : i <= j) => i = 2
    BY <1>5, <1>8
  <2> QED  BY <1>8, <2>1, <2>2, Zenon
<1>9. l < k + 1 => Search(data, pattern) = 0
  BY <1>2, <1>6
<1>10. (l >= k + 1 /\ \A p \in 1..k : data[1 + p] = pattern[p]) => Search(data, pattern) = 2
  BY <1>2, <1>7, <1>8, Zenon
<1> QED  BY <1>9, <1>10 DEF l, k

--------------------------------------------------------------------------------
(* What is still to be read of a message of which pos bytes were: those    *)
(* at hand, then those on their way, and these are all of them unless the  *)
(* connection was cut off.                                                 *)
Unread(m, pos, data, coming, state) ==
    /\ pos + Len(data) + Len(coming) <= Len(m)
    /\ state # "cut" => pos + Len(data) + Len(coming) = Len(m)
    /\ state # "open" => coming = <<>>
    /\ \A p \in 1..Len(data) : data[p] = m[pos + p]
    /\ \A p \in 1..Len(coming) : coming[p] = m[pos + Len(data) + p]

LEMMA UnreadReceive ==
    ASSUME NEW m \in Seq(Nat), NEW pos \in Nat, NEW data \in Seq(Nat), NEW coming \in Seq(Nat),
           NEW state, Unread(m, pos, data, coming, state), NEW n \in 1..Len(coming)
    PROVE  Unread(m, pos, data \o Take(coming, n), Drop(coming, n), state)
<1> DEFINE d == Len(data)
           c == Len(coming)
           t == Take(coming, n)
           r == Drop(coming, n)
<1>1. d \in Nat /\ c \in Nat /\ Len(m) \in Nat /\ n \in Nat /\ n <= c /\ n > 0
  BY LenProperties
<1>2. /\ t \in Seq(Nat) /\ Len(t) = n /\ \A p \in 1..n : t[p] = coming[p]
      /\ r \in Seq(Nat) /\ Len(r) = c - n /\ \A p \in 1..(c - n) : r[p] = coming[n + p]
  BY <1>1, TakeAndDrop
<1> HIDE DEF t, r
<1>3. /\ data \o t \in Seq(Nat) /\ Len(data \o t) = d + n
      /\ \A p \in 1..d : (data \o t)[p] = data[p]
      /\ \A p \in 1..n : (data \o t)[d + p] = t[p]
  BY <1>2, Appended
<1>4. state = "open"
  <2>1. coming # <<>>
    BY <1>1
  <2> QED  BY <2>1 DEF Unread
<1>5. pos + d + c <= Len(m) /\ pos + d + c = Len(m)
      /\ (\A p \in 1..d : data[p] = m[pos + p]) /\ (\A p \in 1..c : coming[p] = m[pos + d + p])
  BY <1>4 DEF Unread
<1> HIDE DEF d, c
<1>6. pos + (d + n) + (c - n) = Len(m)
  <2>1. pos + d + c = Len(m)
    BY <1>5
  <2>3. pos + (d + n) + (c - n) = pos + d + c
    BY <1>1
  <2> QED  BY <2>1, <2>3
<1>7. ASSUME NEW p \in 1..(d + n) PROVE (data \o t)[p] = m[pos + p]
  <2>1. CASE p <= d
    <3>1. p \in 1..d
      BY <1>1, <2>1
    <3> QED  BY <1>3, <1>5, <3>1
  <2>2. CASE ~(p <= d)
    <3> DEFINE q == p - d
    <3>1. q \in 1..n /\ q \in 1..c /\ d + q = p /\ pos + d + q = pos + p
      BY <1>1, <2>2
    <3> HIDE DEF q
    <3>2. (data \o t)[d + q] = coming[q] /\ coming[q] = m[pos + d + q]
      BY <1>2, <1>3, <1>5, <3>1
    <3> QED  BY <3>1, <3>2
  <2> QED  BY <2>1, <2>2
<1>8. ASSUME NEW p \in 1..(c - n) PROVE r[p] = m[pos + (d + n) + p]
  <2>1. n + p \in 1..c /\ pos + d + (n + p) = pos + (d + n) + p
    BY <1>1
  <2>2. r[p] = coming[n + p] /\ coming[n + p] = m[pos + d + (n + p)]
    BY <1>2, <1>5, <2>1
  <2> QED  BY <2>1, <2>2
<1>9. Len(data \o t) = d + n /\ Len(r) = c - n
  BY <1>2, <1>3
<1> QED
  <2>1. Unread(m, pos, data \o t, r, state)
    BY <1>1, <1>4, <1>6, <1>7, <1>8, <1>9 DEF Unread
  <2> QED  BY <2>1 DEF t, r

LEMMA UnreadDrop ==
    ASSUME NEW m \in Seq(Nat), NEW pos \in Nat, NEW data \in Seq(Nat), NEW coming \in Seq(Nat),
           NEW state, Unread(m, pos, data, coming, state), NEW n \in Nat, n <= Len(data)
    PROVE  Unread(m, pos + n, Drop(data, n), coming, state)
<1> DEFINE d == Len(data)
           c == Len(coming)
           r == Drop(data, n)
<1>1. d \in Nat /\ c \in Nat /\ Len(m) \in Nat /\ n <= d
  BY LenProperties
<1>2. r \in Seq(Nat) /\ Len(r) = d - n /\ \A p \in 1..(d - n) : r[p] = data[n + p]
  BY <1>1, TakeAndDrop
<1>3. /\ pos + d + c <= Len(m) /\ (state # "cut" => pos + d + c = Len(m))
      /\ (state # "open" => coming = <<>>)
      /\ (\A p \in 1..d : data[p] = m[pos + p]) /\ (\A p \in 1..c : coming[p] = m[pos + d + p])
  BY DEF Unread
<1> HIDE DEF d, c, r
<1>4. (pos + n) + (d - n) + c = pos + d + c
  BY <1>1
<1>5. ASSUME NEW p \in 1..(d - n) PROVE r[p] = m[(pos + n) + p]
  <2>1. n + p \in 1..d /\ pos + (n + p) = (pos + n) + p
    BY <1>1
  <2>2. r[p] = data[n + p] /\ data[n + p] = m[pos + (n + p)]
    BY <1>2, <1>3, <2>1
  <2> QED  BY <2>1, <2>2
<1>6. ASSUME NEW p \in 1..c PROVE coming[p] = m[(pos + n) + (d - n) + p]
  <2>1. (pos + n) + (d - n) + p = pos + d + p
    BY <1>1
  <2> QED  BY <1>3, <2>1
<1> QED
  <2>1. Unread(m, pos + n, r, coming, state)
    BY <1>2, <1>3, <1>4, <1>5, <1>6 DEF Unread, c
  <2> QED  BY <2>1 DEF r

LEMMA UnreadClose ==
    ASSUME NEW m \in Seq(Nat), NEW pos \in Nat, NEW data \in Seq(Nat), NEW coming \in Seq(Nat),
           Unread(m, pos, data, coming, "open")
    PROVE  Unread(m, pos, data, <<>>, IF coming = <<>> THEN "closed" ELSE "cut")
<1> DEFINE state == IF coming = <<>> THEN "closed" ELSE "cut"
<1>1. /\ Len(data) \in Nat /\ Len(coming) \in Nat /\ Len(m) \in Nat /\ Len(<<>>) = 0
      /\ coming = <<>> => Len(coming) = 0
  BY LenProperties, EmptySeq
<1>2. /\ pos + Len(data) + Len(coming) = Len(m)
      /\ \A p \in 1..Len(data) : data[p] = m[pos + p]
  BY DEF Unread
<1>3. /\ pos + Len(data) + Len(<<>>) <= Len(m)
      /\ state # "cut" => pos + Len(data) + Len(<<>>) = Len(m)
  <2>1. pos + Len(data) + Len(coming) = Len(m)
    BY <1>2
  <2>2. pos + Len(data) + Len(<<>>) <= Len(m)
    BY ONLY <1>1, <2>1, pos \in Nat
  <2>3. ASSUME state # "cut" PROVE Len(coming) = 0
    BY <1>1, <2>3
  <2>4. Len(coming) = 0 => pos + Len(data) + Len(<<>>) = Len(m)
    BY ONLY <1>1, <2>1, pos \in Nat
  <2> QED  BY <2>2, <2>3, <2>4
<1>4. \A p \in 1..Len(<<>>) : FALSE
  BY <1>1
<1> HIDE DEF state
<1>5. Unread(m, pos, data, <<>>, state)
  BY <1>2, <1>3, <1>4 DEF Unread
<1> QED  BY <1>5 DEF state

--------------------------------------------------------------------------------
(* The bytes of a chunk.                                                   *)
LEMMA ChunkBytes ==
    ASSUME NEW data \in Seq(Nat)
    PROVE  /\ Chunk(data) \in Seq(Nat) /\ Len(Chunk(data)) = Len(data) + 5
           /\ Chunk(data)[1] = Digit(Len(data)) /\ Chunk(data)[2] = CR /\ Chunk(data)[3] = LF
           /\ \A p \in 1..Len(data) : Chunk(data)[3 + p] = data[p]
           /\ Chunk(data)[Len(data) + 4] = CR /\ Chunk(data)[Len(data) + 5] = LF
<1> DEFINE n == Len(data)
           size == <<Digit(n)>>
           line == size \o Crlf
           most == line \o data
<1>1. n \in Nat /\ Digit(n) \in Nat
  BY LenProperties DEF Digit
<1>2. Crlf \in Seq(Nat) /\ Len(Crlf) = 2 /\ Crlf[1] = CR /\ Crlf[2] = LF
  BY DEF Crlf, CR, LF
<1>3. size \in Seq(Nat) /\ Len(size) = 1 /\ size[1] = Digit(n)
  BY <1>1
<1>4. Chunk(data) = most \o Crlf
  BY DEF Chunk
<1> HIDE DEF size, n
<1>5. /\ line \in Seq(Nat) /\ Len(line) = 3
      /\ line[1] = Digit(n) /\ line[2] = CR /\ line[3] = LF
  <2>1. /\ line \in Seq(Nat) /\ Len(line) = 1 + 2
        /\ \A p \in 1..1 : line[p] = size[p]
        /\ \A p \in 1..2 : line[1 + p] = Crlf[p]
    <3>1. /\ line \in Seq(Nat) /\ Len(line) = Len(size) + Len(Crlf)
          /\ \A p \in 1..Len(size) : line[p] = size[p]
          /\ \A p \in 1..Len(Crlf) : line[Len(size) + p] = Crlf[p]
      BY <1>2, <1>3, Appended
    <3> QED  BY ONLY <1>2, <1>3, <3>1
  <2>2. 1 \in 1..1 /\ 1 \in 1..2 /\ 2 \in 1..2 /\ 1 + 1 = 2 /\ 1 + 2 = 3
    OBVIOUS
  <2> QED  BY <1>2, <1>3, <2>1, <2>2
<1> HIDE DEF line
<1>6. /\ most \in Seq(Nat) /\ Len(most) = 3 + n
      /\ most[1] = Digit(n) /\ most[2] = CR /\ most[3] = LF
      /\ \A p \in 1..n : most[3 + p] = data[p]
  <2>1. /\ most \in Seq(Nat) /\ Len(most) = 3 + n
        /\ \A p \in 1..3 : most[p] = line[p]
        /\ \A p \in 1..n : most[3 + p] = data[p]
    <3>1. /\ most \in Seq(Nat) /\ Len(most) = Len(line) + Len(data)
          /\ \A p \in 1..Len(line) : most[p] = line[p]
          /\ \A p \in 1..Len(data) : most[Len(line) + p] = data[p]
      BY <1>5, Appended
    <3> QED  BY ONLY <1>5, <3>1 DEF n
  <2>2. 1 \in 1..3 /\ 2 \in 1..3 /\ 3 \in 1..3
    OBVIOUS
  <2> QED  BY <1>5, <2>1, <2>2
<1> HIDE DEF most
<1> DEFINE k == most \o Crlf
<1>7. /\ k \in Seq(Nat) /\ Len(k) = (3 + n) + 2
      /\ \A p \in 1..(3 + n) : k[p] = most[p]
      /\ \A p \in 1..2 : k[(3 + n) + p] = Crlf[p]
  <2>1. /\ k \in Seq(Nat) /\ Len(k) = Len(most) + Len(Crlf)
        /\ \A p \in 1..Len(most) : k[p] = most[p]
        /\ \A p \in 1..Len(Crlf) : k[Len(most) + p] = Crlf[p]
    BY <1>2, <1>6, Appended
  <2> QED  BY ONLY <1>2, <1>6, <2>1
<1> HIDE DEF k
<1>8. /\ 1 \in 1..(3 + n) /\ 2 \in 1..(3 + n) /\ 3 \in 1..(3 + n)
      /\ \A p \in 1..n : 3 + p \in 1..(3 + n)
      /\ 1 \in 1..2 /\ 2 \in 1..2 /\ (3 + n) + 1 = n + 4 /\ (3 + n) + 2 = n + 5
  BY <1>1
<1>9. k[1] = Digit(n) /\ k[2] = CR /\ k[3] = LF /\ \A p \in 1..n : k[3 + p] = data[p]
  BY <1>6, <1>7, <1>8
<1>10. k[n + 4] = CR /\ k[n + 5] = LF
  <2>1. k[(3 + n) + 1] = CR /\ k[(3 + n) + 2] = LF
    BY <1>2, <1>7, <1>8
  <2> QED  BY <1>8, <2>1
<1>11. k \in Seq(Nat) /\ Len(k) = n + 5
  BY <1>7, <1>8
<1> QED  BY <1>4, <1>9, <1>10, <1>11 DEF k, n

(* Where a body is cut.                                                    *)
LEMMA CutsAre ==
    ASSUME NEW body \in Seq(Nat), NEW c \in ChunkCuts(body)
    PROVE  /\ Len(c) \in Nat /\ Len(c) >= 1 /\ Len(body) \in Nat
           /\ \A i \in 1..Len(c) : c[i] \in Nat /\ c[i] <= Len(body)
           /\ c[1] = 0 /\ c[Len(c)] = Len(body)
           /\ \A i, j \in 1..Len(c) : i < j => c[i] < c[j]
<1>1. Len(body) \in Nat
  BY LenProperties
<1>2. PICK k \in 1..Len(body) + 1 : c \in [1..k -> 0..Len(body)]
  BY DEF ChunkCuts
<1>3. /\ c[1] = 0 /\ c[Len(c)] = Len(body)
      /\ \A i, j \in DOMAIN c : i < j => c[i] < c[j]
  BY DEF ChunkCuts
<1>4. k \in Nat /\ k >= 1 /\ DOMAIN c = 1..k
  BY <1>1, <1>2
<1>5. Len(c) = k
  BY <1>4, <1>2
<1> QED  BY <1>1, <1>2, <1>3, <1>4, <1>5

LEMMA StartsGrow ==
    ASSUME NEW body \in Seq(Nat), NEW c \in ChunkCuts(body)
    PROVE  /\ \A i \in 1..Len(c) : ChunkStart(c, i) \in Nat
           /\ \A i, j \in 1..Len(c) : i < j => ChunkStart(c, i) < ChunkStart(c, j)
           /\ ChunkStart(c, 1) = 0
           /\ \A i \in 1..Len(c) - 1 : /\ i \in 1..Len(c) /\ i + 1 \in 1..Len(c)
                                       /\ c[i + 1] - c[i] \in Nat /\ c[i] < c[i + 1]
                                       /\ ChunkStart(c, i + 1) = ChunkStart(c, i) + (c[i + 1] - c[i]) + 5
<1>1. /\ Len(c) \in Nat /\ Len(c) >= 1
      /\ \A i \in 1..Len(c) : c[i] \in Nat
      /\ c[1] = 0
      /\ \A i, j \in 1..Len(c) : i < j => c[i] < c[j]
  BY CutsAre
<1>2. ASSUME NEW i \in 1..Len(c) PROVE ChunkStart(c, i) \in Nat
  BY <1>1 DEF ChunkStart
<1>3. ASSUME NEW i \in 1..Len(c), NEW j \in 1..Len(c), i < j PROVE ChunkStart(c, i) < ChunkStart(c, j)
  <2>1. c[i] < c[j] /\ c[i] \in Nat /\ c[j] \in Nat
    BY <1>1, <1>3
  <2> QED  BY <1>3, <2>1 DEF ChunkStart
<1>4. ChunkStart(c, 1) = 0
  BY <1>1 DEF ChunkStart
<1>5. ASSUME NEW i \in 1..Len(c) - 1
      PROVE  /\ i \in 1..Len(c) /\ i + 1 \in 1..Len(c) /\ c[i + 1] - c[i] \in Nat
             /\ c[i] < c[i + 1]
             /\ ChunkStart(c, i + 1) = ChunkStart(c, i) + (c[i + 1] - c[i]) + 5
  <2>1. i \in 1..Len(c) /\ i + 1 \in 1..Len(c) /\ i < i + 1 /\ i \in Nat
    BY <1>1
  <2>2. c[i] < c[i + 1] /\ c[i] \in Nat /\ c[i + 1] \in Nat
    BY <1>1, <2>1
  <2> QED  BY <2>1, <2>2 DEF ChunkStart
<1> QED  BY <1>2, <1>3, <1>4, <1>5

Below == {ss \in Nat \X Nat : ss[1] < ss[2]}

LEMMA LeastNumber ==
    ASSUME NEW S \in SUBSET Nat, S # {}
    PROVE  \E n \in S : \A m \in S : n <= m
<1>1. IsWellFoundedOn(Below, Nat)
  <2>1. Below = OpToRel(<, Nat)
    BY Zenon DEF Below, OpToRel
  <2> QED  BY <2>1, NatLessThanWellFounded, Zenon
<1>2. S \subseteq Nat
  OBVIOUS
<1>3. PICK n \in S : \A m \in S : ~(<<m, n>> \in Below)
  BY ONLY <1>1, <1>2, S # {}, WFMin, Zenon
<1>4. ASSUME NEW m \in S PROVE n <= m
  <2>1. m \in Nat /\ n \in Nat
    BY <1>2
  <2>2. <<m, n>> \in Below <=> m < n
    BY <2>1 DEF Below
  <2> QED  BY <1>3, <2>1, <2>2
<1> QED  BY <1>4

(* Each byte before the last chunk is in one chunk, and in no other.       *)
LEMMA InAChunk ==
    ASSUME NEW body \in Seq(Nat), NEW c \in ChunkCuts(body), NEW p \in 1..ChunkStart(c, Len(c))
    PROVE  \E i \in 1..Len(c) - 1 : ChunkStart(c, i) < p /\ p <= ChunkStart(c, i + 1)
<1> DEFINE S == {i \in 1..Len(c) : p <= ChunkStart(c, i)}
<1>1. Len(c) \in Nat /\ Len(c) >= 1 /\ \A i \in 1..Len(c) : ChunkStart(c, i) \in Nat
  BY CutsAre, StartsGrow
<1>2. Len(c) \in S
  BY <1>1
<1>3. PICK n \in S : \A m \in S : n <= m
  <2>1. S \in SUBSET Nat /\ S # {}
    BY <1>1, <1>2
  <2> HIDE DEF S
  <2> QED  BY <2>1, LeastNumber
<1>4. n # 1
  BY <1>3, StartsGrow
<1>5. n - 1 \in 1..Len(c) - 1 /\ n - 1 \in 1..Len(c) /\ (n - 1) + 1 = n /\ ~(n <= n - 1)
  BY <1>1, <1>3, <1>4
<1>6. ~(p <= ChunkStart(c, n - 1))
  BY <1>3, <1>5
<1>7. ChunkStart(c, n - 1) < p
  BY <1>1, <1>5, <1>6
<1> QED  BY <1>3, <1>5, <1>7

LEMMA InOneChunk ==
    ASSUME NEW body \in Seq(Nat), NEW c \in ChunkCuts(body), NEW p \in Nat,
           NEW i \in 1..Len(c) - 1, ChunkStart(c, i) < p /\ p <= ChunkStart(c, i + 1),
           NEW j \in 1..Len(c) - 1, ChunkStart(c, j) < p /\ p <= ChunkStart(c, j + 1)
    PROVE  i = j
<1>1. Len(c) \in Nat /\ \A a \in 1..Len(c) : ChunkStart(c, a) \in Nat
  BY CutsAre, StartsGrow
<1>2. ASSUME NEW a \in 1..Len(c) - 1, NEW b \in 1..Len(c) - 1, a < b, ChunkStart(c, b) < p,
             p <= ChunkStart(c, a + 1)
      PROVE  FALSE
  <2>1. a + 1 \in 1..Len(c) /\ b \in 1..Len(c) /\ (a + 1 = b \/ a + 1 < b)
    BY <1>1, <1>2
  <2>2. ChunkStart(c, a + 1) <= ChunkStart(c, b)
    <3>1. a + 1 < b => ChunkStart(c, a + 1) < ChunkStart(c, b)
      BY <2>1, StartsGrow
    <3>2. ChunkStart(c, a + 1) \in Nat /\ ChunkStart(c, b) \in Nat
      BY <1>1, <2>1
    <3> DEFINE x == ChunkStart(c, a + 1)
               y == ChunkStart(c, b)
    <3>3. a + 1 = b => x = y
      OBVIOUS
    <3> HIDE DEF x, y
    <3>4. x <= y
      BY <2>1, <3>1, <3>2, <3>3 DEF x, y
    <3> QED  BY <3>4 DEF x, y
  <2> QED  BY <1>1, <1>2, <2>1, <2>2
<1>3. ~(i < j) /\ ~(j < i)
  BY <1>2
<1> QED  BY <1>3, <1>1

(* The bytes of the chunks of a body are those of each of them.            *)
LEMMA ChunksBytes ==
    ASSUME NEW body \in Seq(Nat), NEW c \in ChunkCuts(body)
    PROVE  /\ Chunks(body, c) \in Seq(Nat) /\ Len(Chunks(body, c)) = ChunkStart(c, Len(c)) + 5
           /\ \A i \in 1..Len(c) - 1 :
                LET chunk == Chunk(SubSeq(body, c[i] + 1, c[i + 1]))
                IN \A o \in 1..c[i + 1] - c[i] + 5 : Chunks(body, c)[ChunkStart(c, i) + o] = chunk[o]
           /\ \A o \in 1..5 : Chunks(body, c)[ChunkStart(c, Len(c)) + o] = Chunk(<<>>)[o]
<1> DEFINE chunk(i) == Chunk(SubSeq(body, c[i] + 1, c[i + 1]))
           at(p) == CHOOSE i \in 1..Len(c) - 1 : ChunkStart(c, i) < p /\ p <= ChunkStart(c, i + 1)
           n == ChunkStart(c, Len(c))
           all == [p \in 1..n |-> chunk(at(p))[p - ChunkStart(c, at(p))]]
<1>1. /\ Len(c) \in Nat /\ Len(c) >= 1 /\ Len(body) \in Nat
      /\ \A i \in 1..Len(c) : c[i] \in Nat /\ c[i] <= Len(body)
  BY CutsAre
<1>2. /\ \A i \in 1..Len(c) : ChunkStart(c, i) \in Nat
      /\ \A i \in 1..Len(c) - 1 : /\ i \in 1..Len(c) /\ i + 1 \in 1..Len(c)
                                  /\ c[i + 1] - c[i] \in Nat /\ c[i] < c[i + 1]
                                  /\ ChunkStart(c, i + 1) = ChunkStart(c, i) + (c[i + 1] - c[i]) + 5
  BY StartsGrow
<1>3. n \in Nat
  BY <1>1, <1>2
<1>4. ASSUME NEW i \in 1..Len(c) - 1
      PROVE  /\ chunk(i) \in Seq(Nat) /\ Len(chunk(i)) = c[i + 1] - c[i] + 5
  <2> DEFINE a == c[i] + 1
             b == c[i + 1]
             part == SubSeq(body, a, b)
  <2>1. c[i] \in Nat /\ c[i + 1] \in Nat /\ c[i] < c[i + 1] /\ c[i + 1] <= Len(body)
    BY <1>1, <1>2
  <2>2. a \in Int /\ b \in Int /\ a <= b /\ b - a + 1 = c[i + 1] - c[i]
        /\ \A q \in a..b : q \in 1..Len(body)
    <3> DEFINE x == c[i]
               y == c[i + 1]
               l == Len(body)
    <3>1. x \in Nat /\ y \in Nat /\ x < y /\ y <= l /\ l \in Nat
      BY <1>1, <2>1
    <3> HIDE DEF x, y, l
    <3>2. /\ x + 1 \in Int /\ y \in Int /\ x + 1 <= y /\ y - (x + 1) + 1 = y - x
          /\ \A q \in (x + 1)..y : q \in 1..l
      BY <3>1
    <3> QED  BY ONLY <3>2 DEF x, y, l, a, b
  <2>3. \A q \in a..b : body[q] \in Nat
    BY <2>2, ElementOfSeq
  <2> HIDE DEF a, b
  <2>4. part \in Seq(Nat) /\ Len(part) = c[i + 1] - c[i]
    <3>1. part \in Seq(Nat) /\ Len(part) = IF a <= b THEN b - a + 1 ELSE 0
      BY <2>2, <2>3, SubSeqProperties
    <3> QED  BY <2>2, <3>1
  <2> HIDE DEF part
  <2>5. Chunk(part) \in Seq(Nat) /\ Len(Chunk(part)) = c[i + 1] - c[i] + 5
    BY <2>4, ChunkBytes
  <2> QED  BY <2>5 DEF part, a, b
<1>5. ASSUME NEW p \in 1..n, NEW i \in 1..Len(c) - 1, ChunkStart(c, i) < p, p <= ChunkStart(c, i + 1)
      PROVE  at(p) = i
  <2>1. p \in Nat
    BY <1>3
  <2>2. \A j \in 1..Len(c) - 1 : (ChunkStart(c, j) < p /\ p <= ChunkStart(c, j + 1)) => j = i
    BY <1>5, <2>1, InOneChunk
  <2> QED  BY <1>5, <2>2, Zenon
<1>6. ASSUME NEW i \in 1..Len(c) - 1, NEW o \in 1..c[i + 1] - c[i] + 5
      PROVE  all[ChunkStart(c, i) + o] = chunk(i)[o] /\ ChunkStart(c, i) + o \in 1..n
  <2> DEFINE p == ChunkStart(c, i) + o
  <2>1. ChunkStart(c, i) < p /\ p <= ChunkStart(c, i + 1) /\ p - ChunkStart(c, i) = o
    <3>1. PICK u \in Nat, v \in Nat, d \in Nat :
            /\ u = ChunkStart(c, i) /\ v = ChunkStart(c, i + 1) /\ d = c[i + 1] - c[i]
            /\ v = u + d + 5
      BY <1>2
    <3>2. o \in 1..d + 5
      BY ONLY <3>1, o \in 1..c[i + 1] - c[i] + 5
    <3>3. v = u + d + 5
      BY ONLY <3>1
    <3>4. o \in Nat /\ o >= 1 /\ o <= d + 5
      BY ONLY <3>2, d \in Nat
    <3>5. u < u + o /\ (u + o) - u = o
      BY ONLY <3>4, u \in Nat
    <3>6. u + o <= v
      BY ONLY <3>3, <3>4, u \in Nat, v \in Nat, d \in Nat
    <3> QED  BY ONLY <3>1, <3>5, <3>6 DEF p
  <2>2. ChunkStart(c, i + 1) <= n
    <3>1. i + 1 = Len(c) \/ i + 1 < Len(c)
      BY <1>1
    <3>2. CASE i + 1 = Len(c)
      BY <1>3, <3>2
    <3>3. CASE i + 1 < Len(c)
      <4>1. ChunkStart(c, i + 1) < n
        BY <1>1, <1>2, <3>3, StartsGrow
      <4>2. ChunkStart(c, i + 1) \in Nat
        BY <1>2
      <4> QED  BY <1>3, <4>1, <4>2
    <3> QED  BY <3>1, <3>2, <3>3
  <2>3. ChunkStart(c, i) \in Nat /\ ChunkStart(c, i + 1) \in Nat
    BY <1>2
  <2>4. p \in 1..n
    <3> HIDE DEF n
    <3> QED  BY <1>3, <2>1, <2>2, <2>3
  <2> HIDE DEF n, p, chunk
  <2>5. at(p) = i
    BY <1>5, <2>1, <2>4
  <2> HIDE DEF at
  <2>6. all[p] = chunk(at(p))[p - ChunkStart(c, at(p))]
    BY <2>4
  <2> HIDE DEF all
  <2>7. all[p] = chunk(i)[p - ChunkStart(c, i)]
    BY ONLY <2>5, <2>6, Zenon
  <2> QED  BY ONLY <2>1, <2>4, <2>7 DEF p
<1>7. ASSUME NEW p \in 1..n PROVE all[p] \in Nat
  <2>1. PICK i \in 1..Len(c) - 1 : ChunkStart(c, i) < p /\ p <= ChunkStart(c, i + 1)
    BY InAChunk
  <2> DEFINE o == p - ChunkStart(c, i)
  <2>2. o \in 1..c[i + 1] - c[i] + 5 /\ ChunkStart(c, i) + o = p
    <3>1. PICK u \in Nat, v \in Nat, d \in Nat :
            /\ u = ChunkStart(c, i) /\ v = ChunkStart(c, i + 1) /\ d = c[i + 1] - c[i]
            /\ v = u + d + 5
      BY <1>2
    <3>2. p \in Nat /\ u < p /\ p <= v
      BY <1>3, <2>1, <3>1
    <3>3. v = u + d + 5
      BY ONLY <3>1
    <3>4. p - u \in 1..d + 5 /\ u + (p - u) = p
      BY ONLY <3>2, <3>3, u \in Nat, d \in Nat
    <3> QED  BY ONLY <3>1, <3>4 DEF o
  <2> HIDE DEF o, all, n, chunk
  <2>3. all[ChunkStart(c, i) + o] = chunk(i)[o]
    BY <1>6, <2>2
  <2>4. o \in 1..Len(chunk(i))
    BY <1>4, <2>2
  <2>5. chunk(i)[o] \in Nat
    BY <1>4, <2>4, ElementOfSeq
  <2> QED  BY <2>2, <2>3, <2>5
<1>8. all \in Seq(Nat) /\ Len(all) = n
  <2>1. all \in [1..n -> Nat]
    <3>1. DOMAIN all = 1..n
      BY Zenon
    <3> HIDE DEF at, chunk
    <3> QED  BY <1>7, Zenon
  <2> HIDE DEF all, n
  <2> QED  BY <1>3, <2>1
<1>9. Chunks(body, c) = all \o Chunk(<<>>)
  BY DEF Chunks
<1>10. Chunk(<<>>) \in Seq(Nat) /\ Len(Chunk(<<>>)) = 5
  <2>1. <<>> \in Seq(Nat) /\ Len(<<>>) = 0
    BY EmptySeq
  <2>2. Chunk(<<>>) \in Seq(Nat) /\ Len(Chunk(<<>>)) = Len(<<>>) + 5
    BY <2>1, ChunkBytes
  <2> QED  BY <2>1, <2>2
<1> HIDE DEF all, n, chunk
<1> DEFINE f == all \o Chunk(<<>>)
<1>11. /\ f \in Seq(Nat) /\ Len(f) = n + 5
       /\ \A p \in 1..n : f[p] = all[p]
       /\ \A p \in 1..5 : f[n + p] = Chunk(<<>>)[p]
  <2>1. /\ f \in Seq(Nat) /\ Len(f) = Len(all) + Len(Chunk(<<>>))
        /\ \A p \in 1..Len(all) : f[p] = all[p]
        /\ \A p \in 1..Len(Chunk(<<>>)) : f[Len(all) + p] = Chunk(<<>>)[p]
    BY <1>8, <1>10, Appended
  <2> QED  BY ONLY <1>8, <1>10, <2>1
<1> HIDE DEF f
<1>12. ASSUME NEW i \in 1..Len(c) - 1, NEW o \in 1..c[i + 1] - c[i] + 5
       PROVE  f[ChunkStart(c, i) + o] = chunk(i)[o]
  BY <1>6, <1>11
<1>13. f = Chunks(body, c)
  BY <1>9 DEF f
<1>14. \A o \in 1..5 : Chunks(body, c)[ChunkStart(c, Len(c)) + o] = Chunk(<<>>)[o]
  BY ONLY <1>11, <1>13, Zenon DEF n
<1>15. Chunks(body, c) \in Seq(Nat) /\ Len(Chunks(body, c)) = ChunkStart(c, Len(c)) + 5
  BY ONLY <1>11, <1>13, Zenon DEF n
<1> QED  BY ONLY <1>12, <1>13, <1>14, <1>15, Zenon DEF chunk

(* What the server sends.                                                  *)
Message(body, how, c) == <<72>> \o HeaderEnd \o Framed(body, how, c)

LEMMA LineEnds ==
    /\ Crlf \in Seq(Nat) /\ Len(Crlf) = 2 /\ Crlf[1] = CR /\ Crlf[2] = LF
    /\ HeaderEnd \in Seq(Nat) /\ Len(HeaderEnd) = 4 /\ HeaderEnd[1] = CR
  BY DEF HeaderEnd, Crlf, CR, LF

(* Its header, and a message in terms of the two.                          *)
Header == <<72>> \o HeaderEnd

LEMMA HeaderBytes ==
    /\ Header \in Seq(Nat) /\ Len(Header) = 5 /\ Header[1] # CR
    /\ \A p \in 1..4 : Header[1 + p] = HeaderEnd[p]
<1>1. PICK one : one = <<72>>
  OBVIOUS
<1>2. one \in Seq(Nat) /\ Len(one) = 1 /\ one[1] = 72
  BY <1>1
<1>3. PICK last \in Seq(Nat) : last = HeaderEnd /\ Len(last) = 4
  BY LineEnds
<1>4. PICK head : head = one \o last
  OBVIOUS
<1>5. Joined(head, one, last)
  BY <1>2, <1>4, JoinedIs
<1>6. /\ head \in Seq(Nat) /\ Len(head) = Len(one) + Len(last)
      /\ (\A p \in 1..Len(one) : head[p] = one[p])
      /\ \A p \in 1..Len(last) : head[Len(one) + p] = last[p]
  BY <1>5 DEF Joined
<1>7. Len(head) = 5
  BY ONLY <1>2, <1>3, <1>6
<1>8. head[1] = 72
  BY ONLY <1>2, <1>6
<1>9. \A p \in 1..4 : head[1 + p] = last[p]
  BY ONLY <1>2, <1>3, <1>6, Zenon
<1>10. Header = head
  BY ONLY <1>1, <1>3, <1>4 DEF Header
<1>11. Header[1] # CR
  BY <1>8, <1>10 DEF CR
<1> QED  BY ONLY <1>3, <1>6, <1>7, <1>9, <1>10, <1>11

LEMMA MessageIs ==
    ASSUME NEW body, NEW how, NEW c, NEW f \in Seq(Nat), f = Framed(body, how, c),
           NEW m, m = Message(body, how, c)
    PROVE  Joined(m, Header, f)
<1>1. m = Header \o f
  BY DEF Message, Header
<1> QED  BY <1>1, HeaderBytes, JoinedIs

LEMMA MessageLen ==
    ASSUME NEW body, NEW how, NEW c, NEW f \in Seq(Nat), f = Framed(body, how, c),
           NEW m, m = Message(body, how, c)
    PROVE  m \in Seq(Nat) /\ Len(m) = 5 + Len(f)
<1>1. Joined(m, Header, f)
  BY MessageIs
<1> QED  BY ONLY <1>1, HeaderBytes DEF Joined

(* A message begins with its header, whose first byte ends no line.        *)
Headed(m) == m[1] # CR /\ \A p \in 1..4 : m[1 + p] = HeaderEnd[p]

LEMMA MessageHeaded ==
    ASSUME NEW body, NEW how, NEW c, NEW f \in Seq(Nat), f = Framed(body, how, c),
           NEW m, m = Message(body, how, c)
    PROVE  Headed(m)
<1>1. Joined(m, Header, f)
  BY MessageIs
<1>2. \A p \in 1..5 : m[p] = Header[p]
  BY ONLY <1>1, HeaderBytes DEF Joined
<1>3. 1 \in 1..5 /\ \A p \in 1..4 : 1 + p \in 1..5
  OBVIOUS
<1>4. m[1] # CR
  BY ONLY <1>2, <1>3, HeaderBytes
<1>5. \A p \in 1..4 : m[1 + p] = HeaderEnd[p]
  BY ONLY <1>2, <1>3, HeaderBytes
<1> QED  BY <1>4, <1>5 DEF Headed

LEMMA MessageBody ==
    ASSUME NEW body, NEW how, NEW c, NEW f \in Seq(Nat), f = Framed(body, how, c),
           NEW m, m = Message(body, how, c), NEW p \in 1..Len(f)
    PROVE  m[5 + p] = f[p]
<1>1. Joined(m, Header, f)
  BY MessageIs
<1> QED  BY ONLY <1>1, HeaderBytes, p \in 1..Len(f) DEF Joined

(* The data of the chunk behind each cut; there are none at the last.      *)
ChunkLen(c, i) == IF i < Len(c) THEN c[i + 1] - c[i] ELSE 0

(* A chunk of n bytes, those behind the first x of the body, is in m       *)
(* behind s bytes.                                                         *)
HoldsChunk(m, s, n, body, x) ==
    /\ m[s + 1] = Digit(n) /\ m[s + 2] = CR /\ m[s + 3] = LF
    /\ s + n + 5 <= Len(m)
    /\ \A o \in 1..n : m[s + 3 + o] = body[x + o]
    /\ m[s + n + 4] = CR /\ m[s + n + 5] = LF

LEMMA SizeLine ==
    ASSUME NEW body \in Seq(Nat), NEW c \in ChunkCuts(body), NEW i \in 1..Len(c), NEW s \in Nat,
           s = 5 + ChunkStart(c, i), NEW m, m = Message(body, "chunked", c)
    PROVE  m \in Seq(Nat) /\ ChunkLen(c, i) \in Nat /\ HoldsChunk(m, s, ChunkLen(c, i), body, c[i])
<1> DEFINE f == Chunks(body, c)
           data == IF i < Len(c) THEN SubSeq(body, c[i] + 1, c[i + 1]) ELSE <<>>
           n == ChunkLen(c, i)
           b == ChunkStart(c, i)
           x == c[i]
           k == Chunk(data)
<1>1. /\ Len(c) \in Nat /\ Len(c) >= 1 /\ Len(body) \in Nat
      /\ \A j \in 1..Len(c) : c[j] \in Nat /\ c[j] <= Len(body)
  BY CutsAre
<1>2. /\ \A j \in 1..Len(c) : ChunkStart(c, j) \in Nat
      /\ \A j \in 1..Len(c) - 1 : /\ j \in 1..Len(c) /\ j + 1 \in 1..Len(c)
                                  /\ c[j + 1] - c[j] \in Nat /\ c[j] < c[j + 1]
                                  /\ ChunkStart(c, j + 1) = ChunkStart(c, j) + (c[j + 1] - c[j]) + 5
  BY StartsGrow
<1>3. /\ f \in Seq(Nat) /\ Len(f) = ChunkStart(c, Len(c)) + 5
      /\ \A j \in 1..Len(c) - 1 : \A o \in 1..c[j + 1] - c[j] + 5 :
            f[ChunkStart(c, j) + o] = Chunk(SubSeq(body, c[j] + 1, c[j + 1]))[o]
      /\ \A o \in 1..5 : f[ChunkStart(c, Len(c)) + o] = Chunk(<<>>)[o]
  BY ChunksBytes
<1>4. m \in Seq(Nat) /\ Len(m) = 5 + Len(f) /\ \A p \in 1..Len(f) : m[5 + p] = f[p]
  <2>1. f = Framed(body, "chunked", c)
    BY DEF Framed
  <2>2. f \in Seq(Nat)
    BY <1>3
  <2> HIDE DEF f
  <2>3. m = Message(body, "chunked", c)
    OBVIOUS
  <2>4. m \in Seq(Nat) /\ Len(m) = 5 + Len(f)
    BY ONLY <2>1, <2>2, <2>3, MessageLen
  <2>5. \A p \in 1..Len(f) : m[5 + p] = f[p]
    BY ONLY <2>1, <2>2, <2>3, MessageBody
  <2> QED  BY <2>4, <2>5
<1> HIDE DEF f
<1>5. n \in Nat /\ b \in Nat /\ x \in Nat /\ Len(f) \in Nat /\ b + n + 5 <= Len(f)
  <2>1. CASE i < Len(c)
    <3>1. i \in 1..Len(c) - 1 /\ (i + 1 = Len(c) \/ i + 1 < Len(c))
      BY <1>1, <2>1
    <3>2. n = c[i + 1] - c[i] /\ n \in Nat /\ ChunkStart(c, i + 1) = b + n + 5
      BY <1>2, <2>1, <3>1 DEF ChunkLen
    <3>3. ChunkStart(c, i + 1) <= ChunkStart(c, Len(c))
      <4>1. i + 1 < Len(c) => ChunkStart(c, i + 1) < ChunkStart(c, Len(c))
        BY <1>1, <1>2, <3>1, StartsGrow
      <4>2. ChunkStart(c, i + 1) \in Nat /\ ChunkStart(c, Len(c)) \in Nat
        BY <1>1, <1>2, <3>1
      <4>3. CASE i + 1 = Len(c)
        BY <4>2, <4>3
      <4>4. CASE i + 1 < Len(c)
        BY <4>1, <4>2, <4>4
      <4> QED  BY <3>1, <4>3, <4>4
    <3>4. ChunkStart(c, Len(c)) \in Nat /\ b \in Nat /\ x \in Nat
      BY <1>1, <1>2
    <3>5. Len(f) \in Nat /\ Len(f) = ChunkStart(c, Len(c)) + 5
      BY <1>3, LenProperties
    <3>6. PICK end \in Nat : end = ChunkStart(c, Len(c))
      BY <3>4
    <3> HIDE DEF n, b, x
    <3>7. n \in Nat /\ b \in Nat /\ b + n + 5 <= end
      BY <3>2, <3>3, <3>4, <3>6
    <3>8. b + n + 5 <= Len(f)
      BY ONLY <3>5, <3>6, <3>7, end \in Nat
    <3> QED  BY <3>4, <3>5, <3>7, <3>8
  <2>2. CASE ~(i < Len(c))
    <3>1. i = Len(c) /\ n = 0
      BY <1>1, <2>2 DEF ChunkLen
    <3>2. b = ChunkStart(c, Len(c)) /\ b \in Nat /\ x \in Nat
      BY <1>1, <1>2, <3>1
    <3> HIDE DEF n, b, x
    <3> QED  BY <1>3, <3>1, <3>2
  <2> QED  BY <2>1, <2>2
<1>6. /\ data \in Seq(Nat) /\ Len(data) = n
      /\ \A o \in 1..n : data[o] = body[x + o]
  <2>1. CASE i < Len(c)
    <3> DEFINE y == c[i + 1]
    <3>1. i \in 1..Len(c) - 1
      BY <1>1, <2>1
    <3>2. y \in Nat /\ x < y /\ y <= Len(body) /\ n = y - x
      BY <1>1, <1>2, <2>1, <3>1 DEF ChunkLen
    <3>3. data = SubSeq(body, x + 1, y)
      BY <2>1
    <3> HIDE DEF x, y, n, data
    <3>4. /\ x + 1 \in Int /\ y \in Int /\ x + 1 <= y /\ y - (x + 1) + 1 = n
          /\ (\A q \in (x + 1)..y : q \in 1..Len(body)) /\ \A o \in 1..n : (x + 1) + o - 1 = x + o
      BY <1>1, <1>5, <3>2
    <3>5. \A q \in (x + 1)..y : body[q] \in Nat
      BY <3>4, ElementOfSeq
    <3>6. PICK from \in Int, to \in Int : from = x + 1 /\ to = y
      BY <3>4
    <3>7. PICK part : part = SubSeq(body, from, to)
      OBVIOUS
    <3>8. /\ part \in Seq(Nat) /\ Len(part) = IF from <= to THEN to - from + 1 ELSE 0
          /\ \A o \in 1..(to - from + 1) : part[o] = body[from + o - 1]
      <4>1. \A q \in from..to : body[q] \in Nat
        BY ONLY <3>5, <3>6
      <4> QED  BY ONLY <3>7, <4>1, SubSeqProperties
    <3>9. data = part /\ to - from + 1 = n /\ from <= to
      BY ONLY <3>3, <3>4, <3>6, <3>7
    <3>10. data \in Seq(Nat) /\ Len(data) = n
      BY ONLY <3>8, <3>9
    <3>11. \A o \in 1..n : data[o] = body[from + o - 1]
      BY ONLY <3>8, <3>9, Zenon
    <3>12. \A o \in 1..n : data[o] = body[x + o]
      BY ONLY <3>4, <3>6, <3>11, Zenon
    <3> QED  BY ONLY <3>10, <3>12
  <2>2. CASE ~(i < Len(c))
    <3>1. data = <<>> /\ n = 0 /\ \A o \in 1..0 : FALSE
      BY <2>2 DEF ChunkLen
    <3>2. data \in Seq(Nat) /\ Len(data) = 0
      BY <3>1, EmptySeq
    <3> QED  BY <3>1, <3>2
  <2> QED  BY <2>1, <2>2
<1>7. ASSUME NEW o \in 1..n + 5 PROVE f[b + o] = k[o]
  <2>1. CASE i < Len(c)
    <3>1. i \in 1..Len(c) - 1
      BY <1>1, <2>1
    <3>2. n = c[i + 1] - c[i] /\ data = SubSeq(body, c[i] + 1, c[i + 1])
      BY <2>1 DEF ChunkLen
    <3>3. o \in 1..c[i + 1] - c[i] + 5
      BY ONLY <3>2, o \in 1..n + 5
    <3>4. f[ChunkStart(c, i) + o] = Chunk(SubSeq(body, c[i] + 1, c[i + 1]))[o]
      BY <1>3, <3>1, <3>3
    <3> QED  BY ONLY <3>2, <3>4
  <2>2. CASE ~(i < Len(c))
    <3>1. i = Len(c) /\ n = 0 /\ data = <<>>
      BY <1>1, <2>2 DEF ChunkLen
    <3>2. o \in 1..5
      BY ONLY <3>1, o \in 1..n + 5
    <3>3. f[ChunkStart(c, Len(c)) + o] = Chunk(<<>>)[o]
      BY <1>3, <3>2
    <3> QED  BY ONLY <3>1, <3>3
  <2> QED  BY <2>1, <2>2
<1> HIDE DEF data, n, b, x, k
<1>8. /\ k[1] = Digit(n) /\ k[2] = CR /\ k[3] = LF
      /\ \A p \in 1..n : k[3 + p] = data[p]
      /\ k[n + 4] = CR /\ k[n + 5] = LF
  <2>1. /\ k[1] = Digit(Len(data)) /\ k[2] = CR /\ k[3] = LF
        /\ \A p \in 1..Len(data) : k[3 + p] = data[p]
        /\ k[Len(data) + 4] = CR /\ k[Len(data) + 5] = LF
    BY <1>6, ChunkBytes, Zenon DEF k
  <2>2. Len(data) = n
    BY <1>6
  <2> QED  BY ONLY <2>1, <2>2, Zenon
<1>9. ASSUME NEW o \in 1..n + 5 PROVE m[s + o] = k[o]
  <2>1. b + o \in 1..Len(f) /\ 5 + (b + o) = s + o
    <3>1. s = 5 + b
      BY DEF b
    <3>2. PICK l \in Nat : l = Len(f)
      BY <1>5
    <3>3. n \in Nat /\ b \in Nat /\ b + n + 5 <= l
      BY ONLY <1>5, <3>2
    <3>4. b + o \in 1..l /\ 5 + (b + o) = s + o
      BY ONLY <3>1, <3>3, o \in 1..n + 5, l \in Nat
    <3> QED  BY ONLY <3>2, <3>4
  <2> QED  BY <1>4, <1>7, <2>1
<1>10. /\ 1 \in 1..n + 5 /\ 2 \in 1..n + 5 /\ 3 \in 1..n + 5 /\ n + 4 \in 1..n + 5
       /\ n + 5 \in 1..n + 5 /\ s + (n + 4) = s + n + 4 /\ s + (n + 5) = s + n + 5
       /\ \A o \in 1..n : 3 + o \in 1..n + 5 /\ s + (3 + o) = s + 3 + o
  BY <1>5
<1>11. m[s + 1] = Digit(n) /\ m[s + 2] = CR /\ m[s + 3] = LF
  BY <1>8, <1>9, <1>10
<1>12. m[s + n + 4] = CR /\ m[s + n + 5] = LF
  <2>1. m[s + (n + 4)] = CR /\ m[s + (n + 5)] = LF
    BY <1>8, <1>9, <1>10
  <2> QED  BY ONLY <1>10, <2>1
<1>13. ASSUME NEW o \in 1..n PROVE m[s + 3 + o] = body[x + o]
  <2>1. 3 + o \in 1..n + 5 /\ s + (3 + o) = s + 3 + o
    BY <1>10
  <2>2. m[s + (3 + o)] = k[3 + o] /\ k[3 + o] = data[o] /\ data[o] = body[x + o]
    BY <1>6, <1>8, <1>9, <2>1
  <2> QED  BY ONLY <2>1, <2>2
<1>14. s + n + 5 <= Len(m)
  BY <1>4, <1>5 DEF b
<1> QED  BY <1>4, <1>5, <1>11, <1>12, <1>13, <1>14, Zenon DEF n, x, HoldsChunk

(* The line of a size is seen once three bytes of it are there.            *)
LEMMA SizeSeen ==
    ASSUME NEW body \in Seq(Nat), NEW c \in ChunkCuts(body), NEW i \in 1..Len(c),
           NEW rest \in Seq(Nat), NEW coming \in Seq(Nat), NEW state,
           NEW m, m = Message(body, "chunked", c), NEW s \in Nat, s = 5 + ChunkStart(c, i),
           Unread(m, s, rest, coming, state)
    PROVE  /\ Len(rest) < 3 => Search(rest, Crlf) = 0
           /\ Len(rest) >= 3 => /\ Search(rest, Crlf) = 2
                                /\ LineSize(rest, 2) = ChunkLen(c, i)
                                /\ Drop(rest, 3) \in Seq(Nat)
                                /\ Unread(m, s + 3, Drop(rest, 3), coming, state)
<1> DEFINE n == ChunkLen(c, i)
<1>1. /\ m \in Seq(Nat) /\ n \in Nat
      /\ m[s + 1] = Digit(n) /\ m[s + 2] = CR /\ m[s + 3] = LF
  <2>1. m \in Seq(Nat) /\ n \in Nat /\ HoldsChunk(m, s, n, body, c[i])
    BY SizeLine
  <2> HIDE DEF n
  <2> QED  BY <2>1 DEF HoldsChunk
<1>2. Len(rest) \in Nat
  BY LenProperties
<1>3. \A p \in 1..Len(rest) : rest[p] = m[s + p]
  BY DEF Unread
<1> HIDE DEF n
<1>4. ASSUME Len(rest) > 0 PROVE rest[1] = Digit(n)
  <2>1. 1 \in 1..Len(rest)
    BY <1>2, <1>4
  <2> QED  BY <1>1, <1>3, <2>1
<1>5. Digit(n) # CR
  BY <1>1 DEF Digit, CR
<1>6. /\ Crlf \in Seq(Nat) /\ Len(Crlf) = 2 /\ Crlf[1] = CR /\ Crlf[2] = LF
      /\ Len(Crlf) > 0 /\ Len(Crlf) + 1 = 3
  BY LineEnds
<1>7. Len(rest) > 0 => rest[1] # Crlf[1]
  BY <1>4, <1>5, <1>6
<1>8. /\ Len(rest) < 3 => Search(rest, Crlf) = 0
      /\ (Len(rest) >= 3 /\ \A p \in 1..Len(Crlf) : rest[1 + p] = Crlf[p]) => Search(rest, Crlf) = 2
  <2>1. /\ Len(rest) < Len(Crlf) + 1 => Search(rest, Crlf) = 0
        /\ (Len(rest) >= Len(Crlf) + 1 /\ \A p \in 1..Len(Crlf) : rest[1 + p] = Crlf[p])
              => Search(rest, Crlf) = 2
    BY <1>6, <1>7, SearchSecond
  <2> QED  BY ONLY <1>6, <2>1
<1>9. ASSUME Len(rest) >= 3
      PROVE  /\ \A p \in 1..Len(Crlf) : rest[1 + p] = Crlf[p]
             /\ LineSize(rest, 2) = n
             /\ Drop(rest, 3) \in Seq(Nat)
             /\ Unread(m, s + 3, Drop(rest, 3), coming, state)
  <2>1. 2 \in 1..Len(rest) /\ 3 \in 1..Len(rest)
    BY <1>2, <1>9
  <2>2. rest[2] = CR /\ rest[3] = LF
    BY <1>1, <1>3, <2>1
  <2>3. \A p \in 1..2 : p = 1 \/ p = 2
    OBVIOUS
  <2>4. \A p \in 1..2 : rest[1 + p] = Crlf[p]
    <3>1. rest[1 + 1] = Crlf[1] /\ rest[1 + 2] = Crlf[2]
      BY <1>6, <2>2
    <3> QED  BY ONLY <2>3, <3>1
  <2>5. rest[1] = 48 + n
    BY <1>2, <1>4, <1>9 DEF Digit
  <2>6. LineSize(rest, 2) = n
    BY <1>1, <2>5 DEF LineSize, Digit
  <2>7. Drop(rest, 3) \in Seq(Nat)
    BY <1>9, TakeAndDrop
  <2>8. Unread(m, s + 3, Drop(rest, 3), coming, state)
    BY <1>1, <1>9, UnreadDrop
  <2> QED  BY <1>6, <2>4, <2>6, <2>7, <2>8
<1>10. Len(rest) >= 3 => Search(rest, Crlf) = 2
  BY <1>8, <1>9
<1> QED  BY <1>8, <1>9, <1>10, Zenon DEF n

--------------------------------------------------------------------------------
(* Where the reading is: how many bytes of the message were taken away.    *)
Sent == Message(sent, framing, cuts)

InData(i, pos) ==
    /\ chunkSize > 0 /\ ~removeCrlf /\ i < Len(cuts) /\ cuts[i] <= Len(response)
    /\ Len(response) + chunkSize = cuts[i + 1]
    /\ pos = 8 + ChunkStart(cuts, i) + (Len(response) - cuts[i])
AtLineEnd(i, pos) ==
    /\ chunkSize = 0 /\ removeCrlf /\ i > 1 /\ Len(response) = cuts[i]
    /\ pos = 3 + ChunkStart(cuts, i)
AtSize(i, pos) ==
    /\ chunkSize = 0 /\ ~removeCrlf /\ Len(response) = cuts[i]
    /\ pos = 5 + ChunkStart(cuts, i)

Place(pos) ==
    \/ ~statusRead /\ pos = 0 /\ response = <<>> /\ chunkSize = 0 /\ ~removeCrlf
    \/ statusRead /\ framing # "chunked" /\ pos = 5 + Len(response)
    \/ /\ statusRead /\ framing = "chunked"
       /\ \E i \in 1..Len(cuts) : InData(i, pos) \/ AtLineEnd(i, pos) \/ AtSize(i, pos)

(* The bytes without which the reading does not go on.                     *)
Wanted == IF ~statusRead \/ framing # "chunked" \/ chunkSize > 0 THEN 1
          ELSE IF removeCrlf THEN 2 ELSE 3

Begins(text, body) == Len(text) <= Len(body) /\ \A p \in 1..Len(text) : text[p] = body[p]
Same(text, n, body, o) == \A p \in 1..n : text[p] = body[o + p]

ReadInOrder == Begins(response, sent)

Reading ==
    hrPc \in {"receive", "parse", "body"} =>
        \E pos \in Nat : Place(pos) /\ Unread(Sent, pos, responseData, wire, connection)

Waiting ==
    hrPc = "receive" => /\ Len(responseData) < Wanted
                        /\ statusRead /\ framing = "length" => Len(response) < Len(sent)

HrInv ==
    /\ HrTypeOK /\ ReadInOrder /\ Reading /\ Waiting
    /\ hrPc # "threw"
    /\ (hrPc = "parse" => ~statusRead) /\ (hrPc = "body" => statusRead)
    /\ (hrPc = "done" /\ statusRead /\ connection # "cut") => response = sent

LEMMA SentBytes ==
    ASSUME HrTypeOK
    PROVE  /\ sent \in Seq(Nat) /\ Sent \in Seq(Nat) /\ Len(Sent) \in Nat /\ Len(Sent) >= 5
           /\ Sent[1] # CR /\ \A p \in 1..4 : Sent[1 + p] = HeaderEnd[p]
           /\ framing # "chunked" => /\ Len(Sent) = 5 + Len(sent)
                                     /\ \A p \in 1..Len(sent) : Sent[5 + p] = sent[p]
<1> DEFINE f == Framed(sent, framing, cuts)
<1>1. sent \in Seq(Nat) /\ (framing = "chunked" => cuts \in ChunkCuts(sent))
  BY HttpReaderConstants DEF HrTypeOK
<1>2. framing # "chunked" => f = sent
  BY DEF Framed
<1>3. f \in Seq(Nat)
  <2>1. CASE framing = "chunked"
    BY <1>1, <2>1, ChunksBytes DEF Framed
  <2>2. CASE framing # "chunked"
    BY <1>1, <1>2, <2>2
  <2> QED  BY <2>1, <2>2
<1> HIDE DEF f
<1>4. f = Framed(sent, framing, cuts) /\ Sent = Message(sent, framing, cuts)
  BY DEF f, Sent
<1>5. Sent \in Seq(Nat) /\ Len(Sent) = 5 + Len(f)
  BY ONLY <1>3, <1>4, MessageLen
<1>6. Sent[1] # CR /\ \A p \in 1..4 : Sent[1 + p] = HeaderEnd[p]
  <2>1. Headed(Sent)
    BY ONLY <1>3, <1>4, MessageHeaded
  <2> QED  BY ONLY <2>1 DEF Headed
<1>7. \A p \in 1..Len(f) : Sent[5 + p] = f[p]
  BY ONLY <1>3, <1>4, MessageBody
<1>8. Len(Sent) \in Nat /\ Len(Sent) >= 5
  BY <1>3, <1>5, LenProperties
<1> QED  BY <1>1, <1>2, <1>5, <1>6, <1>7, <1>8

(* The place is in front of what is waited for, unless it is the end of    *)
(* the connection.                                                         *)
LEMMA PlaceFits ==
    ASSUME HrTypeOK, NEW pos \in Nat, Place(pos),
           statusRead => framing # "close",
           statusRead /\ framing = "length" => Len(response) < Len(sent)
    PROVE  pos + Wanted <= Len(Sent)
<1>1. /\ sent \in Seq(Nat) /\ Len(Sent) \in Nat /\ Len(Sent) >= 5
      /\ framing # "chunked" => Len(Sent) = 5 + Len(sent)
  BY SentBytes
<1>2. Len(response) \in Nat /\ Len(sent) \in Nat
  BY <1>1, LenProperties DEF HrTypeOK
<1>3. CASE ~statusRead
  BY <1>1, <1>3 DEF Place, Wanted
<1>4. CASE statusRead /\ framing # "chunked"
  <2>1. Len(response) < Len(sent) /\ pos = 5 + Len(response) /\ Wanted = 1
    BY <1>4 DEF HrTypeOK, Framings, Place, Wanted
  <2> QED  BY <1>1, <1>2, <1>4, <2>1
<1>5. CASE statusRead /\ framing = "chunked"
  <2>1. cuts \in ChunkCuts(sent) /\ chunkSize \in Nat /\ removeCrlf \in BOOLEAN
    BY <1>5 DEF HrTypeOK
  <2>2. PICK i \in 1..Len(cuts) : InData(i, pos) \/ AtLineEnd(i, pos) \/ AtSize(i, pos)
    BY <1>5 DEF Place
  <2> DEFINE n == ChunkLen(cuts, i)
             x == cuts[i]
             k == Len(response)
             l == Len(Sent)
             b == ChunkStart(cuts, i)
             s == 5 + b
  <2>3. b \in Nat /\ x \in Nat
    BY <1>1, <2>1, StartsGrow, CutsAre
  <2>4. s \in Nat
    BY <2>3
  <2>5. n \in Nat /\ s + n + 5 <= l
    <3>1. Message(sent, "chunked", cuts) = Sent
      BY <1>5 DEF Sent
    <3>2. ChunkLen(cuts, i) \in Nat /\ s + ChunkLen(cuts, i) + 5 <= Len(Sent)
      BY <1>1, <2>1, <2>4, <3>1, SizeLine DEF HoldsChunk
    <3> QED  BY <3>2
  <2>6. k \in Nat /\ l \in Nat
    BY <1>1, <1>2
  <2>7. CASE InData(i, pos)
    <3>1. pos = 8 + b + (k - x) /\ x <= k /\ k + chunkSize = cuts[i + 1] /\ chunkSize > 0
          /\ n = cuts[i + 1] - x /\ Wanted = 1
      BY <1>5, <2>7 DEF InData, ChunkLen, Wanted
    <3> DEFINE y == cuts[i + 1]
    <3>2. pos = 8 + b + (k - x) /\ x <= k /\ k + chunkSize = y /\ n = y - x /\ chunkSize > 0
      BY <3>1
    <3> HIDE DEF n, x, k, l, b, y
    <3>3. chunkSize \in Nat /\ y \in Nat
      BY <2>1, <2>6, <3>2
    <3>4. pos + 1 <= l
      BY ONLY <2>3, <2>5, <2>6, <3>2, <3>3, pos \in Nat
    <3> QED  BY <3>1, <3>4 DEF l
  <2>8. CASE AtLineEnd(i, pos)
    <3>1. pos = 3 + b /\ Wanted = 2
      BY <1>5, <2>8 DEF AtLineEnd, Wanted
    <3> HIDE DEF n, x, k, l, b
    <3>2. pos + 2 <= l
      BY <2>3, <2>5, <2>6, <3>1
    <3> QED  BY <3>1, <3>2 DEF l
  <2>9. CASE AtSize(i, pos)
    <3>1. pos = 5 + b /\ Wanted = 3
      BY <1>5, <2>9 DEF AtSize, Wanted
    <3> HIDE DEF n, x, k, l, b
    <3>2. pos + 3 <= l
      BY <2>3, <2>5, <2>6, <3>1
    <3> QED  BY <3>1, <3>2 DEF l
  <2> QED  BY <2>2, <2>7, <2>8, <2>9
<1> QED  BY <1>3, <1>4, <1>5 DEF HrTypeOK

(* Who waits when nothing is coming and nothing was cut off, waits for the *)
(* end of the connection, and has read the whole body.                     *)
LEMMA AllRead ==
    ASSUME HrInv, hrPc = "receive", wire = <<>>, connection # "cut"
    PROVE  framing = "close" /\ (statusRead => response = sent)
<1>1. /\ HrTypeOK /\ ReadInOrder
      /\ Len(responseData) < Wanted
      /\ statusRead /\ framing = "length" => Len(response) < Len(sent)
  BY DEF HrInv, Waiting
<1>2. PICK pos \in Nat : Place(pos) /\ Unread(Sent, pos, responseData, wire, connection)
  BY DEF HrInv, Reading
<1>3. /\ sent \in Seq(Nat) /\ Len(Sent) \in Nat
      /\ framing # "chunked" => Len(Sent) = 5 + Len(sent)
  BY <1>1, SentBytes
<1>4. pos + Len(responseData) = Len(Sent)
  <2>1. pos + Len(responseData) + Len(wire) = Len(Sent)
    BY <1>2 DEF Unread
  <2>2. Len(wire) = 0 /\ Len(responseData) \in Nat
    BY <1>1, LenProperties, EmptySeq DEF HrTypeOK
  <2> QED  BY <2>1, <2>2
<1>5. Wanted \in Nat /\ Len(responseData) \in Nat
  BY <1>1, LenProperties DEF Wanted, HrTypeOK
<1>6. ~(pos + Wanted <= Len(Sent))
  BY <1>1, <1>3, <1>4, <1>5
<1>7. statusRead /\ framing = "close"
  BY <1>1, <1>2, <1>6, PlaceFits DEF HrTypeOK
<1>8. Wanted = 1 /\ pos = 5 + Len(response)
  BY <1>2, <1>7 DEF Wanted, Place
<1>9. Len(response) = Len(sent)
  <2>1. Len(response) \in Nat /\ Len(sent) \in Nat
    BY <1>1, <1>3, LenProperties DEF HrTypeOK
  <2> QED  BY <1>1, <1>3, <1>4, <1>5, <1>7, <1>8, <2>1
<1>10. response = sent
  BY <1>1, <1>3, <1>9, SeqEqual DEF HrTypeOK, ReadInOrder, Begins
<1> QED  BY <1>7, <1>10

LEMMA HrInvSuffices == HrInv => ResponseAsSent
<1> SUFFICES ASSUME HrInv PROVE ResponseAsSent
  OBVIOUS
<1>1. HrTypeOK /\ ReadInOrder
  BY DEF HrInv
<1>2. response \in Seq(Nat) /\ sent \in Seq(Nat) /\ Len(response) <= Len(sent)
  BY <1>1, SentBytes DEF HrTypeOK, ReadInOrder, Begins
<1>3. Len(response) \in Nat /\ Len(sent) \in Nat
  BY <1>2, LenProperties
<1>4. IsPrefix(response, sent)
  <2> DEFINE n == Len(response)
             a == Take(response, n)
             b == Take(sent, n)
  <2>1. n \in Nat /\ n <= Len(response) /\ n <= Len(sent)
    BY <1>2, <1>3
  <2> HIDE DEF n
  <2>4. a \in Seq(Nat) /\ Len(a) = n /\ \A p \in 1..n : a[p] = response[p]
    BY <1>2, <2>1, TakeAndDrop
  <2>5. b \in Seq(Nat) /\ Len(b) = n /\ \A p \in 1..n : b[p] = sent[p]
    BY <1>2, <2>1, TakeAndDrop
  <2>2. \A p \in 1..n : response[p] = sent[p]
    BY <1>1 DEF ReadInOrder, Begins, n
  <2> HIDE DEF a, b
  <2>3. a = b
    BY <2>2, <2>4, <2>5, SeqEqual
  <2> QED  BY <1>2, <2>3 DEF IsPrefix, Take, a, b, n
<1>5. BodyAsSent
  BY <1>4 DEF HrInv, BodyAsSent
<1>6. NoWaitAfterEnd
  BY AllRead DEF NoWaitAfterEnd
<1> QED  BY <1>5, <1>6 DEF ResponseAsSent

LEMMA HrInvInitially == HrInit => HrInv
<1> SUFFICES ASSUME HrInit PROVE HrInv
  OBVIOUS
<1>1. /\ framing \in Framings /\ sent \in Bodies /\ connection = "open" /\ hrPc = "receive"
      /\ responseData = <<>> /\ response = <<>> /\ statusRead = FALSE
      /\ chunkSize = 0 /\ removeCrlf = FALSE /\ wire = Sent
      /\ framing = "chunked" => cuts \in ChunkCuts(sent)
  BY DEF HrInit, Sent, Message
<1>2. <<>> \in Seq(Nat) /\ Len(<<>>) = 0
  BY EmptySeq
<1>3. sent \in Seq(Nat) /\ Len(sent) \in Nat
  BY <1>1, HttpReaderConstants, LenProperties
<1>4. Sent \in Seq(Nat) /\ Len(Sent) \in Nat
  <2> DEFINE f == Framed(sent, framing, cuts)
  <2>1. f \in Seq(Nat)
    <3>1. CASE framing = "chunked"
      BY <1>1, <1>3, <3>1, ChunksBytes DEF Framed
    <3>2. CASE framing # "chunked"
      BY <1>3, <3>2 DEF Framed
    <3> QED  BY <3>1, <3>2
  <2> HIDE DEF f
  <2>2. f = Framed(sent, framing, cuts) /\ Sent = Message(sent, framing, cuts)
    BY DEF f, Sent
  <2>3. Sent \in Seq(Nat)
    BY ONLY <2>1, <2>2, MessageLen
  <2> QED  BY <2>3, LenProperties
<1>5. HrTypeOK
  BY <1>1, <1>2, <1>4 DEF HrTypeOK
<1>6. ReadInOrder
  BY <1>1, <1>2, <1>3 DEF ReadInOrder, Begins
<1>7. Unread(Sent, 0, responseData, wire, connection)
  <2>1. \A p \in 1..Len(Sent) : 0 + 0 + p = p
    OBVIOUS
  <2>2. 0 + Len(<<>>) + Len(Sent) = Len(Sent) /\ \A p \in 1..Len(<<>>) : FALSE
    BY <1>2, <1>4
  <2> QED  BY <1>1, <1>2, <1>4, <2>1, <2>2 DEF Unread
<1>8. Reading
  BY <1>1, <1>7 DEF Reading, Place
<1>9. Waiting
  BY <1>1, <1>2 DEF Waiting, Wanted
<1> QED  BY <1>1, <1>5, <1>6, <1>8, <1>9 DEF HrInv

(* A step of the connection alone leaves the place where it is.            *)
LEMMA PlaceStill ==
    ASSUME UNCHANGED <<serverVars, response, statusRead, chunkVars>>
    PROVE  /\ Sent' = Sent /\ Wanted' = Wanted /\ (ReadInOrder => ReadInOrder')
           /\ \A pos \in Nat : Place(pos) => Place(pos)'
<1>1. /\ framing' = framing /\ sent' = sent /\ cuts' = cuts /\ response' = response
      /\ statusRead' = statusRead /\ chunkSize' = chunkSize /\ removeCrlf' = removeCrlf
  BY DEF serverVars, chunkVars
<1>2. Sent' = Sent /\ Wanted' = Wanted /\ (ReadInOrder => ReadInOrder')
  BY <1>1 DEF Sent, Wanted, ReadInOrder, Begins
<1>3. ASSUME NEW pos \in Nat, Place(pos) PROVE Place(pos)'
  BY <1>1, <1>3 DEF Place, InData, AtLineEnd, AtSize
<1> QED  BY <1>2, <1>3

LEMMA ClosingKeeps == HrInv /\ CloseConnection => HrInv'
<1> SUFFICES ASSUME HrInv, CloseConnection PROVE HrInv'
  OBVIOUS
<1>1. /\ connection = "open" /\ connection' = IF wire = <<>> THEN "closed" ELSE "cut"
      /\ wire' = <<>> /\ hrPc' = hrPc /\ responseData' = responseData /\ response' = response
      /\ statusRead' = statusRead /\ sent' = sent
      /\ UNCHANGED <<serverVars, response, statusRead, chunkVars>>
  BY DEF CloseConnection, serverVars
<1>2. HrTypeOK /\ ReadInOrder
  BY DEF HrInv
<1>3. /\ Sent' = Sent /\ Wanted' = Wanted /\ ReadInOrder'
      /\ \A pos \in Nat : Place(pos) => Place(pos)'
  BY <1>1, <1>2, PlaceStill
<1>4. HrTypeOK'
  BY <1>1, <1>2, EmptySeq DEF HrTypeOK, serverVars, chunkVars
<1>5. Reading'
  <2> SUFFICES ASSUME hrPc' \in {"receive", "parse", "body"}
               PROVE  \E pos \in Nat : /\ Place(pos)'
                                       /\ Unread(Sent', pos, responseData', wire', connection')
    BY DEF Reading
  <2>1. PICK pos \in Nat : Place(pos) /\ Unread(Sent, pos, responseData, wire, "open")
    BY <1>1 DEF HrInv, Reading
  <2>2. Sent \in Seq(Nat)
    BY <1>2, SentBytes
  <2>3. Unread(Sent, pos, responseData, <<>>, IF wire = <<>> THEN "closed" ELSE "cut")
    BY <1>2, <2>1, <2>2, UnreadClose DEF HrTypeOK
  <2> QED  BY <1>1, <1>3, <2>1, <2>3
<1>6. Waiting'
  BY <1>1, <1>3 DEF HrInv, Waiting, serverVars
<1> QED  BY <1>1, <1>3, <1>4, <1>5, <1>6 DEF HrInv

LEMMA ReceivingKeeps == HrInv /\ Receive => HrInv'
<1> SUFFICES ASSUME HrInv, Receive PROVE HrInv'
  OBVIOUS
<1>1. /\ hrPc = "receive" /\ connection' = connection /\ response' = response
      /\ statusRead' = statusRead /\ sent' = sent
      /\ UNCHANGED <<serverVars, response, statusRead, chunkVars>>
  BY DEF Receive, serverVars
<1>2. HrTypeOK /\ ReadInOrder
  BY DEF HrInv
<1>3. /\ Sent' = Sent /\ Wanted' = Wanted /\ ReadInOrder'
      /\ \A pos \in Nat : Place(pos) => Place(pos)'
  BY <1>1, <1>2, PlaceStill
<1>4. ASSUME NEW n \in 1..Len(wire),
             responseData' = responseData \o Take(wire, n), wire' = Drop(wire, n),
             hrPc' = IF statusRead THEN "body" ELSE "parse"
      PROVE  HrInv'
  <2>1. wire \in Seq(Nat) /\ responseData \in Seq(Nat) /\ Sent \in Seq(Nat)
    BY <1>2, SentBytes DEF HrTypeOK
  <2>2. n \in Nat /\ n <= Len(wire)
    BY <2>1, LenProperties
  <2>3. Take(wire, n) \in Seq(Nat) /\ wire' \in Seq(Nat)
    BY <1>4, <2>1, <2>2, TakeAndDrop
  <2>4. responseData' \in Seq(Nat)
    BY <1>4, <2>1, <2>3, Appended
  <2>5. HrTypeOK'
    BY <1>1, <1>2, <1>4, <2>3, <2>4 DEF HrTypeOK, serverVars, chunkVars
  <2>6. PICK pos \in Nat : Place(pos) /\ Unread(Sent, pos, responseData, wire, connection)
    BY <1>1 DEF HrInv, Reading
  <2>7. Unread(Sent, pos, responseData \o Take(wire, n), Drop(wire, n), connection)
    BY <2>1, <2>6, UnreadReceive
  <2>8. Reading'
    BY <1>1, <1>3, <1>4, <2>6, <2>7 DEF Reading
  <2>9. Waiting'
    BY <1>4 DEF Waiting
  <2> QED  BY <1>1, <1>3, <1>4, <2>5, <2>8, <2>9 DEF HrInv
<1>5. ASSUME connection # "open", hrPc' = "done", UNCHANGED <<responseData, wire>>
      PROVE  HrInv'
  <2>1. HrTypeOK'
    BY <1>1, <1>2, <1>5 DEF HrTypeOK, serverVars, chunkVars
  <2>2. Reading' /\ Waiting'
    BY <1>5 DEF Reading, Waiting
  <2>3. ASSUME connection # "cut", statusRead PROVE response = sent
    <3>1. PICK pos \in Nat : Unread(Sent, pos, responseData, wire, connection)
      BY <1>1 DEF HrInv, Reading
    <3>2. wire = <<>>
      BY <1>5, <3>1 DEF Unread
    <3> QED  BY <1>1, <2>3, <3>2, AllRead
  <2> QED  BY <1>1, <1>3, <1>5, <2>1, <2>2, <2>3 DEF HrInv
<1> QED  BY <1>4, <1>5 DEF Receive

LEMMA ParsingKeeps == HrInv /\ ParseHeader => HrInv'
<1> SUFFICES ASSUME HrInv, ParseHeader PROVE HrInv'
  OBVIOUS
<1>1. /\ hrPc = "parse" /\ connection' = connection /\ wire' = wire /\ response' = response
      /\ framing' = framing /\ sent' = sent /\ cuts' = cuts
      /\ chunkSize' = chunkSize /\ removeCrlf' = removeCrlf
  BY DEF ParseHeader, serverVars, chunkVars
<1>2. HrTypeOK /\ ReadInOrder /\ ~statusRead
  BY <1>1 DEF HrInv
<1>3. Sent' = Sent /\ ReadInOrder'
  BY <1>1, <1>2 DEF Sent, ReadInOrder, Begins
<1>4. CASE Search(responseData, HeaderEnd) = 0
  <2>1. hrPc' = "done" /\ responseData' = responseData /\ statusRead' = statusRead
    BY <1>4 DEF ParseHeader
  <2>2. HrTypeOK'
    BY <1>1, <1>2, <2>1 DEF HrTypeOK
  <2>3. Reading' /\ Waiting'
    BY <2>1 DEF Reading, Waiting
  <2> QED  BY <1>2, <1>3, <2>1, <2>2, <2>3 DEF HrInv
<1>5. CASE Search(responseData, HeaderEnd) # 0
  <2>1. /\ responseData' = Drop(responseData, Search(responseData, HeaderEnd) + 3)
        /\ statusRead' = TRUE /\ hrPc' = "body"
    BY <1>5 DEF ParseHeader
  <2>2. PICK pos \in Nat : Place(pos) /\ Unread(Sent, pos, responseData, wire, connection)
    BY <1>1 DEF HrInv, Reading
  <2>3. pos = 0 /\ response = <<>> /\ chunkSize = 0 /\ ~removeCrlf
    BY <1>2, <2>2 DEF Place
  <2>4. /\ Sent \in Seq(Nat) /\ Sent[1] # CR /\ sent \in Seq(Nat)
        /\ \A p \in 1..4 : Sent[1 + p] = HeaderEnd[p]
    BY <1>2, SentBytes
  <2>5. responseData \in Seq(Nat) /\ wire \in Seq(Nat) /\ Len(responseData) \in Nat
    BY <1>2, LenProperties DEF HrTypeOK
  <2>6. \A p \in 1..Len(responseData) : responseData[p] = Sent[p]
    <3>1. \A p \in 1..Len(responseData) : responseData[p] = Sent[0 + p]
      BY <2>2, <2>3 DEF Unread
    <3>2. \A p \in 1..Len(responseData) : 0 + p = p
      OBVIOUS
    <3> QED  BY <3>1, <3>2
  <2>7. Len(responseData) > 0 => responseData[1] # HeaderEnd[1]
    <3>1. Len(responseData) > 0 => 1 \in 1..Len(responseData)
      BY <2>5
    <3> QED  BY <2>4, <2>6, <3>1, LineEnds
  <2>8. /\ Len(responseData) < 5 => Search(responseData, HeaderEnd) = 0
        /\ (Len(responseData) >= 5 /\ \A p \in 1..4 : responseData[1 + p] = HeaderEnd[p])
              => Search(responseData, HeaderEnd) = 2
    <3>1. /\ HeaderEnd \in Seq(Nat) /\ Len(HeaderEnd) > 0 /\ Len(HeaderEnd) = 4
          /\ Len(HeaderEnd) + 1 = 5
      BY LineEnds
    <3>2. /\ Len(responseData) < Len(HeaderEnd) + 1 => Search(responseData, HeaderEnd) = 0
          /\ (/\ Len(responseData) >= Len(HeaderEnd) + 1
              /\ \A p \in 1..Len(HeaderEnd) : responseData[1 + p] = HeaderEnd[p])
                => Search(responseData, HeaderEnd) = 2
      BY <2>5, <2>7, <3>1, SearchSecond
    <3> QED  BY ONLY <3>1, <3>2
  <2>9. Len(responseData) >= 5
    BY <1>5, <2>5, <2>8
  <2>10. \A p \in 1..4 : responseData[1 + p] = HeaderEnd[p]
    <3>1. \A p \in 1..4 : 1 + p \in 1..Len(responseData)
      BY <2>5, <2>9
    <3> QED  BY <2>4, <2>6, <3>1
  <2>11. responseData' = Drop(responseData, 5)
    BY <2>1, <2>8, <2>9, <2>10
  <2>12. responseData' \in Seq(Nat)
    BY <2>5, <2>9, <2>11, TakeAndDrop
  <2>13. Unread(Sent, 5, responseData', wire, connection)
    <3>1. Unread(Sent, 0 + 5, Drop(responseData, 5), wire, connection)
      BY <2>2, <2>3, <2>4, <2>5, <2>9, UnreadDrop
    <3> QED  BY <2>11, <3>1
  <2>14. Place(5)'
    <3>1. Len(response) = 0
      BY <2>3, EmptySeq
    <3>2. CASE framing # "chunked"
      BY <1>1, <2>1, <3>1, <3>2 DEF Place
    <3>3. CASE framing = "chunked"
      <4>1. cuts \in ChunkCuts(sent)
        BY <1>2, <3>3 DEF HrTypeOK
      <4>2. 1 \in 1..Len(cuts) /\ cuts[1] = 0 /\ ChunkStart(cuts, 1) = 0
        BY <2>4, <4>1, CutsAre, StartsGrow
      <4>3. AtSize(1, 5)'
        BY <1>1, <2>3, <3>1, <4>2 DEF AtSize
      <4> QED  BY <1>1, <2>1, <3>3, <4>2, <4>3 DEF Place
    <3> QED  BY <3>2, <3>3
  <2>15. HrTypeOK'
    BY <1>1, <1>2, <2>1, <2>12 DEF HrTypeOK
  <2>16. Reading' /\ Waiting'
    BY <1>1, <1>3, <2>1, <2>13, <2>14 DEF Reading, Waiting
  <2> QED  BY <1>3, <2>1, <2>15, <2>16 DEF HrInv
<1> QED  BY <1>4, <1>5

LEMMA TakeAll ==
    ASSUME NEW s \in Seq(Nat)
    PROVE  Take(s, Len(s)) = s /\ Drop(s, Len(s)) = <<>>
<1> DEFINE n == Len(s)
           t == Take(s, n)
           d == Drop(s, n)
<1>1. n \in Nat /\ n <= Len(s) /\ n - n = 0
  BY LenProperties
<1> HIDE DEF n
<1>2. t \in Seq(Nat) /\ Len(t) = n /\ \A p \in 1..n : t[p] = s[p]
  BY <1>1, TakeAndDrop
<1>3. d \in Seq(Nat) /\ Len(d) = Len(s) - n
  BY <1>1, TakeAndDrop
<1> HIDE DEF t, d
<1>4. t = s
  BY <1>2, SeqEqual DEF n
<1>5. d = <<>>
  BY <1>1, <1>3, EmptySeq DEF n
<1> QED  BY <1>4, <1>5 DEF t, d, n

(* Bytes are added to what was read of a body.                             *)
LEMMA ReadMore ==
    ASSUME NEW body \in Seq(Nat), NEW old \in Seq(Nat), NEW data \in Seq(Nat),
           NEW n \in Nat, n <= Len(data), Len(old) + n <= Len(body),
           Begins(old, body), Same(data, n, body, Len(old)),
           NEW new, new = old \o Take(data, n)
    PROVE  new \in Seq(Nat) /\ Begins(new, body)
<1> DEFINE k == Len(old)
           t == Take(data, n)
<1>1. t \in Seq(Nat) /\ Len(t) = n /\ \A p \in 1..n : t[p] = data[p]
  BY TakeAndDrop
<1>2. /\ new \in Seq(Nat) /\ k \in Nat /\ Len(new) = k + Len(t)
      /\ \A p \in 1..k : new[p] = old[p]
      /\ \A p \in 1..Len(t) : new[k + p] = t[p]
  <2>1. new = old \o t
    BY DEF t
  <2> HIDE DEF t
  <2>2. /\ old \o t \in Seq(Nat) /\ k \in Nat /\ Len(old \o t) = k + Len(t)
        /\ \A p \in 1..k : (old \o t)[p] = old[p]
        /\ \A p \in 1..Len(t) : (old \o t)[k + p] = t[p]
    BY <1>1, Appended
  <2> QED  BY ONLY <2>1, <2>2
<1>3. \A p \in 1..n : data[p] = body[k + p]
  BY DEF Same
<1>4. \A p \in 1..k : old[p] = body[p]
  BY DEF Begins
<1> HIDE DEF k
<1>5. ASSUME NEW p \in 1..Len(new) PROVE new[p] = body[p]
  <2>1. Len(new) = k + n
    BY <1>1, <1>2
  <2>2. CASE p <= k
    <3>1. p \in 1..k
      BY <1>2, <2>1, <2>2
    <3> QED  BY <1>2, <1>4, <3>1
  <2>3. CASE ~(p <= k)
    <3> DEFINE q == p - k
    <3>1. q \in 1..n /\ k + q = p
      BY <1>2, <2>1, <2>3
    <3> HIDE DEF q
    <3>2. q \in 1..Len(t)
      BY <1>1, <3>1
    <3>3. new[k + q] = t[q] /\ t[q] = data[q] /\ data[q] = body[k + q]
      BY <1>1, <1>2, <1>3, <3>1, <3>2
    <3> QED  BY ONLY <3>1, <3>3
  <2> QED  BY <2>2, <2>3
<1> QED  BY <1>1, <1>2, <1>5 DEF k, Begins

LEMMA PlainKeeps == HrInv /\ PlainBody => HrInv'
<1> SUFFICES ASSUME HrInv, PlainBody PROVE HrInv'
  OBVIOUS
<1>1. /\ hrPc = "body" /\ framing # "chunked" /\ connection' = connection /\ wire' = wire
      /\ framing' = framing /\ sent' = sent /\ cuts' = cuts /\ statusRead' = statusRead
      /\ chunkSize' = chunkSize /\ removeCrlf' = removeCrlf
      /\ response' = response \o responseData /\ responseData' = <<>>
      /\ hrPc' = IF framing = "length" /\ Len(response') >= Len(sent) THEN "done" ELSE "receive"
  BY DEF PlainBody, serverVars, chunkVars
<1>2. HrTypeOK /\ ReadInOrder /\ statusRead
  BY <1>1 DEF HrInv
<1>3. Sent' = Sent
  BY <1>1 DEF Sent
<1>4. /\ Sent \in Seq(Nat) /\ sent \in Seq(Nat) /\ Len(Sent) = 5 + Len(sent) /\ Len(sent) \in Nat
      /\ \A p \in 1..Len(sent) : Sent[5 + p] = sent[p]
  BY <1>1, <1>2, SentBytes, LenProperties
<1> DEFINE k == Len(response)
           n == Len(responseData)
           l == Len(sent)
<1>5. /\ response \in Seq(Nat) /\ responseData \in Seq(Nat) /\ wire \in Seq(Nat)
      /\ k \in Nat /\ n \in Nat /\ Len(wire) \in Nat /\ l \in Nat
  BY <1>2, <1>4, LenProperties DEF HrTypeOK
<1>6. PICK pos \in Nat : Place(pos) /\ Unread(Sent, pos, responseData, wire, connection)
  BY <1>1 DEF HrInv, Reading
<1>7. pos = 5 + k
  BY <1>1, <1>2, <1>6 DEF Place
<1>8. /\ pos + n + Len(wire) <= 5 + l
      /\ \A p \in 1..n : responseData[p] = Sent[pos + p]
  BY <1>4, <1>6 DEF Unread
<1>9. k + n <= l
  <2> HIDE DEF k, n, l
  <2> QED  BY <1>5, <1>7, <1>8
<1>10. ASSUME NEW p \in 1..n PROVE responseData[p] = sent[k + p]
  <2> HIDE DEF k, n, l
  <2>1. k + p \in 1..l /\ pos + p = 5 + (k + p)
    BY <1>5, <1>7, <1>9
  <2> QED  BY <1>4, <1>8, <2>1 DEF l
<1>11. Take(responseData, n) = responseData
  BY <1>5, TakeAll
<1>12. response' \in Seq(Nat) /\ Len(response') = k + n /\ Begins(response', sent)
  <2>1. response' = response \o Take(responseData, n)
    BY ONLY <1>1, <1>11
  <2>2. n \in Nat /\ n <= Len(responseData) /\ Len(response) + n <= Len(sent)
    BY <1>5, <1>9
  <2>3. Same(responseData, n, sent, Len(response)) /\ Begins(response, sent)
    BY <1>2, <1>10 DEF Same, ReadInOrder
  <2> HIDE DEF n
  <2>4. sent \in Seq(Nat) /\ response \in Seq(Nat) /\ responseData \in Seq(Nat)
    BY <1>4, <1>5
  <2>5. response' \in Seq(Nat) /\ Begins(response', sent)
    BY ONLY <2>1, <2>2, <2>3, <2>4, ReadMore
  <2>6. Len(response') = k + n
    BY <1>1, <2>4, Appended DEF n
  <2> QED  BY ONLY <2>5, <2>6
<1>13. ReadInOrder'
  BY <1>1, <1>12 DEF ReadInOrder
<1>14. HrTypeOK'
  BY <1>1, <1>2, <1>12, EmptySeq DEF HrTypeOK
<1>15. PICK q \in Nat : q = pos + n /\ q = 5 + (k + n)
  BY <1>5, <1>7
<1>16. Unread(Sent, q, <<>>, wire, connection)
  <2>1. Drop(responseData, n) = <<>>
    BY <1>5, TakeAll
  <2>2. Unread(Sent, pos + n, Drop(responseData, n), wire, connection)
    BY <1>4, <1>5, <1>6, UnreadDrop
  <2> QED  BY <1>15, <2>1, <2>2
<1>17. Place(q)'
  <2>1. q = 5 + Len(response')
    BY ONLY <1>12, <1>15
  <2> QED  BY <1>1, <1>2, <2>1 DEF Place
<1>18. Reading'
  BY <1>1, <1>3, <1>16, <1>17 DEF Reading
<1>19. Waiting'
  <2>1. Len(<<>>) = 0 /\ (hrPc' = "receive" /\ framing = "length" => ~(Len(response') >= Len(sent)))
    BY <1>1, EmptySeq
  <2>2. hrPc' = "receive" /\ framing = "length" => Len(response') < Len(sent)
    BY <1>4, <1>5, <1>12, <2>1
  <2>3. Wanted' = 1
    BY <1>1 DEF Wanted
  <2>4. Len(responseData') < Wanted'
    BY <1>1, <2>1, <2>3
  <2> QED  BY <1>1, <2>2, <2>4 DEF Waiting
<1>20. hrPc' = "done" => response' = sent
  <2> SUFFICES ASSUME hrPc' = "done" PROVE response' = sent
    OBVIOUS
  <2>1. Len(response') = Len(sent)
    <3>1. Len(response') >= Len(sent)
      BY <1>1
    <3> QED  BY <1>5, <1>9, <1>12, <3>1
  <2> QED  BY <1>4, <1>12, <2>1, SeqEqual DEF Begins
<1> QED  BY <1>1, <1>2, <1>13, <1>14, <1>18, <1>19, <1>20 DEF HrInv

LEMMA ChunkDataKeeps == HrInv /\ ChunkData => HrInv'
<1> SUFFICES ASSUME HrInv, ChunkData PROVE HrInv'
  OBVIOUS
<1>1. /\ hrPc = "body" /\ framing = "chunked" /\ chunkSize > 0
      /\ connection' = connection /\ wire' = wire
      /\ framing' = framing /\ sent' = sent /\ cuts' = cuts /\ statusRead' = statusRead
      /\ removeCrlf' = (removeCrlf \/ chunkSize' = 0)
      /\ hrPc' = IF responseData' = <<>> THEN "receive" ELSE "body"
  BY DEF ChunkData, serverVars
<1>2. HrTypeOK /\ ReadInOrder /\ statusRead
  BY <1>1 DEF HrInv
<1>3. Sent' = Sent
  BY <1>1 DEF Sent
<1>4. /\ Sent \in Seq(Nat) /\ sent \in Seq(Nat) /\ cuts \in ChunkCuts(sent)
      /\ response \in Seq(Nat) /\ responseData \in Seq(Nat) /\ wire \in Seq(Nat)
      /\ chunkSize \in Nat /\ removeCrlf \in BOOLEAN
  BY <1>1, <1>2, SentBytes DEF HrTypeOK
<1>5. PICK k \in Nat, l \in Nat, d \in Nat :
        k = Len(response) /\ l = Len(sent) /\ d = Len(responseData)
  BY <1>4, LenProperties
<1>6. PICK n \in Nat : n = IF chunkSize < Len(responseData) THEN chunkSize ELSE Len(responseData)
  BY <1>4, LenProperties
<1>7. n <= d /\ n <= chunkSize /\ (n = d \/ n = chunkSize) /\ n <= Len(responseData)
  BY <1>4, <1>5, <1>6
<1>8. /\ response' = response \o Take(responseData, n)
      /\ responseData' = Drop(responseData, n) /\ chunkSize' = chunkSize - n
  BY <1>6 DEF ChunkData
<1>9. PICK pos \in Nat : Place(pos) /\ Unread(Sent, pos, responseData, wire, connection)
  BY <1>1 DEF HrInv, Reading
<1>10. PICK i \in 1..Len(cuts) : InData(i, pos)
  BY <1>1, <1>2, <1>9 DEF Place, AtLineEnd, AtSize
<1>11. PICK b \in Nat, x \in Nat, y \in Nat, len \in Nat :
         /\ b = ChunkStart(cuts, i) /\ x = cuts[i] /\ y = cuts[i + 1] /\ len = y - x
         /\ i \in 1..Len(cuts) - 1 /\ i + 1 \in 1..Len(cuts) /\ y <= l
         /\ ChunkStart(cuts, i + 1) = b + len + 5
  <2>1. i < Len(cuts)
    BY <1>10 DEF InData
  <2>2. /\ Len(cuts) \in Nat
        /\ \A j \in 1..Len(cuts) : cuts[j] \in Nat /\ cuts[j] <= Len(sent)
    BY <1>4, CutsAre
  <2>3. i \in 1..Len(cuts) - 1 /\ i \in 1..Len(cuts)
    BY <2>1, <2>2
  <2>4. /\ ChunkStart(cuts, i) \in Nat /\ i + 1 \in 1..Len(cuts) /\ cuts[i + 1] - cuts[i] \in Nat
        /\ ChunkStart(cuts, i + 1) = ChunkStart(cuts, i) + (cuts[i + 1] - cuts[i]) + 5
    BY <1>4, <2>3, StartsGrow
  <2>5. cuts[i] \in Nat /\ cuts[i + 1] \in Nat /\ cuts[i + 1] <= l
    BY <1>5, <2>2, <2>3, <2>4
  <2> QED  BY ONLY <2>3, <2>4, <2>5
<1>12. /\ ~removeCrlf /\ x <= k /\ k + chunkSize = y /\ pos = 8 + b + (k - x)
  BY <1>5, <1>10, <1>11 DEF InData
<1>13. len = ChunkLen(cuts, i)
  BY <1>10, <1>11 DEF ChunkLen, InData
<1>14. \A o \in 1..len : Sent[5 + b + 3 + o] = sent[x + o]
  <2>1. PICK s \in Nat : s = 5 + b
    OBVIOUS
  <2>2. Sent = Message(sent, "chunked", cuts)
    BY <1>1 DEF Sent
  <2>3. s = 5 + ChunkStart(cuts, i)
    BY <1>11, <2>1
  <2>4. \A o \in 1..ChunkLen(cuts, i) : Sent[s + 3 + o] = sent[cuts[i] + o]
    <3>1. HoldsChunk(Sent, s, ChunkLen(cuts, i), sent, cuts[i])
      BY <1>4, <2>2, <2>3, SizeLine
    <3> QED  BY <3>1 DEF HoldsChunk
  <2> QED  BY ONLY <1>11, <1>13, <2>1, <2>4
<1>15. PICK e \in Nat : e = chunkSize
  BY <1>4
<1>16. /\ n <= d /\ n <= e /\ (n = d \/ n = e) /\ x <= k /\ k + e = y /\ y <= l
       /\ len = y - x /\ pos = 8 + b + (k - x)
  BY <1>7, <1>11, <1>12, <1>15
<1>17. k + n <= l /\ \A p \in 1..n : /\ (k - x) + p \in 1..len /\ x + ((k - x) + p) = k + p
                                     /\ pos + p = 5 + b + 3 + ((k - x) + p) /\ p \in 1..d
  BY ONLY <1>16, k \in Nat, l \in Nat, d \in Nat, n \in Nat, pos \in Nat, b \in Nat,
          x \in Nat, y \in Nat, len \in Nat, e \in Nat
<1>18. Same(responseData, n, sent, k)
  <2> SUFFICES ASSUME NEW p \in 1..n PROVE responseData[p] = sent[k + p]
    BY DEF Same
  <2>1. PICK o \in 1..len : x + o = k + p /\ pos + p = 5 + b + 3 + o /\ p \in 1..d
    BY ONLY <1>17, p \in 1..n
  <2>2. responseData[p] = Sent[pos + p]
    BY <1>5, <1>9, <2>1 DEF Unread
  <2> QED  BY ONLY <1>14, <2>1, <2>2
<1>19. response' \in Seq(Nat) /\ Begins(response', sent)
  <2>1. Begins(response, sent) /\ Same(responseData, n, sent, Len(response))
    BY <1>2, <1>5, <1>18 DEF ReadInOrder
  <2>2. n \in Nat /\ n <= Len(responseData) /\ Len(response) + n <= Len(sent)
    BY ONLY <1>5, <1>7, <1>17, n \in Nat
  <2> QED  BY ONLY <1>4, <1>8, <2>1, <2>2, ReadMore
<1>20. /\ Take(responseData, n) \in Seq(Nat) /\ Len(Take(responseData, n)) = n
       /\ responseData' \in Seq(Nat) /\ Len(responseData') = d - n
  BY <1>4, <1>5, <1>7, <1>8, TakeAndDrop
<1>21. Len(response') = k + n
  <2>1. Len(response') = Len(response) + Len(Take(responseData, n))
    BY <1>4, <1>8, <1>20, Appended
  <2> QED  BY ONLY <1>5, <1>20, <2>1
<1>22. chunkSize' \in Nat /\ removeCrlf' \in BOOLEAN
  BY <1>1, <1>4, <1>7, <1>8
<1>23. HrTypeOK'
  BY <1>1, <1>2, <1>19, <1>20, <1>22 DEF HrTypeOK
<1>24. ReadInOrder'
  BY <1>1, <1>19 DEF ReadInOrder
<1>25. PICK q \in Nat : q = pos + n
  OBVIOUS
<1>26. Unread(Sent, q, responseData', wire, connection)
  <2>1. Unread(Sent, pos + n, Drop(responseData, n), wire, connection)
    BY <1>4, <1>7, <1>9, UnreadDrop
  <2> QED  BY ONLY <1>8, <1>25, <2>1
<1>27. Place(q)'
  <2>1. CASE chunkSize' > 0
    <3>1. ~removeCrlf'
      <4>1. ~(chunkSize' = 0)
        BY <1>22, <2>1
      <4> QED  BY <1>1, <1>12, <4>1, Zenon
    <3>2. x <= k + n /\ (k + n) + chunkSize' = y /\ q = 8 + b + ((k + n) - x)
      BY <1>8, <1>15, <1>16, <1>25
    <3>3. i < Len(cuts)
      BY <1>10 DEF InData
    <3>4. InData(i, q)'
      BY <1>1, <1>11, <1>21, <2>1, <3>1, <3>2, <3>3 DEF InData, ChunkStart
    <3> QED  BY <1>1, <1>2, <3>4 DEF Place
  <2>2. CASE ~(chunkSize' > 0)
    <3>1. chunkSize' = 0 /\ removeCrlf'
      <4>1. chunkSize' = 0
        BY <1>22, <2>2
      <4> QED  BY <1>1, <4>1, Zenon
    <3>2. n = e
      BY <1>8, <1>15, <3>1
    <3>7. k + n = y /\ q = 3 + (b + len + 5)
      BY <1>16, <1>25, <3>2
    <3>3. PICK j \in 1..Len(cuts) : j = i + 1 /\ j > 1
      BY <1>11
    <3>4. cuts[j] = y /\ ChunkStart(cuts, j) = b + len + 5
      BY ONLY <1>11, <3>3
    <3>5. ChunkStart(cuts, j)' = ChunkStart(cuts, j)
      BY <1>1 DEF ChunkStart
    <3>6. AtLineEnd(j, q)'
      BY <1>1, <1>21, <3>1, <3>3, <3>4, <3>5, <3>7 DEF AtLineEnd
    <3> QED  BY <1>1, <1>2, <3>6 DEF Place
  <2> QED  BY <2>1, <2>2
<1>28. Reading'
  BY <1>1, <1>3, <1>26, <1>27 DEF Reading
<1>29. Waiting'
  <2> SUFFICES ASSUME hrPc' = "receive" PROVE Len(responseData') < Wanted'
    BY <1>1 DEF Waiting
  <2>1. responseData' = <<>>
    BY <1>1
  <2>2. Len(responseData') = 0
    BY <2>1, EmptySeq
  <2>3. Wanted' \in {1, 2, 3}
    BY DEF Wanted
  <2> QED  BY <2>2, <2>3
<1>30. hrPc' \in {"receive", "body"}
  BY <1>1
<1> QED  BY <1>1, <1>2, <1>23, <1>24, <1>28, <1>29, <1>30 DEF HrInv

LEMMA ChunkLineKeeps == HrInv /\ ChunkLine => HrInv'
<1> SUFFICES ASSUME HrInv, ChunkLine PROVE HrInv'
  OBVIOUS
<1>1. /\ hrPc = "body" /\ framing = "chunked" /\ chunkSize = 0
      /\ connection' = connection /\ wire' = wire /\ response' = response
      /\ framing' = framing /\ sent' = sent /\ cuts' = cuts /\ statusRead' = statusRead
  BY DEF ChunkLine, serverVars
<1>2. HrTypeOK /\ ReadInOrder /\ statusRead
  BY <1>1 DEF HrInv
<1>3. Sent' = Sent /\ ReadInOrder'
  BY <1>1, <1>2 DEF Sent, ReadInOrder
<1>4. /\ Sent \in Seq(Nat) /\ sent \in Seq(Nat) /\ cuts \in ChunkCuts(sent)
      /\ response \in Seq(Nat) /\ responseData \in Seq(Nat) /\ wire \in Seq(Nat)
      /\ removeCrlf \in BOOLEAN /\ Len(responseData) \in Nat
  BY <1>1, <1>2, SentBytes, LenProperties DEF HrTypeOK
<1>5. PICK pos \in Nat : Place(pos) /\ Unread(Sent, pos, responseData, wire, connection)
  BY <1>1 DEF HrInv, Reading
<1>6. PICK i \in 1..Len(cuts) : AtLineEnd(i, pos) \/ AtSize(i, pos)
  BY <1>1, <1>2, <1>5 DEF Place, InData
<1>7. PICK s \in Nat : s = 5 + ChunkStart(cuts, i)
  BY <1>4, StartsGrow
<1>8. Len(response) = cuts[i]
  BY <1>6 DEF AtLineEnd, AtSize
<1>9. Sent = Message(sent, "chunked", cuts)
  BY <1>1 DEF Sent
<1>10. CASE removeCrlf /\ Len(responseData) < 2
  <2>1. hrPc' = "receive" /\ UNCHANGED <<responseData, chunkSize, removeCrlf>>
    BY <1>10 DEF ChunkLine, chunkVars
  <2>2. HrTypeOK'
    BY <1>1, <1>2, <2>1 DEF HrTypeOK
  <2>3. Place(pos)'
    BY <1>1, <1>5, <2>1 DEF Place, InData, AtLineEnd, AtSize, ChunkStart
  <2>4. Reading'
    BY <1>1, <1>3, <1>5, <2>1, <2>3 DEF Reading
  <2>5. Waiting'
    BY <1>1, <1>2, <1>10, <2>1 DEF Waiting, Wanted
  <2> QED  BY <1>2, <1>3, <2>1, <2>2, <2>4, <2>5 DEF HrInv
<1>11. ASSUME removeCrlf, ~(Len(responseData) < 2)
       PROVE  pos + 2 = s /\ Take(responseData, 2) = Crlf
  <2>1. AtLineEnd(i, pos)
    BY <1>6, <1>11 DEF AtSize
  <2>2. pos = 3 + ChunkStart(cuts, i) /\ i > 1
    BY <2>1 DEF AtLineEnd
  <2>3. pos + 2 = s
    <3>1. PICK st \in Nat : st = ChunkStart(cuts, i)
      BY <1>4, StartsGrow
    <3> QED  BY ONLY <1>7, <2>2, <3>1, pos \in Nat, s \in Nat, st \in Nat
  <2>4. PICK j \in 1..Len(cuts) - 1 : i = j + 1
    <3>1. Len(cuts) \in Nat
      BY <1>4, CutsAre
    <3>2. i - 1 \in 1..Len(cuts) - 1 /\ i = (i - 1) + 1
      BY <2>2, <3>1
    <3> QED  BY <3>2
  <2>5. PICK b \in Nat, len \in Nat :
          /\ b = ChunkStart(cuts, j) /\ j \in 1..Len(cuts) /\ len = ChunkLen(cuts, j)
          /\ ChunkStart(cuts, i) = b + len + 5
    <3>1. /\ ChunkStart(cuts, j) \in Nat /\ j \in 1..Len(cuts) /\ cuts[j + 1] - cuts[j] \in Nat
          /\ ChunkStart(cuts, j + 1) = ChunkStart(cuts, j) + (cuts[j + 1] - cuts[j]) + 5
      BY <1>4, <2>4, StartsGrow
    <3>2. j < Len(cuts)
      BY <1>4, <2>4, CutsAre
    <3> QED  BY <2>4, <3>1, <3>2 DEF ChunkLen
  <2>6. PICK t \in Nat : t = 5 + b
    OBVIOUS
  <2>7. HoldsChunk(Sent, t, len, sent, cuts[j])
    <3>1. HoldsChunk(Sent, t, ChunkLen(cuts, j), sent, cuts[j])
      BY <1>4, <1>9, <2>5, <2>6, SizeLine
    <3> QED  BY <2>5, <3>1
  <2>8. Sent[t + len + 4] = CR /\ Sent[t + len + 5] = LF
    BY <2>7 DEF HoldsChunk
  <2>9. pos + 1 = t + len + 4 /\ pos + 2 = t + len + 5
    <3>1. pos = 3 + (b + len + 5)
      BY ONLY <2>2, <2>5
    <3> QED  BY ONLY <3>1, <2>6, pos \in Nat, t \in Nat, len \in Nat, b \in Nat
  <2>10. 1 \in 1..Len(responseData) /\ 2 \in 1..Len(responseData)
    BY <1>4, <1>11
  <2>11. responseData[1] = CR /\ responseData[2] = LF
    BY <1>5, <2>8, <2>9, <2>10 DEF Unread
  <2>12. /\ Take(responseData, 2) \in Seq(Nat) /\ Len(Take(responseData, 2)) = 2
         /\ \A p \in 1..2 : Take(responseData, 2)[p] = responseData[p]
    <3>1. 2 \in Nat /\ 2 <= Len(responseData) /\ responseData \in Seq(Nat)
      BY <1>4, <1>11
    <3>2. PICK two \in Nat : two = 2
      OBVIOUS
    <3>3. /\ Take(responseData, two) \in Seq(Nat) /\ Len(Take(responseData, two)) = two
          /\ \A p \in 1..two : Take(responseData, two)[p] = responseData[p]
      BY <3>1, <3>2, TakeAndDrop
    <3> QED  BY <3>2, <3>3
  <2>13. \A p \in 1..2 : p = 1 \/ p = 2
    OBVIOUS
  <2>14. \A p \in 1..2 : Take(responseData, 2)[p] = Crlf[p]
    BY <2>11, <2>12, <2>13, LineEnds
  <2>15. Take(responseData, 2) = Crlf
    BY <2>12, <2>14, LineEnds, SeqEqual
  <2> QED  BY <2>3, <2>15
<1>12. CASE ~(removeCrlf /\ Len(responseData) < 2)
  <2>1. PICK rest : rest = IF removeCrlf THEN Drop(responseData, 2) ELSE responseData
    OBVIOUS
  <2>2. ~(removeCrlf /\ Take(responseData, 2) # Crlf)
    BY <1>11, <1>12
  <2>3. /\ removeCrlf' = FALSE
        /\ IF Search(rest, Crlf) = 0
           THEN hrPc' = "receive" /\ responseData' = rest /\ chunkSize' = chunkSize
           ELSE /\ chunkSize' = LineSize(rest, Search(rest, Crlf))
                /\ responseData' = Drop(rest, Search(rest, Crlf) + 1)
                /\ hrPc' = IF chunkSize' = 0 THEN "done" ELSE "body"
    BY <1>12, <2>1, <2>2 DEF ChunkLine
  <2>4. rest \in Seq(Nat) /\ Unread(Sent, s, rest, wire, connection)
    <3>1. CASE removeCrlf
      <4>1. ~(Len(responseData) < 2)
        BY <1>12, <3>1
      <4>2. 2 <= Len(responseData)
        BY <1>4, <4>1
      <4>3. Unread(Sent, pos + 2, Drop(responseData, 2), wire, connection)
        BY <1>4, <1>5, <4>2, UnreadDrop
      <4>4. Drop(responseData, 2) \in Seq(Nat)
        BY <1>4, <4>2, TakeAndDrop
      <4>5. pos + 2 = s
        BY <1>11, <3>1, <4>1
      <4> QED  BY <2>1, <3>1, <4>3, <4>4, <4>5
    <3>2. CASE ~removeCrlf
      <4>1. pos = s
        BY <1>6, <1>7, <3>2 DEF AtLineEnd, AtSize
      <4> QED  BY <1>4, <1>5, <2>1, <3>2, <4>1
    <3> QED  BY <1>4, <3>1, <3>2
  <2>5. Len(rest) \in Nat
    BY <2>4, LenProperties
  <2>6. CASE Len(rest) < 3
    <3>1. Search(rest, Crlf) = 0
      BY <1>4, <1>7, <1>9, <2>4, <2>6, SizeSeen
    <3>2. hrPc' = "receive" /\ responseData' = rest /\ chunkSize' = 0 /\ ~removeCrlf'
      BY <1>1, <2>3, <3>1
    <3>3. HrTypeOK'
      BY <1>1, <1>2, <2>3, <2>4, <3>2 DEF HrTypeOK
    <3>4. AtSize(i, s)'
      BY <1>1, <1>7, <1>8, <3>2 DEF AtSize, ChunkStart
    <3>5. Place(s)'
      BY <1>1, <1>2, <3>4 DEF Place
    <3>6. Reading'
      BY <1>1, <1>3, <2>4, <3>2, <3>5 DEF Reading
    <3>7. Waiting'
      BY <1>1, <1>2, <2>6, <3>2 DEF Waiting, Wanted
    <3> QED  BY <1>2, <1>3, <3>2, <3>3, <3>6, <3>7 DEF HrInv
  <2>7. CASE ~(Len(rest) < 3)
    <3>1. Len(rest) >= 3
      BY <2>5, <2>7
    <3>2. /\ Search(rest, Crlf) = 2 /\ LineSize(rest, 2) = ChunkLen(cuts, i)
          /\ Drop(rest, 3) \in Seq(Nat)
          /\ Unread(Sent, s + 3, Drop(rest, 3), wire, connection)
      BY <1>4, <1>7, <1>9, <2>4, <3>1, SizeSeen
    <3>3. /\ chunkSize' = ChunkLen(cuts, i) /\ responseData' = Drop(rest, 3) /\ ~removeCrlf'
          /\ hrPc' = IF chunkSize' = 0 THEN "done" ELSE "body"
      BY <2>3, <3>2
    <3>4. ChunkLen(cuts, i) \in Nat
      BY <1>4, <1>7, SizeLine
    <3>5. HrTypeOK'
      BY <1>1, <1>2, <2>3, <3>2, <3>3, <3>4 DEF HrTypeOK
    <3>6. /\ Len(cuts) \in Nat /\ cuts[Len(cuts)] = Len(sent)
          /\ \A a \in 1..Len(cuts) : cuts[a] \in Nat
          /\ \A a, b \in 1..Len(cuts) : a < b => cuts[a] < cuts[b]
      BY <1>4, CutsAre
    <3>7. CASE i < Len(cuts)
      <4>1. PICK x \in Nat, y \in Nat : x = cuts[i] /\ y = cuts[i + 1] /\ x < y
        <5>1. i + 1 \in 1..Len(cuts) /\ i < i + 1
          BY <3>6, <3>7
        <5> QED  BY <3>6, <5>1
      <4>2. chunkSize' = y - x /\ chunkSize' > 0 /\ x + chunkSize' = y
        BY <3>3, <3>7, <4>1 DEF ChunkLen
      <4>3. hrPc' = "body"
        BY <3>3, <4>2
      <4>4. PICK q \in Nat : q = s + 3
        OBVIOUS
      <4>5. q = 8 + ChunkStart(cuts, i) + (x - x)
        <5>1. PICK st \in Nat : st = ChunkStart(cuts, i)
          BY <1>4, StartsGrow
        <5>2. x - x = 0
          BY ONLY x \in Nat
        <5> QED  BY ONLY <1>7, <4>4, <5>1, <5>2, q \in Nat, s \in Nat, st \in Nat
      <4>6. InData(i, q)'
        BY <1>1, <1>8, <3>3, <3>7, <4>1, <4>2, <4>5 DEF InData, ChunkStart
      <4>7. Place(q)'
        BY <1>1, <1>2, <4>6 DEF Place
      <4>8. Unread(Sent, q, responseData', wire, connection)
        BY <3>2, <3>3, <4>4
      <4>9. Reading' /\ Waiting'
        BY <1>1, <1>3, <4>3, <4>7, <4>8 DEF Reading, Waiting
      <4> QED  BY <1>1, <1>2, <1>3, <3>5, <4>3, <4>9 DEF HrInv
    <3>8. CASE ~(i < Len(cuts))
      <4>1. i = Len(cuts) /\ chunkSize' = 0
        BY <3>3, <3>6, <3>8 DEF ChunkLen
      <4>2. hrPc' = "done"
        BY <3>3, <4>1
      <4>3. Reading' /\ Waiting'
        BY <4>2 DEF Reading, Waiting
      <4>4. response = sent
        <5>1. Len(response) = Len(sent)
          BY <1>8, <3>6, <4>1
        <5> QED  BY <1>2, <1>4, <5>1, SeqEqual DEF ReadInOrder, Begins
      <4> QED  BY <1>1, <1>3, <3>5, <4>2, <4>3, <4>4 DEF HrInv
    <3> QED  BY <3>7, <3>8
  <2> QED  BY <2>6, <2>7
<1> QED  BY <1>10, <1>12

LEMMA HrInvIsInductive == HrInv /\ [HrNext]_hrVars => HrInv'
<1> SUFFICES ASSUME HrInv, [HrNext]_hrVars PROVE HrInv'
  OBVIOUS
<1>1. CASE CloseConnection
  BY <1>1, ClosingKeeps
<1>2. CASE Receive
  BY <1>2, ReceivingKeeps
<1>3. CASE ParseHeader
  BY <1>3, ParsingKeeps
<1>4. CASE PlainBody
  BY <1>4, PlainKeeps
<1>5. CASE ChunkData
  BY <1>5, ChunkDataKeeps
<1>6. CASE ChunkLine
  BY <1>6, ChunkLineKeeps
<1>7. CASE UNCHANGED hrVars
  <2>1. /\ UNCHANGED <<serverVars, response, statusRead, chunkVars>>
        /\ framing' = framing /\ sent' = sent /\ cuts' = cuts /\ chunkSize' = chunkSize
        /\ removeCrlf' = removeCrlf /\ wire' = wire /\ connection' = connection
        /\ hrPc' = hrPc /\ responseData' = responseData /\ response' = response
        /\ statusRead' = statusRead
    BY <1>7 DEF hrVars, serverVars, chunkVars
  <2>2. HrTypeOK' /\ ReadInOrder' /\ Sent' = Sent /\ Wanted' = Wanted
    BY <2>1 DEF HrInv, HrTypeOK, ReadInOrder, Sent, Wanted
  <2>3. \A pos \in Nat : Place(pos) => Place(pos)'
    BY <2>1, PlaceStill
  <2>4. Reading'
    BY <2>1, <2>2, <2>3 DEF HrInv, Reading
  <2>5. Waiting'
    BY <2>1, <2>2 DEF HrInv, Waiting
  <2> QED  BY <2>1, <2>2, <2>4, <2>5 DEF HrInv
<1> QED  BY <1>1, <1>2, <1>3, <1>4, <1>5, <1>6, <1>7 DEF HrNext

(* A response is read as it was sent, whatever the server sends, however   *)
(* it frames it and wherever the pieces that arrive begin and end; the     *)
(* reader never refuses it and never waits for bytes beyond its end        *)
(* (Request::send).                                                        *)
THEOREM ResponseAsSentAlways == HrSpec => []ResponseAsSent
<1>1. HrSpec => []HrInv
  BY HrInvInitially, HrInvIsInductive, PTL DEF HrSpec
<1> QED  BY <1>1, HrInvSuffices, PTL
================================================================================
