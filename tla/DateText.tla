-------------------------------- MODULE DateText --------------------------------
(***************************************************************************)
(* Dates as texts.  valid_dotted_date and dotted_date_to_yyyymmdd          *)
(* (src/src/misc_utils.hpp) turn the date of a rate, as the server writes  *)
(* it, into a key of the database; they have timespec_wrapper              *)
(* (src/support/time/windows/timespec_wrapper.hpp) read the date and       *)
(* compare what it makes of it.  Its parser also reads the time stamps     *)
(* that to_iso_8601_str writes, which begin each line of the log.          *)
(*                                                                         *)
(* mktime, localtime and gmtime are external; the zone is a fixed offset.  *)
(* A long double is that of the Windows compilers: 53 bits of significand. *)
(***************************************************************************)
EXTENDS StrUtil

CONSTANTS Dotted,      (* dates as the server may write them               *)
          Instants,    (* times of log lines: sec, and tenths of a ms      *)
          Zones        (* offsets of local time, in seconds                *)

Years == 1970..2037    (* bound: mktime fails before, time is 31 bits here *)

ASSUME DateTextConstants ==
    /\ Zones \subseteq -86399..86399
    /\ \A i \in Instants : i.sec \in Nat /\ i.sub \in 0..9999 /\ i.sub % 10 # 5

--------------------------------------------------------------------------------
(* The calendar and the C library.                                         *)
Leap(y) == y % 4 = 0 /\ (y % 100 # 0 \/ y % 400 = 0)
DaysIn(y, m) == CASE m = 2 -> IF Leap(y) THEN 29 ELSE 28
                  [] m \in {4, 6, 9, 11} -> 30
                  [] OTHER -> 31
IsDate(d, m, y) == y \in Years /\ m \in 1..12 /\ d \in 1..DaysIn(y, m)

(* Days since 1970; months and days out of range count on, as in mktime.   *)
DayNumber(y, m, d) ==
    LET year == y + ((m - 1) \div 12)
        month == ((m - 1) % 12) + 1
        leaps(n) == (n - 1) \div 4 - (n - 1) \div 100 + (n - 1) \div 400
    IN 365 * (year - 1970) + leaps(year) - leaps(1970)
       + MapThenSumSet(LAMBDA k : DaysIn(year, k), 1..month - 1) + d - 1

Mktime(f, zone) == DayNumber(f.y, f.m, f.d) * 86400 + f.h * 3600 + f.mi * 60 + f.s - zone

Localtime(t, zone) ==
    LET days == (t + zone) \div 86400
        secs == (t + zone) % 86400
        y == CHOOSE n \in Years : DayNumber(n, 1, 1) <= days /\ days < DayNumber(n + 1, 1, 1)
        m == CHOOSE n \in 1..12 : DayNumber(y, n, 1) <= days /\ days < DayNumber(y, n + 1, 1)
    IN [y |-> y, m |-> m, d |-> days - DayNumber(y, m, 1) + 1,
        h |-> secs \div 3600, mi |-> (secs % 3600) \div 60, s |-> secs % 60]

Gmtime(t) == Localtime(t, 0)

--------------------------------------------------------------------------------
(* date_gmtoffset compares the times of day only.                          *)
DateGmtoffset(t, zone) ==
    LET l == Localtime(t, zone)
        g == Gmtime(t)
    IN (l.h - g.h) * 3600 + (l.mi - g.mi) * 60

Magnitude(n) == IF n < 0 THEN -n ELSE n

(* to_iso_8601_str(3): three digits of the rounded fraction, also when it  *)
(* was rounded to 1000; the zone, if it is an hour or more.                *)
Fraction(sub) == SubSeq(Padded((sub + 5) \div 10, 3), 1, 3)

ZoneText(offset) ==
    LET n == Magnitude(offset)
    IN IF n < 3600 THEN <<"Z">>
       ELSE <<IF offset < 0 THEN "-" ELSE "+">> \o Padded(n \div 3600, 2) \o <<":">>
            \o Padded((n % 3600) \div 60, 2)

ToIso8601(i, zone) ==
    LET l == Localtime(i.sec, zone)
    IN DigitsOf(l.y) \o <<"-">> \o Padded(l.m, 2) \o <<"-">> \o Padded(l.d, 2) \o <<"T">>
       \o Padded(l.h, 2) \o <<":">> \o Padded(l.mi, 2) \o <<":">> \o Padded(l.s, 2)
       \o <<".">> \o Fraction(i.sub) \o ZoneText(DateGmtoffset(i.sec, zone))

--------------------------------------------------------------------------------
VARIABLES
    dotted, instant, zone,      (* the date or the time that is written    *)
    dtPc,
    asked,                      (* d, m and y of valid_dotted_date         *)
    dateText, cno,              (* the text that is parsed, and how far    *)
    part, buf, brdn,            (* state (a number), buf and brdn          *)
    offsSign, offsGiven,
    value                       (* what is made of it: sec and ns, or key  *)

inputVars == <<dotted, instant, zone>>
scanVars == <<cno, part, buf, brdn, offsSign, offsGiven>>
dtVars == <<inputVars, dtPc, asked, dateText, scanVars, value>>

(* The states of the parser, in the order of its enumeration.              *)
Ye == 0
Mo == 1
Da == 2
Ho == 3
Mi == 4
Se == 5
Sf == 6
Oh == 7
Om == 8
Fi == 9

NoDate == <<>>
Nothing == [sec |-> 0, ns |-> 0, key |-> <<>>]

DtTypeOK ==
    /\ dtPc \in {"convert", "scan", "check", "accepted", "rejected", "read"}
    /\ cno \in 0..Len(dateText) /\ part \in Ye..Fi /\ offsSign \in {1, -1} /\ offsGiven \in BOOLEAN
    /\ brdn \in [Ye..Om -> Nat] /\ \A i \in DOMAIN buf : IsDigit(buf[i])

DtInit ==
    /\ zone \in Zones
    /\ \/ /\ dotted \in Dotted /\ instant = [sec |-> 0, sub |-> 0]
          /\ dtPc = "convert" /\ dateText = <<>>
       \/ /\ dotted = NoDate /\ instant \in Instants
          /\ dtPc = "scan" /\ dateText = ToIso8601(instant, zone)
    /\ asked = [d |-> 0, m |-> 0, y |-> 0]
    /\ cno = 0 /\ part = Ye /\ buf = <<>> /\ brdn = [i \in Ye..Om |-> 0]
    /\ offsSign = 1 /\ offsGiven = FALSE
    /\ value = Nothing

(* valid_dotted_date up to the text that it has parsed: three parts, each  *)
(* of them a number.                                                       *)
DateParts == StrTok(dotted, ".")
Numbers == [i \in DOMAIN DateParts |-> Atoi(DateParts[i])]

Convert ==
    /\ dtPc = "convert"
    /\ IF Len(DateParts) = 3 /\ \A i \in DOMAIN DateParts : Numbers[i].ok
       THEN LET d == Numbers[1].value
                m == Numbers[2].value
                y == Numbers[3].value
            IN /\ asked' = [d |-> d, m |-> m, y |-> y]
               /\ dateText' = Padded(y, 4) \o <<"-">> \o Padded(m, 2) \o <<"-">> \o Padded(d, 2)
               /\ dtPc' = "scan"
       ELSE dtPc' = "rejected" /\ UNCHANGED <<asked, dateText>>
    /\ UNCHANGED <<inputVars, scanVars, value>>

(* One character of parse_iso_8601.  A digit goes to the buffer; two       *)
(* digits of an offset that are followed by a third are a part of their    *)
(* own, and so is what the buffer holds at the end of the text.            *)
Char == dateText[cno + 1]
AtEnd == cno + 1 = Len(dateText)

ScanDigit ==
    LET digits == Append(buf, Char)
        split == part \in {Oh, Om} /\ Len(digits) = 2 /\ ~AtEnd /\ IsDigit(dateText[cno + 2])
        ends == split \/ AtEnd
    IN /\ IsDigit(Char)
       /\ brdn' = IF ends THEN [brdn EXCEPT ![part] = NumberOf(digits)] ELSE brdn
       /\ buf' = IF split THEN <<>> ELSE digits
       /\ part' = IF split THEN part + 1 ELSE part
       /\ offsGiven' = (offsGiven \/ part \in {Oh, Om})
       /\ UNCHANGED offsSign

(* Faulty variant: the end of a part is looked for before its sign is, so  *)
(* that the sign of a zone behind a number is lost.                        *)
ScanOtherUnsigned ==
    LET next == IF buf = <<>> THEN part ELSE part + 1
        zoned == IF next \in Ho..Sf /\ Char \in {"+", "-", "Z"} THEN Oh ELSE next
    IN /\ ~IsDigit(Char)
       /\ brdn' = IF buf = <<>> THEN brdn ELSE [brdn EXCEPT ![part] = NumberOf(buf)]
       /\ buf' = <<>>
       /\ part' = IF zoned = Oh /\ Char = "Z" THEN Fi ELSE zoned
       /\ offsSign' = IF buf = <<>> /\ zoned = Oh /\ Char = "-" THEN -1 ELSE offsSign
       /\ offsGiven' = (offsGiven \/ part' = Fi)

(* Any other character ends the part before it, if there is one.  From the *)
(* hour on, a sign or a Z begins the offset.  (A sign before the year is   *)
(* left out: no text of a year in Years begins with one.)                  *)
ScanOther ==
    LET next == IF buf = <<>> THEN part ELSE part + 1
        zoned == IF next \in Ho..Sf /\ Char \in {"+", "-", "Z"} THEN Oh ELSE next
    IN /\ ~IsDigit(Char)
       /\ brdn' = IF buf = <<>> THEN brdn ELSE [brdn EXCEPT ![part] = NumberOf(buf)]
       /\ buf' = <<>>
       /\ part' = IF zoned = Oh /\ Char = "Z" THEN Fi ELSE zoned
       /\ offsSign' = IF zoned = Oh /\ Char = "-" THEN -1 ELSE offsSign
       /\ offsGiven' = (offsGiven \/ part' = Fi)

Scan ==
    /\ dtPc = "scan" /\ cno < Len(dateText) /\ part < Fi
    /\ cno' = cno + 1
    /\ ScanDigit \/ ScanOther
    /\ UNCHANGED <<inputVars, dtPc, asked, dateText, value>>

(* The fraction is added to the seconds in floating point, so that it is   *)
(* rounded to the ticks that 53 bits leave to a second of that size, from  *)
(* 2^29 on, and then cut off to whole nanoseconds; without one nothing is  *)
(* added.                                                                  *)
TicksPerSecond(sec) == IF sec < 1073741824 THEN 8388608 ELSE 4194304

Ticks(ms, perSecond) ==
    ms * (perSecond \div 1000) + (2 * ms * (perSecond % 1000) + 1000) \div 2000

(* ticks * 10^9 / perSecond, in factors that stay small.                   *)
NanosecondsOf(ticks, perSecond) ==
    LET unit == perSecond \div 512    \* 10^9 = 512 * 1953125
        rest == ticks % unit
    IN (ticks \div unit) * 1953125 + rest * (1953125 \div unit)
       + (rest * (1953125 % unit)) \div unit

(* The rest of parse_iso_8601 and of from_iso_8601: the parts make a local *)
(* time, the offset of the text is taken off and that of the zone put on.  *)
(* (Fractions of another number of digits than three are left out.)        *)
Finish ==
    LET f == [y |-> brdn[Ye], m |-> brdn[Mo], d |-> brdn[Da],
              h |-> brdn[Ho], mi |-> brdn[Mi], s |-> brdn[Se]]
        perSecond == TicksPerSecond(Mktime(f, zone))
        t == Mktime(f, zone) - offsSign * (brdn[Oh] * 3600 + brdn[Om] * 60)
    IN /\ dtPc = "scan" /\ (cno = Len(dateText) \/ part = Fi)
       /\ value' = [Nothing EXCEPT !.sec = IF offsGiven THEN t + DateGmtoffset(t, zone) ELSE t,
                                   !.ns = NanosecondsOf(Ticks(brdn[Sf], perSecond), perSecond)]
       /\ dtPc' = IF dotted = NoDate THEN "read" ELSE "check"
       /\ UNCHANGED <<inputVars, asked, dateText, scanVars>>

(* The date counts if it came back as it was asked for; its key is made of *)
(* what came back.                                                         *)
Check ==
    LET l == Localtime(value.sec, zone)
        same == l.d = asked.d /\ l.m = asked.m /\ l.y = asked.y
    IN /\ dtPc = "check"
       /\ dtPc' = IF same THEN "accepted" ELSE "rejected"
       /\ value' = IF same
                   THEN [value EXCEPT !.key = Padded(l.y, 4) \o Padded(l.m, 2) \o Padded(l.d, 2)]
                   ELSE value
       /\ UNCHANGED <<inputVars, asked, dateText, scanVars>>

DtNext == Convert \/ Scan \/ Finish \/ Check

DtSpec == DtInit /\ [][DtNext]_dtVars

--------------------------------------------------------------------------------
(* Properties.                                                             *)

(* A dotted date gets a key exactly if its three numbers are a date of the *)
(* calendar - although it is the C library's arithmetic that decides - and *)
(* the key is made of those numbers.                                       *)
KeyIsTheDate ==
    LET written == Len(DateParts) = 3 /\ \A i \in 1..3 : Numbers[i].ok
        d == Numbers[1].value
        m == Numbers[2].value
        y == Numbers[3].value
    IN /\ dtPc = "accepted" => /\ written /\ IsDate(d, m, y)
                               /\ value.key = Padded(y, 4) \o Padded(m, 2) \o Padded(d, 2)
       /\ dtPc = "rejected" => ~(written /\ IsDate(d, m, y))

(* A time stamp that the log has written is read as the second it was      *)
(* written at and, to a microsecond, the rounded millisecond, in every     *)
(* zone.  It is not read as that millisecond exactly: 501 ms of a time in  *)
(* 2024 come back as 500999927 ns.  Two kinds are left out: where the      *)
(* offset is computed for a time whose date is not the same locally and in *)
(* UTC it is a day off (date_gmtoffset; the reader computes it for a time  *)
(* that is not yet shifted), and a fraction that is rounded to 1000 loses  *)
(* its last digit.                                                         *)
OneDate(t) == Localtime(t, zone).d = Gmtime(t).d

StampIsTheTime ==
    dtPc = "read" /\ OneDate(instant.sec) /\ OneDate(instant.sec - zone) /\ instant.sub < 9995 =>
      /\ value.sec = instant.sec
      /\ Magnitude(value.ns - ((instant.sub + 5) \div 10) * 1000000) < 1000

(* Both of them: a text is read as the date or the time it says.           *)
ReadAsWritten == KeyIsTheDate /\ StampIsTheTime
================================================================================
