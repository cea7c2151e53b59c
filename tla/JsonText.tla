--------------------------------- MODULE JsonText -------------------------------
(***************************************************************************)
(* The texts of a document on their way through the data file: a string is *)
(* converted to wide characters (from_utf8, src/support/str_util.cpp),     *)
(* escaped and converted back (src/support/json.hpp); the name of a member *)
(* is written as it is.  The document here is one member with a string.    *)
(* It is read with simdjson (external), which is strict, or else with      *)
(* unescape.                                                               *)
(*                                                                         *)
(* Characters are code points, but no halves of pairs, a string is their   *)
(* UTF-8 bytes; wchar_t has 16 bits on Windows.                            *)
(***************************************************************************)
EXTENDS Naturals, Sequences, SequencesExt

CONSTANTS Chars,       (* code points of the texts                         *)
          MaxChars,    (* bound: characters of a text                      *)
          MaxWide      (* bound: wide characters of an endless conversion  *)

CodePoints == {c \in Nat : c < 55296 \/ (c > 57343 /\ c < 1114112)}

ASSUME JsonTextConstants ==
    Chars \subseteq CodePoints /\ MaxChars \in Nat /\ MaxWide > MaxChars

Quote == 34
Backslash == 92
Control == 0..31

(* b f n r t: the characters with a letter of their own, and the letters.  *)
Named == [c \in {8, 9, 10, 12, 13} |-> CASE c = 8 -> 98 [] c = 9 -> 116 [] c = 10 -> 110
                                          [] c = 12 -> 102 [] c = 13 -> 114]
EscapeLetters == {Named[c] : c \in DOMAIN Named}

--------------------------------------------------------------------------------
(* ucs_to_utf8 of a character, and utf8_to_ucs at a place of a string: the *)
(* character and the increment.  A string ends with a zero, for which it   *)
(* returns -1 and an increment of 0.                                       *)
UcsToUtf8(c) ==
    IF c < 128 THEN <<c>>
    ELSE IF c < 2048 THEN <<192 + c \div 64, 128 + (c % 64)>>
    ELSE IF c < 65536 THEN <<224 + c \div 4096, 128 + ((c \div 64) % 64), 128 + (c % 64)>>
    ELSE <<240 + c \div 262144, 128 + ((c \div 4096) % 64), 128 + ((c \div 64) % 64),
           128 + (c % 64)>>

ToUtf8(chars) == FlattenSeq([i \in DOMAIN chars |-> UcsToUtf8(chars[i])])

ByteAt(bytes, i) == IF i <= Len(bytes) THEN bytes[i] ELSE 0
Ucs(c, increment) == [minus |-> FALSE, c |-> c, increment |-> increment]

(* A byte that begins no form stands for itself.                           *)
Utf8ToUcs(bytes, at) ==
    LET b(i) == ByteAt(bytes, at + i)
        four == (b(0) % 8) * 262144 + (b(1) % 64) * 4096 + (b(2) % 64) * 64 + (b(3) % 64)
    IN IF b(0) = 0 THEN [minus |-> TRUE, c |-> 1, increment |-> 0]
       ELSE IF b(0) < 128 THEN Ucs(b(0), 1)
       ELSE IF b(0) \in 192..223 THEN Ucs((b(0) % 32) * 64 + (b(1) % 64), 2)
       ELSE IF b(0) \in 224..239
            THEN Ucs((b(0) % 16) * 4096 + (b(1) % 64) * 64 + (b(2) % 64), 3)
       ELSE IF b(0) \in 240..247 THEN Ucs(four, 4)
       ELSE IF b(0) \in 248..251 THEN Ucs(four * 64 + (b(4) % 64), 5)
       ELSE IF b(0) \in 252..253
            THEN Ucs(((four % 524288) * 64 + (b(4) % 64)) * 64 + (b(5) % 64), 6)
       ELSE Ucs(b(0), 1)

(* A wchar_t of it.                                                        *)
Wide(u) == IF u.minus THEN 65535 ELSE u.c % 65536

(* Faulty variant: backslashes are not escaped.                            *)
EscapedQuote(c) ==
    IF c = Quote THEN <<Backslash, c>>
    ELSE IF c \in DOMAIN Named THEN <<Backslash, Named[c]>>
    ELSE <<c>>

(* wescape.                                                                *)
EscapedChar(c) ==
    IF c \in {Quote, Backslash} THEN <<Backslash, c>>
    ELSE IF c \in DOMAIN Named THEN <<Backslash, Named[c]>>
    ELSE <<c>>

EscapedText(w) == FlattenSeq([i \in DOMAIN w |-> EscapedChar(w[i])])

(* The character that a letter behind a backslash stands for.              *)
Meant(c) == IF c \in EscapeLetters THEN CHOOSE n \in DOMAIN Named : Named[n] = c ELSE c

(* wunescape, after each of the characters.                                *)
UnescapeChar(r, c) ==
    IF r.escp THEN [escp |-> FALSE, res |-> Append(r.res, Meant(c))]
    ELSE IF c = Backslash THEN [r EXCEPT !.escp = TRUE]
    ELSE [r EXCEPT !.res = Append(r.res, c)]

Unescaped(w) ==
    LET after[i \in 0..Len(w)] == IF i = 0 THEN [escp |-> FALSE, res |-> <<>>]
                                            ELSE UnescapeChar(after[i - 1], w[i])
    IN after[Len(w)].res

--------------------------------------------------------------------------------
VARIABLES
    name, content,         (* the member: code points                      *)
    jxPc,
    place, left, wide,     (* from_utf8: utf8, len and its result          *)
    saved,                 (* the bytes of the file                        *)
    unread,                (* those that simdjson still has to read        *)
    loaded                 (* what it has read                             *)

jxVars == <<name, content, jxPc, place, left, wide, saved, unread, loaded>>

Bytes == ToUtf8(content)
TextsUpTo(n) == UNION {[1..k -> Chars] : k \in 0..n}

JxTypeOK ==
    /\ jxPc \in {"convert", "save", "load", "name", "content", "read", "unreadable"}
    /\ left \in 0..4 * MaxChars /\ Len(wide) <= MaxWide /\ \A i \in DOMAIN wide : wide[i] < 65536
    /\ \A i \in DOMAIN saved : saved[i] < 256

JxInit ==
    /\ name \in TextsUpTo(1) /\ content \in TextsUpTo(MaxChars)
    /\ jxPc = "convert" /\ place = 1 /\ left = Len(Bytes) /\ wide = <<>>
    /\ saved = <<>> /\ unread = <<>> /\ loaded = [name |-> <<>>, content |-> <<>>]

(* One round of from_utf8's loop.                                          *)
ConvertChar ==
    LET u == Utf8ToUcs(Bytes, place)
    IN /\ jxPc = "convert"
       /\ IF left > 0 /\ Wide(u) > 0
          THEN /\ Len(wide) < MaxWide
               /\ wide' = Append(wide, Wide(u))
               /\ place' = place + u.increment /\ left' = left - u.increment
               /\ UNCHANGED jxPc
          ELSE jxPc' = "save" /\ UNCHANGED <<place, left, wide>>
       /\ UNCHANGED <<name, content, saved, unread, loaded>>

(* serialize_actual of the document.                                       *)
OpenBrace == 123
CloseBrace == 125
Colon == 58

(* What surrounds the two strings.                                         *)
InFront == <<OpenBrace, Quote>>
Behind(field) == IF field = "name" THEN <<Quote, Colon, Quote>> ELSE <<Quote, CloseBrace>>

Document ==
    InFront \o ToUtf8(name) \o Behind("name")
    \o ToUtf8(EscapedText(wide)) \o Behind("content")

SaveText ==
    /\ jxPc = "save" /\ jxPc' = "load"
    /\ saved' = Document
    /\ UNCHANGED <<name, content, place, left, wide, unread, loaded>>

Without(n) == SubSeq(unread, n + 1, Len(unread))

LoadText ==
    /\ jxPc = "load"
    /\ IF IsPrefix(InFront, saved)
       THEN jxPc' = "name" /\ unread' = SubSeq(saved, 3, Len(saved))
       ELSE jxPc' = "unreadable" /\ UNCHANGED unread
    /\ UNCHANGED <<name, content, place, left, wide, saved, loaded>>

Takes(field, c, n) ==
    /\ loaded' = [loaded EXCEPT ![field] = Append(@, c)] /\ unread' = Without(n)
    /\ UNCHANGED jxPc

Refuses == jxPc' = "unreadable" /\ UNCHANGED <<unread, loaded>>

EndsString(field) ==
    /\ jxPc' = IF field = "name" THEN "content" ELSE "read"
    /\ unread' = Without(Len(Behind(field)))
    /\ UNCHANGED loaded

(* A string as simdjson reads it: up to the quote, no control characters,  *)
(* and a backslash only before some of the others.                         *)
ReadString(field) ==
    /\ jxPc = field
    /\ IF unread = <<>> \/ unread[1] \in Control THEN Refuses
       ELSE IF unread[1] = Quote
            THEN IF IsPrefix(Behind(field), unread) THEN EndsString(field) ELSE Refuses
       ELSE IF unread[1] # Backslash THEN Takes(field, unread[1], 1)
       ELSE IF Len(unread) > 1 /\ unread[2] \in EscapeLetters \cup {Quote, Backslash}
            THEN Takes(field, Meant(unread[2]), 2)
       ELSE Refuses
    /\ UNCHANGED <<name, content, place, left, wide, saved>>

JxNext == ConvertChar \/ SaveText \/ LoadText \/ ReadString("name") \/ ReadString("content")

JxSpec == JxInit /\ [][JxNext]_jxVars

--------------------------------------------------------------------------------
(* Properties.                                                             *)

CharsOf(text) == {text[i] : i \in DOMAIN text}
Harmless(c) == c \notin Control \cup {Quote, Backslash}
Storable(c) == c < 65536 /\ (c \notin Control \/ c \in DOMAIN Named)

(* A string comes back from the data file as it was, escapes, Cyrillic     *)
(* letters and signs of three bytes included, if its characters have 16    *)
(* bits and a form in JSON that wescape knows (and the name none that      *)
(* needs one).  unescape, the fallback's reader of strings, undoes escape  *)
(* for every text, those that a strict reader refuses included.            *)
TextSurvives ==
    /\ (\A c \in CharsOf(name) : Harmless(c)) /\ (\A c \in CharsOf(content) : Storable(c)) =>
         /\ jxPc # "unreadable"
         /\ jxPc = "read" => loaded = [name |-> ToUtf8(name), content |-> Bytes]
    /\ jxPc = "save" => Unescaped(EscapedText(wide)) = wide
================================================================================
