--------------------------------- MODULE StrUtil --------------------------------
(***************************************************************************)
(* The helpers of src/support/str_util that the dates and the header of a  *)
(* response are taken apart with.  A text is a sequence of characters.     *)
(***************************************************************************)
EXTENDS Integers, Sequences, SequencesExt, FiniteSetsExt

DecimalDigits == <<"0", "1", "2", "3", "4", "5", "6", "7", "8", "9">>
IsDigit(c) == c \in Range(DecimalDigits)
DigitValue(c) == (CHOOSE i \in DOMAIN DecimalDigits : DecimalDigits[i] = c) - 1

Tens == <<1, 10, 100, 1000, 10000, 100000, 1000000, 10000000, 100000000,
          1000000000>>      (* numbers have 32 bits *)

(* The number that a sequence of digits is written as, and back.           *)
NumberOf(digits) == FoldLeft(LAMBDA n, c : 10 * n + DigitValue(c), 0, digits)

DigitsOf(n) ==
    LET width == Max({1} \cup {k \in DOMAIN Tens : Tens[k] <= n})
    IN [i \in 1..width |-> DecimalDigits[((n \div Tens[width - i + 1]) % 10) + 1]]

(* A stream with setfill('0') << setw(width): a sign counts as a character *)
(* and stays behind the zeros.                                             *)
Padded(n, width) ==
    LET shown == IF n < 0 THEN <<"-">> \o DigitsOf(-n) ELSE DigitsOf(n)
    IN [i \in 1..(width - Len(shown)) |-> "0"] \o shown

(* str_tok: the pieces between the separators, empty ones too.             *)
StrTok(text, separator) ==
    LET at == {i \in DOMAIN text : text[i] = separator}
        cuts == SetToSortSeq(at \cup {0, Len(text) + 1}, <)
    IN [i \in 1..Len(cuts) - 1 |-> SubSeq(text, cuts[i] + 1, cuts[i + 1] - 1)]

(* atoi reads from the last character to the first, and stops at a sign:   *)
(* what precedes the last sign is not looked at.  ok: nothing was thrown.  *)
Atoi(text) ==
    LET sign == Max({0} \cup {i \in DOMAIN text : text[i] \in {"+", "-"}})
        digits == SubSeq(text, sign + 1, Len(text))
        ok == text # <<>> /\ \A i \in DOMAIN digits : IsDigit(digits[i])
    IN [ok |-> ok,
        value |-> IF ~ok THEN 0
                  ELSE IF sign > 0 /\ text[sign] = "-" THEN -NumberOf(digits)
                  ELSE NumberOf(digits)]
================================================================================
