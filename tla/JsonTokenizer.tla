----------------------------- MODULE JsonTokenizer -----------------------------
(***************************************************************************)
(* fsm_tokenizer (src/support/fsm_tokenizer.hpp) with the rules that       *)
(* object::deserialize gives it (src/support/json.cpp): it takes a text    *)
(* character by character, and hands each token to the reader as soon  *)
(* as it is complete.  The parser of the rules and the cache of character  *)
(* classes are left out: the table below is what they build.               *)
(***************************************************************************)
EXTENDS Naturals, Sequences, FiniteSets, SequencesExt

CONSTANTS Alphabets,   (* sets of characters; a text is made of one of them *)
          MaxText      (* bound: characters read                            *)

Spaces == {" ", "\n"}
Digits == {"1"}
Punctuation == {"\"", "'", "\\", "/", "*", "#", "+", "-", ".", ",", ":", "[", "]", "{", "}"}
Letters == {"n", "u", "l", "i", "t", "r", "e", "f", "a", "s", "x"}
Enders == Spaces \cup Punctuation
AnyChar == Enders \cup Digits \cup Letters

ASSUME JsonTokenizerConstants == (\A a \in Alphabets : a \subseteq AnyChar) /\ MaxText \in Nat

--------------------------------------------------------------------------------
(* The rules: where a state goes on a character, in their order; $df, the  *)
(* default, comes last here.  A final target emits a token, with the       *)
(* character ("<") or before it ("^").                                     *)

To(state) == [state |-> state, token |-> "", own |-> FALSE]
Including(token) == [state |-> "", token |-> token, own |-> TRUE]
Before(token) == [state |-> "", token |-> token, own |-> FALSE]
On(chars, target) == [chars |-> chars, target |-> target]
Otherwise(target) == On(AnyChar, target)

(* Keywords, letter by letter.                                             *)
Keyword == [n |-> <<On({"u"}, To("nu")), On({"i"}, To("ni"))>>,
            nu |-> <<On({"l"}, To("nul"))>>, ni |-> <<On({"l"}, To("nil"))>>,
            nul |-> <<On({"l"}, To("null"))>>,
            null |-> <<On(Enders, Before("nul"))>>, nil |-> <<On(Enders, Before("nul"))>>,
            t |-> <<On({"r"}, To("tr"))>>, tr |-> <<On({"u"}, To("tru"))>>,
            tru |-> <<On({"e"}, To("true"))>>, true |-> <<On(Enders, Before("tru"))>>,
            f |-> <<On({"a"}, To("fa"))>>, fa |-> <<On({"l"}, To("fal"))>>,
            fal |-> <<On({"s"}, To("fals"))>>, fals |-> <<On({"e"}, To("false"))>>,
            false |-> <<On(Enders, Before("fal"))>>]

Number == [sign |-> <<On(Digits, To("int")), On({"."}, To("mbfp"))>>,
           mbfp |-> <<On(Digits, To("fp"))>>,
           int |-> <<On({"."}, To("fpd")), On(Enders, Before("int")), On({"e"}, To("fpe1")),
                     On(Digits, To("int"))>>,
           fpd |-> <<On(Digits, To("fp")), On({"e"}, To("fpe1"))>>,
           fp |-> <<On(Enders, Before("fpl")), On(Digits, To("fp")), On({"e"}, To("fpe1"))>>,
           fpe1 |-> <<On({"-", "+"}, To("fpes")), On(Digits, To("fpe2"))>>,
           fpes |-> <<On(Digits, To("fpe2")), On({"."}, To("fpesd"))>>,
           fpesd |-> <<On(Digits, To("fpesd")), On(Enders, Before("fpl"))>>,
           fpe2 |-> <<On(Digits, To("fpe2")), On({"."}, To("fpe2d")), On(Enders, Before("fpl"))>>,
           fpe2d |-> <<On(Digits, To("fpe2d")), On(Enders, Before("fpl"))>>]

Quoted == [str |-> <<On({"\""}, Including("str")), On({"\\"}, To("stre")), Otherwise(To("str"))>>,
           stre |-> <<Otherwise(To("str"))>>,
           sts |-> <<On({"'"}, Including("sts")), On({"\\"}, To("stse")), Otherwise(To("sts"))>>,
           stse |-> <<Otherwise(To("sts"))>>]

Comment == ("/" :> <<On({"*"}, To("mlc")), On({"/"}, To("slc")), Otherwise(Before("/"))>>)
        @@ [slc |-> <<On({"\n"}, Before("//")), Otherwise(To("slc"))>>,
            mlc |-> <<On({"*"}, To("mlcs")), Otherwise(To("mlc"))>>,
            mlcs |-> <<On({"/"}, Including("//")), Otherwise(To("mlc"))>>,
            spc |-> <<On(Spaces, To("spc")), Otherwise(Before("spc"))>>]

Start == <<On({"\""}, To("str")), On({"'"}, To("sts")), On({"/"}, To("/")), On({"#"}, To("slc")),
           On(Spaces, To("spc")), On({"+", "-"}, To("sign")), On(Digits, To("int")),
           On({"."}, To("mbfp")), On({"n"}, To("n")), On({"t"}, To("t")), On({"f"}, To("f")),
           On({","}, Including(",")), On({":"}, Including(":")), On({"["}, Including("[")),
           On({"]"}, Including("]")), On({"{"}, Including("{")), On({"}"}, Including("}"))>>

Rules == Keyword @@ Number @@ Quoted @@ Comment @@ ("#rd" :> Start)

--------------------------------------------------------------------------------
VARIABLES
    chars,       (* the alphabet of the text                               *)
    text,        (* history: the characters taken                          *)
    fsm,         (* state_current_, buffer_, and the tokens handed over    *)
    tkEnd        (* reading, finalized, threw                              *)

jtVars == <<chars, text, fsm, tkEnd>>

JtTypeOK ==
    /\ chars \in Alphabets
    /\ text \in Seq(AnyChar)
    /\ fsm.state \in DOMAIN Rules /\ fsm.buffer \in Seq(AnyChar)
    /\ \A i \in DOMAIN fsm.tokens : fsm.tokens[i].text \in Seq(AnyChar)
    /\ tkEnd \in {"reading", "finalized", "threw"}

JtInit ==
    /\ chars \in Alphabets
    /\ text = <<>>
    /\ fsm = [state |-> "#rd", buffer |-> <<>>, tokens |-> <<>>]
    /\ tkEnd = "reading"

Applicable(state, char) == SelectSeq(Rules[state], LAMBDA r : char \in r.chars)

Emit(m, type, token) ==
    [state |-> "#rd", buffer |-> <<>>, tokens |-> Append(m.tokens, [type |-> type, text |-> token])]

Target(m, char) == Head(Applicable(m.state, char)).target
EndsBefore(target) == target.token # "" /\ ~target.own

(* accept, but for its recursive calls; a variant without them drops the   *)
(* character before which a token ends.                                    *)
AcceptOnce(m, char) ==
    LET target == Target(m, char)
        longer == Append(m.buffer, char)
    IN IF target.token = "" THEN [m EXCEPT !.state = target.state, !.buffer = longer]
       ELSE Emit(m, target.token, IF target.own THEN longer ELSE m.buffer)

(* The character before which a token ends begins the next one.            *)
AcceptSym(m, char) ==
    LET once == AcceptOnce(m, char) IN
    IF EndsBefore(Target(m, char)) THEN AcceptOnce(once, char) ELSE once

(* There is a rule for the character, also in the state it is taken in     *)
(* after the token that ends before it.                                    *)
Acceptable(m, char) ==
    /\ Applicable(m.state, char) # <<>>
    /\ EndsBefore(Target(m, char)) => Applicable("#rd", char) # <<>>

AcceptChar(char) ==
    /\ tkEnd = "reading" /\ Len(text) < MaxText
    /\ text' = Append(text, char)
    /\ IF Acceptable(fsm, char)
       THEN fsm' = AcceptSym(fsm, char) /\ UNCHANGED tkEnd
       ELSE tkEnd' = "threw" /\ UNCHANGED fsm
    /\ UNCHANGED chars

(* finalize: what is in the buffer is a token if the state can end in one. *)
Finalize ==
    /\ tkEnd = "reading"
    /\ LET finals == SelectSeq(Rules[fsm.state], LAMBDA r : r.target.token # "") IN
         IF fsm.buffer = <<>>
         THEN tkEnd' = "finalized" /\ UNCHANGED fsm
         ELSE IF finals = <<>>
         THEN tkEnd' = "threw" /\ UNCHANGED fsm
         ELSE /\ tkEnd' = "finalized"
              /\ fsm' = Emit(fsm, Head(finals).target.token, fsm.buffer)
    /\ UNCHANGED <<chars, text>>

JtNext == (\E char \in chars : AcceptChar(char)) \/ Finalize

JtSpec == JtInit /\ [][JtNext]_jtVars

--------------------------------------------------------------------------------
(* Properties.                                                             *)

(* What a token of each type looks like.  A string may hold its quote      *)
(* after an odd number of backslashes only.                                *)
Escaped(t, i) ==
    LET before == {j \in 1..i - 1 : \A k \in j..i - 1 : t[k] = "\\"} IN Cardinality(before) % 2 = 1

IsString(t, quote) ==
    /\ Len(t) >= 2 /\ Head(t) = quote
    /\ \A i \in 2..Len(t) : (t[i] = quote /\ ~Escaped(t, i)) <=> i = Len(t)

IsNumber(t) ==
    /\ \E i \in DOMAIN t : t[i] \in Digits
    /\ \A i \in DOMAIN t : \/ t[i] \in Digits \cup {"."}
                           \/ t[i] = "e" /\ i > 1 /\ \A j \in i + 1..Len(t) : t[j] # "e"
                           \/ t[i] \in {"+", "-"} /\ (i = 1 \/ t[i - 1] = "e")

IsComment(t) ==
    \/ Len(t) >= 4 /\ SubSeq(t, 1, 2) = <<"/", "*">> /\ SubSeq(t, Len(t) - 1, Len(t)) = <<"*", "/">>
    \/ (Head(t) = "#" \/ SubSeq(t, 1, 2) = <<"/", "/">>) /\ ~Contains(t, "\n")

IsLexeme(type, t) ==
    CASE type = "str" -> IsString(t, "\"")
      [] type = "sts" -> IsString(t, "'")
      [] type = "int" -> IsNumber(t) /\ ~Contains(t, ".") /\ ~Contains(t, "e")
      [] type = "fpl" -> IsNumber(t)
      [] type = "spc" -> ToSet(t) \subseteq Spaces
      [] type = "//" -> IsComment(t)
      [] type = "nul" -> t \in {<<"n", "u", "l", "l">>, <<"n", "i", "l">>}
      [] type = "tru" -> t = <<"t", "r", "u", "e">>
      [] type = "fal" -> t = <<"f", "a", "l", "s", "e">>
      [] OTHER -> t = <<type>>

(* The tokens are the text, cut into pieces of which each is what its type *)
(* says: no character is lost, taken twice or read on the wrong side of a  *)
(* quote.  Only the end of the text cuts a string or a comment short.      *)
TokensAreText ==
    /\ tkEnd # "threw" =>
          FlattenSeq([i \in DOMAIN fsm.tokens |-> fsm.tokens[i].text]) \o fsm.buffer = text
    /\ \A i \in DOMAIN fsm.tokens :
          IsLexeme(fsm.tokens[i].type, fsm.tokens[i].text)
             \/ (tkEnd = "finalized" /\ i = Len(fsm.tokens))
================================================================================
