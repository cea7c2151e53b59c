-------------------------------- MODULE HttpFields -------------------------------
(***************************************************************************)
(* The header of a response: its parser, what Request::send takes from it  *)
(* (src/support/http_client/httprequest.hpp), and how fetch_rates finds    *)
(* JSON in it (src/src/exchange_rates_fetch_logic.hpp).  HttpReader has    *)
(* the body.                                                               *)
(*                                                                         *)
(* A header is a sequence of words, digits, delimiters, blanks and line    *)
(* ends; it is complete, as send has found its empty line.                 *)
(***************************************************************************)
EXTENDS StrUtil, TLC

CONSTANTS Statuses,    (* version, code and reason of status lines         *)
          Offers,      (* fields: name, lines (folded), blanks around them *)
          MaxFields    (* bound: fields of a response                      *)

ASSUME HttpFieldsConstants == MaxFields \in Nat

Blanks == {" ", "\t"}
LineEnds == {"\r", "\n"}
Delimiters == {":", ";", "/"}
LineEnd == <<"\r", "\n">>

(* strtolower, and send's toLower: the words that have capitals.           *)
LowerCase == ("Content-Type" :> "content-type") @@ ("TRANSFER-ENCODING" :> "transfer-encoding")
             @@ ("Content-Length" :> "content-length") @@ ("JSON" :> "json")
             @@ ("Chunked" :> "chunked")
Lower(words) == [i \in DOMAIN words |-> IF words[i] \in DOMAIN LowerCase THEN LowerCase[words[i]]
                                        ELSE words[i]]

--------------------------------------------------------------------------------
(* The parser.                                                             *)

(* The character at a place, and the first place from i on that is not of  *)
(* a kind: where a loop over characters ends.                              *)
At(s, i) == IF i \in DOMAIN s THEN s[i] ELSE "end"
Past(s, i, kind) == Min({Len(s) + 1} \cup {k \in i..Len(s) : s[k] \notin kind})
LineEndAt(s, i) == At(s, i) = "\r" /\ At(s, i + 1) = "\n"
InLine(s) == Range(s) \ LineEnds
InToken(s) == Range(s) \ (LineEnds \cup Blanks \cup Delimiters)

TrimRight(line) ==
    SubSeq(line, 1, Max({0} \cup {i \in DOMAIN line : line[i] \notin Blanks}))

(* parseFieldContent: lines that are folded are joined with one blank.     *)
RECURSIVE FieldContent(_, _, _)
FieldContent(s, i, before) ==
    LET end == Past(s, i, InLine(s))
        read == before \o TrimRight(SubSeq(s, i, end - 1))
    IN IF LineEndAt(s, end) /\ At(s, end + 2) \in Blanks
       THEN FieldContent(s, end + 3, Append(read, " "))
       ELSE [next |-> end, value |-> read]

(* parseHeaderField and parseStatusLine: what they read and where they     *)
(* end, or ok is FALSE and they throw.                                     *)
HeaderField(s, i) ==
    LET end == Past(s, i, InToken(s))
        content == FieldContent(s, Past(s, end + 1, Blanks), <<>>)
    IN [ok |-> end > i /\ At(s, end) = ":" /\ LineEndAt(s, content.next),
        name |-> SubSeq(s, i, end - 1), value |-> content.value, next |-> content.next + 2]

VersionOk(s) ==
    /\ At(s, 1) = "HTTP" /\ At(s, 2) = "/"
    /\ IsDigit(At(s, 3)) /\ At(s, 4) = "." /\ IsDigit(At(s, 5))

CodeEnd(s) == Past(s, 7, Range(DecimalDigits))

StatusLine(s) ==
    LET end == CodeEnd(s)
        reason == Past(s, end + 1, InLine(s))
        ok == /\ VersionOk(s) /\ At(s, 6) = " "
              /\ end = 10 /\ At(s, end) = " " /\ LineEndAt(s, reason)
    IN [ok |-> ok, code |-> IF ok THEN NumberOf(SubSeq(s, 7, 9)) ELSE 0, next |-> reason + 2]

--------------------------------------------------------------------------------
VARIABLES
    status, fields,            (* what the server sends                    *)
    body,                      (* what it is: rates, other JSON or none    *)
    hfPc, at,                  (* at: how far the header is read           *)
    statusCode, headerFields,  (* of the response                          *)
    chunked, contentLength,    (* chunkedResponse; a set: what was received*)
    fieldNo, processed         (* fetch_rates                              *)

sentVars == <<status, fields, body>>
framingVars == <<chunked, contentLength>>
hfVars == <<sentVars, hfPc, at, statusCode, headerFields, framingVars, fieldNo, processed>>

(* The header as it is sent.                                               *)
FieldLines(f) ==
    FlattenSeq([i \in DOMAIN f.lines |->
        (IF i = 1 THEN f.blanks ELSE <<" ">>) \o f.lines[i] \o f.blanks \o LineEnd])
Header ==
    status.version \o <<" ">> \o status.code \o <<" ">> \o status.reason \o LineEnd
    \o FlattenSeq([i \in DOMAIN fields |-> fields[i].name \o <<":">> \o FieldLines(fields[i])])

HfTypeOK ==
    /\ hfPc \in {"status", "field", "search", "threw", "done"}
    /\ at \in 1..Len(Header) + 1 /\ statusCode \in 0..999
    /\ Len(headerFields) <= MaxFields /\ fieldNo \in 1..MaxFields + 1
    /\ chunked \in BOOLEAN /\ processed \in BOOLEAN /\ contentLength \subseteq Nat

HfInit ==
    /\ status \in Statuses /\ fields \in UNION {[1..n -> Offers] : n \in 0..MaxFields}
    /\ body \in {"rates", "other", "malformed"}
    /\ hfPc = "status" /\ at = 1 /\ statusCode = 0 /\ headerFields = <<>>
    /\ chunked = FALSE /\ contentLength = {} /\ fieldNo = 1 /\ processed = FALSE

(* send throws, and fetch_rates catches it.                                *)
Throw == hfPc' = "threw" /\ UNCHANGED <<at, statusCode, headerFields, framingVars>>

ReadStatus ==
    LET line == StatusLine(Header)
    IN /\ hfPc = "status"
       /\ IF line.ok THEN /\ statusCode' = line.code /\ at' = line.next /\ hfPc' = "field"
                          /\ UNCHANGED <<headerFields, framingVars>>
          ELSE Throw
       /\ UNCHANGED <<sentVars, fieldNo, processed>>

IsNamed(f, word) == Lower(f.name) = <<word>>

(* One round of send's loop.  A header has a field at least; the last      *)
(* length counts.                                                          *)
ReadField ==
    LET f == HeaderField(Header, at)
        encoding == IsNamed(f, "transfer-encoding")
        length == IsNamed(f, "content-length")
    IN /\ hfPc = "field"
       /\ IF \/ ~f.ok
             \/ encoding /\ f.value # <<"chunked">>
             \/ length /\ \E i \in DOMAIN f.value : ~IsDigit(f.value[i])
          THEN Throw
          ELSE /\ headerFields' = Append(headerFields, [name |-> Lower(f.name), value |-> f.value])
               /\ chunked' = (chunked \/ encoding)
               /\ contentLength' = IF length THEN {NumberOf(f.value)} ELSE contentLength
               /\ at' = f.next
               /\ hfPc' = IF f.next > Len(Header) THEN "search" ELSE "field"
               /\ UNCHANGED statusCode
       /\ UNCHANGED <<sentVars, fieldNo, processed>>

(* Faulty variant: parameters are not cut off.                             *)
WholeTokens(v) == StrTok(v, "/")

(* The words of fetch_rates: of what precedes the first ";", by slashes.   *)
MediaTokens(v) == StrTok(StrTok(v, ";")[1], "/")

(* A round of fetch_rates' loop over the fields; the body is read for each *)
(* token that says JSON, until it is one with rates.  A body that is no    *)
(* JSON throws, out of the loop and to the end of fetch_rates.             *)
SearchType ==
    LET f == headerFields[fieldNo]
        json == /\ f.name = <<"content-type">>
                /\ \E t \in Range(MediaTokens(f.value)) : Lower(t) = <<"json">>
    IN /\ hfPc = "search"
       /\ IF statusCode = 200 /\ ~processed /\ fieldNo <= Len(headerFields)
          THEN /\ processed' = (json /\ body = "rates") /\ fieldNo' = fieldNo + 1
               /\ hfPc' = IF json /\ body = "malformed" THEN "done" ELSE hfPc
          ELSE hfPc' = "done" /\ UNCHANGED <<processed, fieldNo>>
       /\ UNCHANGED <<sentVars, at, statusCode, headerFields, framingVars>>

HfNext == ReadStatus \/ ReadField \/ SearchType

HfSpec == HfInit /\ [][HfNext]_hfVars

--------------------------------------------------------------------------------
(* Properties, from what the server sent.                                  *)

NameOf(f) == Lower(f.name)
Joined(f) == FoldLeft(LAMBDA s, line : s \o <<" ">> \o line, f.lines[1], Tail(f.lines))
Stripped(s) == SubSeq(s, Past(s, 1, Blanks), Len(TrimRight(s)))
FieldsNamed(field) == {f \in Range(fields) : NameOf(f) = <<field>>}
StartsOnItsLine(f) == f.lines[1] # <<>>

(* Each field that was read is the one that was sent at its place, with    *)
(* its name in small letters and its value without the blanks around it;   *)
(* lines that were folded are one again.                                   *)
FieldsAsSent ==
    \A i \in DOMAIN headerFields :
      /\ headerFields[i].name = NameOf(fields[i])
      /\ Stripped(headerFields[i].value) = Stripped(Joined(fields[i]))

(* The body is taken apart in the way that was announced: in chunks if an  *)
(* encoding was sent, by the last length, or not at all if the header was  *)
(* malformed or announced another encoding; a good header is never         *)
(* refused, except without a field, or with an encoding folded away from   *)
(* its name.                                                               *)
WellFormed(f) ==
    /\ Len(f.name) = 1
    /\ \A line \in Range(f.lines) : Range(line) \cap LineEnds = {}
    /\ NameOf(f) = <<"transfer-encoding">> => Stripped(Joined(f)) = <<"chunked">>
    /\ NameOf(f) = <<"content-length">> => \A i \in DOMAIN Joined(f) : IsDigit(Joined(f)[i])

GoodStatus == Len(status.code) = 3 /\ Range(status.code) \subseteq Range(DecimalDigits)

FramingAsAnnounced ==
    LET lengths == {i \in DOMAIN fields : NameOf(fields[i]) = <<"content-length">>}
    IN /\ hfPc \in {"search", "done"} =>
            /\ GoodStatus /\ fields # <<>> /\ \A f \in Range(fields) : WellFormed(f)
            /\ chunked = (FieldsNamed("transfer-encoding") # {})
            /\ contentLength = IF lengths = {} THEN {}
                               ELSE {NumberOf(Joined(fields[Max(lengths)]))}
       /\ hfPc = "threw" =>
            \/ ~GoodStatus \/ fields = <<>> \/ \E f \in Range(fields) : ~WellFormed(f)
            \/ \E f \in FieldsNamed("transfer-encoding") : ~StartsOnItsLine(f)

(* A response is taken for rates exactly if the server says 200, calls it  *)
(* JSON and it has rates: whatever the capitals, parameters, folds and     *)
(* other fields.  A blank before the semicolon is left out: there the type *)
(* is not recognised.                                                      *)
SaysJson(f) ==
    LET words == Joined(f)
        end == Past(words, 1, Range(words) \ {";"})
    IN "json" \in Range(Lower(SubSeq(words, 1, end - 1)))
BlankBeforeSemicolon(f) ==
    \E i \in DOMAIN Joined(f) : Joined(f)[i] \in Blanks /\ At(Joined(f), i + 1) = ";"

JsonRecognised ==
    LET json == {f \in FieldsNamed("content-type") : SaysJson(f)}
    IN /\ processed => statusCode = 200 /\ body = "rates" /\ json # {}
       /\ hfPc = "done" /\ status.code = <<"2", "0", "0">> /\ body = "rates"
            /\ (\E f \in json : ~BlankBeforeSemicolon(f)) => processed

(* All of them: the header is understood as the server meant it.           *)
HeaderUnderstood == FieldsAsSent /\ FramingAsAnnounced /\ JsonRecognised
================================================================================
