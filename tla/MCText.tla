--------------------------------- MODULE MCText --------------------------------
(* The texts that the components reading and writing them are checked with *)
(* in MCSupport, and their start while another one runs.                   *)
EXTENDS DateText, RatesStorage, JsonText, HttpFields, HttpRequest

(* Dates as a server may write them: with and without zeros, out of range, *)
(* with signs, incomplete.                                                 *)
Days == {<<"9">>, <<"0", "9">>, <<"3", "1">>, <<"3", "0">>, <<"2", "9">>, <<"0">>, <<>>, <<"x">>,
         <<"+", "7">>, <<"-", "7">>, <<"1", "2", "3">>, <<"5", "+", "7">>}
Months == {<<"2">>, <<"0", "2">>, <<"4">>, <<"1", "2">>, <<"1", "3">>, <<"0">>, <<>>}
FourDigits == {<<"2", "0", "2", "3">>, <<"2", "0", "2", "4">>, <<"2", "0", "3", "0">>}
MCDotted == {d \o <<".">> \o m \o <<".">> \o y : d \in Days, m \in Months, y \in FourDigits}
            \cup {<<"1", ".", "2">>, <<"1", ".", "2", ".", "2", "0", "2", "4", ".">>}
MCInstants == {[sec |-> DayNumber(y, m, d) * 86400 + s, sub |-> f] :
                 y \in {1999, 2024}, m \in {1, 2, 12}, d \in {1, 29, 31},
                 s \in {0, 3599, 36005, 86399}, f \in {0, 54, 5006, 9996}}
MCZones == {0, 7200, 10800, -12600, 20700}

(* Dates whose order is another one when days and months are swapped, and  *)
(* two that are one text without zeros.                                    *)
MCRateDates == {[y |-> 2024, m |-> 1, d |-> 12], [y |-> 2024, m |-> 11, d |-> 2],
                [y |-> 2023, m |-> 10, d |-> 11]}
MCResponses ==
    LET records(rs) == [cc : {"USD", "EUR"}, date : MCRateDates, rate : rs]
    IN {<<r>> : r \in records({1, 2})} \cup {<<r, q>> : r \in records({1}), q \in records({2})}

(* One character of each kind: zero, a control character, a named one, the *)
(* two that are escaped, a letter that is also an escape, Cyrillic, three  *)
(* bytes, four bytes, and the one of four whose low half is zero.          *)
MCChars == {0, 1, 10, 34, 92, 110, 1046, 8364, 128176, 131072}

StatusOf(c, r) == [version |-> <<"HTTP", "/", "1", ".", "1">>, code |-> c, reason |-> r]
MCStatuses == {StatusOf(<<"2", "0", "0">>, <<"OK">>), StatusOf(<<"2", "0", "0">>, <<>>),
               StatusOf(<<"4", "0", "4">>, <<"Not", " ", "Found">>),
               StatusOf(<<"2", "0">>, <<"OK">>), StatusOf(<<"2", "0", "0", "0">>, <<"OK">>)}

FieldsOf(n, values, around) == [name : {n}, lines : values, blanks : around]
MediaTypes == { << <<"application", "/", "JSON">> >>,
                << <<"application", "/", "json", ";", "charset">> >>,
                << <<"text", "/", "html", ";">>, <<"json">> >>,
                << <<>>, <<"application", "/", "json">> >>,
                << <<"application", "/", "json", " ", ";">> >>,
                << <<"text", "/", "html">> >> }
MCOffers ==
    FieldsOf(<<"Content-Type">>, MediaTypes, {<<>>, <<" ">>, <<" ", "\t">>})
    \cup FieldsOf(<<"content-length">>, {<< <<"1", "2">> >>, << <<"x">> >>, << <<>> >>}, {<<" ">>})
    \cup FieldsOf(<<"Content-Length">>, {<< <<"7">> >>}, {<<>>})
    \cup FieldsOf(<<"TRANSFER-ENCODING">>,
                  {<< <<"chunked">> >>, << <<"Chunked">> >>, << <<>>, <<"chunked">> >>}, {<<>>, <<" ">>})
    \cup FieldsOf(<<"X">>, {<< <<"a">>, <<"b">> >>, << <<"a", "\r", "b">> >>, << <<>> >>}, {<<" ">>})
    \cup FieldsOf(<<"X", " ">>, {<< <<"a">> >>}, {<<>>})
    \cup FieldsOf(<<>>, {<< <<"a">> >>}, {<<>>})

MCUrls ==
    [scheme : {<<"http">>, <<"https">>, <<>>}, user : {<<>>, <<"u">>}, password : {<<>>},
     host : {<<"h">>}, port : {<<>>, <<"8", "0", "8", "0">>, <<"x">>},
     path : {<<>>, <<"/">>, <<"/", "a", "/", "b", ":", "c", "@", "d">>},
     query : {<<>>, <<"q", "=", "/", "?", ":", "@">>}, fragment : {<<>>, <<"f", "#", "?", "/">>}]
    \cup [scheme : {<<"http">>}, user : {<<"u">>}, password : {<<"p">>}, host : {<<"h">>},
          port : {<<>>, <<"8", "0", "8", "0">>}, path : {<<"/", "a">>},
          query : {<<>>, <<"a", "@", "b">>}, fragment : {<<>>}]
MCQueryDates == {<<"2", "0", "2", "4", "0", "9", "0", "1">>, <<"2", "0", "2", "4", "0", "9", "1">>,
                 <<"x", "0", "2", "4", "0", "9", "0", "1">>, <<>>}

DatesIdle ==
    /\ zone = 0 /\ dotted = <<"x">> /\ instant = [sec |-> 0, sub |-> 0]
    /\ dtPc = "convert" /\ asked = [d |-> 0, m |-> 0, y |-> 0] /\ dateText = <<>>
    /\ cno = 0 /\ part = Ye /\ buf = <<>> /\ brdn = [i \in Ye..Om |-> 0]
    /\ offsSign = 1 /\ offsGiven = FALSE /\ value = Nothing

JsonIdle ==
    /\ name = <<>> /\ content = <<>> /\ jxPc = "convert" /\ place = 1 /\ left = 0
    /\ wide = <<>> /\ saved = <<>> /\ unread = <<>> /\ loaded = [name |-> <<>>, content |-> <<>>]

FieldsIdle ==
    /\ status = StatusOf(<<"2", "0", "0">>, <<>>) /\ fields = <<>> /\ body = "other"
    /\ hfPc = "status" /\ at = 1 /\ statusCode = 0 /\ headerFields = <<>>
    /\ chunked = FALSE /\ contentLength = {} /\ fieldNo = 1 /\ processed = FALSE

RequestIdle ==
    /\ wanted = [kind |-> "date", date |-> <<>>] /\ rqPc = "compose"
    /\ url = <<>> /\ uri = NoUri /\ request = NoRequest
================================================================================
