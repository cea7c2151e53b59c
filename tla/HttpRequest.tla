-------------------------------- MODULE HttpRequest ------------------------------
(***************************************************************************)
(* From a date to a request: given_date_rates makes a URL                  *)
(* (src/src/api_queries_composer.hpp), Request takes it apart and composes *)
(* what it sends (src/support/http_client/httprequest.hpp).  The parser is *)
(* checked with other URLs, too.                                           *)
(*                                                                         *)
(* A URL is a sequence of words, digits and delimiters.                    *)
(***************************************************************************)
EXTENDS StrUtil

CONSTANTS Urls,        (* parts of URLs; <<>> is a part that is missing    *)
          QueryDates   (* texts that given_date_rates may be called with   *)

UrlDelimiters == {":", "/", "?", "#", "@"}
Schemes == {"http", "https", "ftp"}     (* words of letters *)

Words == Seq(STRING)
UrlParts == [scheme : Words, user : Words, password : Words, host : Words, port : Words,
             path : Words, query : Words, fragment : Words]

(* The texts that are URLs: a delimiter stands in front of its part, or    *)
(* where the syntax of URLs allows it inside one.                          *)
IsUrl(u) ==
    /\ u \in UrlParts
    /\ \A p \in {u.scheme, u.user, u.password, u.host, u.port} : Range(p) \cap UrlDelimiters = {}
    /\ Range(u.path) \cap {"?", "#"} = {} /\ (u.path = <<>> \/ u.path[1] = "/")
    /\ "#" \notin Range(u.query)
    /\ u.user = <<>> => u.password = <<>>

ASSUME HttpRequestConstants == (\A u \in Urls : IsUrl(u)) /\ QueryDates \subseteq Words

--------------------------------------------------------------------------------
(* is_valid_yyyymmdd_date, and given_date_rates for JSON (configuration    *)
(* accepts nothing else): the empty text if the date is not valid.         *)
IsValidDate(date) == Len(date) = 8 /\ \A i \in DOMAIN date : IsDigit(date[i])

Service == [scheme |-> <<"https">>, user |-> <<>>, password |-> <<>>,
            host |-> <<"bank.gov.ua">>, port |-> <<>>,
            path |-> <<"/", "NBUStatService", "/", "exchange">>,
            query |-> <<>>, fragment |-> <<>>]

Optional(delimiter, p) == IF p = <<>> THEN <<>> ELSE <<delimiter>> \o p

(* The text of a URL.                                                      *)
UrlText(u) ==
    u.scheme \o <<":", "/", "/">>
    \o (IF u.user = <<>> THEN <<>> ELSE u.user \o Optional(":", u.password) \o <<"@">>)
    \o u.host \o Optional(":", u.port) \o u.path
    \o Optional("?", u.query) \o Optional("#", u.fragment)

DateQuery(date) == <<"date", "=">> \o date \o <<"&", "json">>

GivenDateRates(date) ==
    IF IsValidDate(date) THEN UrlText(Service) \o <<"?">> \o DateQuery(date) ELSE <<>>

--------------------------------------------------------------------------------
(* Faulty variant: rfind for find.                                         *)
CutAtLast(s, delimiter) ==
    LET i == Max({0} \cup {k \in DOMAIN s : s[k] = delimiter})
    IN [found |-> i > 0, before |-> IF i = 0 THEN s ELSE SubSeq(s, 1, i - 1),
        after |-> IF i = 0 THEN <<>> ELSE SubSeq(s, i + 1, Len(s))]

(* find, substr and resize: a text around the first delimiter.             *)
Find(s, delimiter) == Min({Len(s) + 1} \cup {k \in DOMAIN s : s[k] = delimiter})
CutAt(s, delimiter) ==
    LET i == Find(s, delimiter)
    IN [found |-> i <= Len(s), before |-> SubSeq(s, 1, i - 1), after |-> SubSeq(s, i + 1, Len(s))]

(* parseUri: the fragment, the query and the path are cut off in this      *)
(* order, then the user off the host, and the port behind it.              *)
HasScheme(s) == Len(s) >= 4 /\ s[1] \in Schemes /\ SubSeq(s, 2, 4) = <<":", "/", "/">>

ParseUri(s) ==
    LET fragment == CutAt(SubSeq(s, 5, Len(s)), "#")
        query == CutAt(fragment.before, "?")
        path == CutAt(query.before, "/")
        user == CutAt(path.before, "@")
        password == CutAt(user.before, ":")
        host == CutAt(IF user.found THEN user.after ELSE path.before, ":")
    IN [scheme |-> <<s[1]>>,
        user |-> IF user.found THEN password.before ELSE <<>>,
        password |-> IF user.found THEN password.after ELSE <<>>,
        host |-> host.before, port |-> host.after,
        path |-> <<"/">> \o path.after,
        query |-> query.after, fragment |-> fragment.after]

(* Request::port: atoui of the text, 80 if it is not a number.             *)
PortOf(u) ==
    IF u.port = <<>> THEN IF u.scheme = <<"https">> THEN 443 ELSE 80
    ELSE IF \A i \in DOMAIN u.port : IsDigit(u.port[i]) THEN NumberOf(u.port) ELSE 80

(* encodeHtml, and what send connects to.                                  *)
Composed(u) ==
    [host |-> u.host, port |-> PortOf(u), secure |-> u.scheme = <<"https">>,
     target |-> u.path \o Optional("?", u.query),
     userinfo |-> IF u.user = <<>> /\ u.password = <<>> THEN <<>>
                  ELSE u.user \o <<":">> \o u.password]

--------------------------------------------------------------------------------
VARIABLES
    wanted,                (* parts of a URL, or a date for the service    *)
    rqPc,
    url, uri, request

rqVars == <<wanted, rqPc, url, uri, request>>

NoUri == [Service EXCEPT !.scheme = <<>>]
NoRequest == [target |-> <<>>]

RqTypeOK == /\ rqPc \in {"compose", "parse", "send", "sent", "threw"}
            /\ DOMAIN uri = DOMAIN Service /\ DOMAIN request \in {{"target"}, DOMAIN Composed(NoUri)}

RqInit ==
    /\ wanted \in [kind : {"url"}, parts : Urls] \cup [kind : {"date"}, date : QueryDates]
    /\ rqPc = "compose" /\ url = <<>> /\ uri = NoUri /\ request = NoRequest

Compose ==
    /\ rqPc = "compose" /\ rqPc' = "parse"
    /\ url' = IF wanted.kind = "url" THEN UrlText(wanted.parts) ELSE GivenDateRates(wanted.date)
    /\ UNCHANGED <<wanted, uri, request>>

(* Request's constructor.                                                  *)
Construct ==
    /\ rqPc = "parse"
    /\ IF HasScheme(url) THEN uri' = ParseUri(url) /\ rqPc' = "send"
       ELSE rqPc' = "threw" /\ UNCHANGED uri
    /\ UNCHANGED <<wanted, url, request>>

SendRequest ==
    /\ rqPc = "send" /\ rqPc' = "sent"
    /\ request' = Composed(uri)
    /\ UNCHANGED <<wanted, url, uri>>

RqNext == Compose \/ Construct \/ SendRequest

RqSpec == RqInit /\ [][RqNext]_rqVars

--------------------------------------------------------------------------------
(* Properties.                                                             *)

(* The request goes to the host and port that the URL names, and asks for  *)
(* its path and query with its user, whatever delimiters the later parts   *)
(* have; for a date it is the service that is asked, for that date.  It is *)
(* refused only without a scheme or for a text that is not a date.         *)
AskedFor ==
    IF wanted.kind = "url" THEN wanted.parts
    ELSE [Service EXCEPT !.query = DateQuery(wanted.date)]
DefaultPort == IF AskedFor.scheme = <<"https">> THEN 443 ELSE 80

RequestAsAsked ==
    /\ rqPc = "sent" =>
         /\ request.host = AskedFor.host /\ request.secure = (AskedFor.scheme = <<"https">>)
         /\ AskedFor.port = <<>> => request.port = DefaultPort
         /\ Range(AskedFor.port) \subseteq Range(DecimalDigits) /\ AskedFor.port # <<>> =>
              request.port = NumberOf(AskedFor.port)
         /\ request.target = (IF AskedFor.path = <<>> THEN <<"/">> ELSE AskedFor.path)
                             \o Optional("?", AskedFor.query)
         /\ request.userinfo = IF AskedFor.user = <<>> THEN <<>>
                               ELSE AskedFor.user \o <<":">> \o AskedFor.password
    /\ rqPc = "threw" =>
         IF wanted.kind = "url" THEN AskedFor.scheme \notin {<<s>> : s \in Schemes}
         ELSE ~IsValidDate(wanted.date)
================================================================================
