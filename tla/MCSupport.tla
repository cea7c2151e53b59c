------------------------------- MODULE MCSupport -------------------------------
(* The components that share no state, for TLC: each behaviour is one of   *)
(* the component chosen by "subject", while the others stay at their start.*)
EXTENDS LogConfig, RwLock, RingBuffer, HttpReader, JsonSerializer, JsonTokenizer, DeferredQueue,
        MCText, TLC

CONSTANTS s1, s2, n1, n2, t1, t2, t3, v1, v2, j1, j2, p1, p2

VARIABLE subject

MCSchedules == {s1, s2}
MCLogNames == {n1, n2}
MCLoggers == {t1}
MCCallers == {t1, t2, t3}
MCValues == {v1, v2}
MCTimers == {j1, j2}
MCProcessors == {p1, p2}
MCBodies == {<<>>, <<97>>, <<13, 10>>, <<97, 13, 10>>, <<13, 10, 48, 13, 10>>}
MCAlphabets == {{"\"", "\\", "x", ","}, {"/", "*", "\n", " ", "1"}, {"1", ".", "e", "-", ","},
                {"n", "u", "l", " "}, {"t", "r", "u", "e", ":"}, {"f", "a", "l", "s", "e"}}

Subjects == {"log", "lock", "ring", "http", "reader", "object", "tokenizer", "deferred",
             "dates", "rates", "json", "fields", "request"}

MCInit ==
    /\ subject \in Subjects
    /\ subject = "http" \/ (framing = "close" /\ sent = <<>>)
    /\ HrInit
    /\ LcInit /\ RwInit /\ RbInit /\ JrInit /\ JoInit /\ JtInit /\ DqInit
    /\ subject = "lock" \/ ~prefersWriters
    /\ subject = "ring" \/ assignable
    /\ subject = "tokenizer" \/ "n" \in chars
    /\ RsInit
    /\ IF subject = "dates" THEN DtInit ELSE DatesIdle
    /\ IF subject = "json" THEN JxInit ELSE JsonIdle
    /\ IF subject = "fields" THEN HfInit ELSE FieldsIdle
    /\ IF subject = "request" THEN RqInit ELSE RequestIdle

Still(owner, vs) == IF subject = owner THEN TRUE ELSE UNCHANGED vs

MCNext ==
    /\ \/ subject = "log" /\ LcNext
       \/ subject = "lock" /\ RwNext
       \/ subject = "ring" /\ RbNext
       \/ subject = "http" /\ HrNext
       \/ subject = "reader" /\ JrNext
       \/ subject = "object" /\ JoNext
       \/ subject = "tokenizer" /\ JtNext
       \/ subject = "deferred" /\ DqNext
       \/ subject = "dates" /\ DtNext
       \/ subject = "rates" /\ RsNext
       \/ subject = "json" /\ JxNext
       \/ subject = "fields" /\ HfNext
       \/ subject = "request" /\ RqNext
    /\ Still("log", lcVars) /\ Still("lock", rwVars) /\ Still("ring", rbVars)
    /\ Still("http", hrVars) /\ Still("reader", jrVars) /\ Still("object", doc)
    /\ Still("tokenizer", jtVars) /\ Still("deferred", dqVars)
    /\ Still("dates", dtVars) /\ Still("rates", rsVars) /\ Still("json", jxVars)
    /\ Still("fields", hfVars) /\ Still("request", rqVars)
    /\ UNCHANGED subject

(* Threads run; the log's lock is fair enough for the updater that asks    *)
(* for it again and again; log statements end.                             *)
MCFairness ==
    /\ WF_lcVars(subject = "log" /\ UpdaterStep) /\ SF_lcVars(subject = "log" /\ SetLog)
    /\ \A t \in Loggers : WF_lcVars(subject = "log" /\ EndLine(t))
    /\ \A t \in Callers : WF_rwVars(subject = "lock" /\ RwProgress(t))

mcVars == <<subject, lcVars, rwVars, rbVars, hrVars, jrVars, doc, jtVars, dqVars,
            dtVars, rsVars, jxVars, hfVars, rqVars>>

MCSpec == MCInit /\ [][MCNext]_mcVars /\ MCFairness

MCTypeOK == /\ LcTypeOK /\ RwTypeOK /\ RbTypeOK /\ HrTypeOK
            /\ JrTypeOK /\ JoTypeOK /\ JtTypeOK /\ DqTypeOK
            /\ DtTypeOK /\ RsTypeOK /\ JxTypeOK /\ HfTypeOK /\ RqTypeOK

(* The fallback path from a text to a value: its tokens are the text, and  *)
(* what the reader makes of tokens is what the grammar of JSON says.       *)
FallbackReadsJson == TokensAreText /\ ReadsJson
================================================================================
