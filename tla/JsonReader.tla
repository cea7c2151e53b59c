------------------------------- MODULE JsonReader -------------------------------
(***************************************************************************)
(* object_deserializer (src/support/json.hpp), the JSON reader of the      *)
(* builds without the vendored parser: it takes the tokens of a document   *)
(* one by one and keeps a stack of the items that are open.  Its tokens    *)
(* are those of JsonTokenizer; all literals but strings are one token, as  *)
(* what they are read as is all that differs.                              *)
(***************************************************************************)
EXTENDS JsonValue

CONSTANT MaxTokens     (* bound: tokens read                               *)

Signs == {"[", "]", "{", "}", ":", ","}
Tokens == Strings \cup Literals \cup Signs
ValueTokens == Strings \cup Literals \cup {"[", "{"}     (* what a value begins with *)

ASSUME JsonReaderConstants ==
    (Strings \cup Literals) \cap Signs = {} /\ MaxTokens \in Nat

VARIABLES
    jrStack,       (* stack_: items with a value, a name, a phase, closed  *)
    next,          (* next_list_, as the tokens it admits                  *)
    thrown,        (* a token was refused                                  *)
    jrTokens       (* history: the tokens read                             *)

jrVars == <<jrStack, next, thrown, jrTokens>>

Item(obj, name, phase) == [obj |-> obj, name |-> name, phase |-> phase, closed |-> FALSE]

JrInit ==
    /\ jrStack = <<Item(Null, "", 0)>>
    /\ next = ValueTokens
    /\ thrown = FALSE
    /\ jrTokens = <<>>

Top(s) == s[Len(s)]
Pop(s) == SubSeq(s, 1, Len(s) - 1)
ReplaceTop(s, item) == Append(Pop(s), item)
With(s, v) == ReplaceTop(s, [Top(s) EXCEPT !.obj = v])

--------------------------------------------------------------------------------
(* collapse_top_down: closed items become part of the one below.           *)
CloseLast(s) == IF Len(s) = 1 THEN <<[s[1] EXCEPT !.closed = TRUE]>> ELSE s

RECURSIVE Collapse(_)
Collapse(s) ==
    IF Len(s) = 1 \/ ~Top(s).closed THEN s
    ELSE LET below == Pop(s)
             host == Top(below).obj
         IN Collapse(CloseLast(With(below,
              IF host.type = "object" /\ Top(s).phase = 3
              THEN SetMember(host, Top(s).name, Top(s).obj)
              ELSE IF host.type = "array" THEN PushBack(host, Top(s).obj)
              ELSE Top(s).obj)))

(* A refused token: an exception.                                          *)
Refuse == thrown' = TRUE /\ UNCHANGED <<jrStack, next>>

Accept(s, admitted) ==
    /\ jrStack' = Collapse(s)
    /\ next' = admitted
    /\ UNCHANGED thrown

(* A string or another literal: an element, a name, a value, the document. *)
ConsumeLiteral(token) ==
    LET top == Top(jrStack) IN
    CASE top.obj.type = "array" ->
           Accept(With(jrStack, PushBack(top.obj, Literal(token))), {",", "]"})
      [] top.obj.type = "object" ->
           Accept(Append(jrStack, Item(Null, token, 1)), {":"})
      [] OTHER ->
           Accept(ReplaceTop(jrStack, [top EXCEPT !.obj = Literal(token), !.closed = TRUE,
                                                  !.phase = IF @ = 2 THEN 3 ELSE @]),
                  IF top.phase = 2 THEN {"}", "]", ","} ELSE {})

(* "{", "[": an item that waits for its value is closed by what is pushed. *)
ConsumeOpening(empty, admitted) ==
    LET top == Top(jrStack)
        below == IF top.phase = 2
                 THEN ReplaceTop(jrStack, [top EXCEPT !.phase = 3, !.closed = TRUE])
                 ELSE jrStack
    IN Accept(Append(below, Item(empty, "", 0)), admitted)

(* Faulty variant: the type of the item that is closed is not looked at.   *)
ConsumeAnyClosing(type) ==
    Accept(ReplaceTop(jrStack, [Top(jrStack) EXCEPT !.closed = TRUE]),
           IF Len(jrStack) = 2 THEN {} ELSE {"]", "}", ","})

ConsumeClosing(type) ==
    IF Top(jrStack).obj.type # type
    THEN Refuse
    ELSE Accept(ReplaceTop(jrStack, [Top(jrStack) EXCEPT !.closed = TRUE]),
                IF Len(jrStack) = 2 THEN {} ELSE {"]", "}", ","})

ConsumeColon ==
    IF Top(jrStack).phase # 1
    THEN Refuse
    ELSE Accept(ReplaceTop(jrStack, [Top(jrStack) EXCEPT !.phase = 2]), ValueTokens)

(* What may follow a comma includes the end of the array or object.        *)
ConsumeComma ==
    CASE Top(jrStack).obj.type = "object" -> Accept(jrStack, Strings \cup {"}"})
      [] Top(jrStack).obj.type = "array" -> Accept(jrStack, ValueTokens \cup {"]"})
      [] OTHER -> Refuse

Consume(token) ==
    /\ ~thrown /\ Len(jrTokens) < MaxTokens
    /\ jrTokens' = Append(jrTokens, token)
    /\ IF token \notin next \/ (Len(jrStack) = 1 /\ Top(jrStack).closed)
       THEN Refuse
       ELSE CASE token \in Strings \cup Literals -> ConsumeLiteral(token)
              [] token = "{" -> ConsumeOpening(Object({}), Strings \cup {"}"})
              [] token = "[" -> ConsumeOpening(Array(<<>>), ValueTokens \cup {"]"})
              [] token = "}" -> ConsumeClosing("object")
              [] token = "]" -> ConsumeClosing("array")
              [] token = ":" -> ConsumeColon
              [] token = "," -> ConsumeComma

JrNext == \E token \in Tokens : Consume(token)

JrSpec == JrInit /\ [][JrNext]_jrVars

(* harvest_result, whether the document was complete or not.               *)
Harvest == Top(jrStack).obj

--------------------------------------------------------------------------------
(* The grammar of JSON, with a comma allowed after the last element.       *)

(* The values a sequence of tokens stands for: one, or none.               *)
RECURSIVE Denotes(_), Elements(_), Members(_, _)

Inner(ts) == SubSeq(ts, 2, Len(ts) - 1)
Enclosed(ts, left, right) == Len(ts) >= 2 /\ Head(ts) = left /\ Last(ts) = right

Denotes(ts) ==
    IF Len(ts) = 1 THEN {Literal(t) : t \in {Head(ts)} \ Signs}
    ELSE IF Enclosed(ts, "[", "]") THEN {Array(es) : es \in Elements(Inner(ts))}
    ELSE IF Enclosed(ts, "{", "}") THEN {Object(ms) : ms \in Members(Inner(ts), {})}
    ELSE {}

(* Where the first element or member of a list ends: before a comma or at  *)
(* the end of the list.                                                    *)
Cuts(ts) == {k \in 1..Len(ts) : k = Len(ts) \/ ts[k + 1] = ","}

Elements(ts) ==
    IF ts = <<>> THEN {<<>>}
    ELSE UNION {{<<v>> \o rest : v \in Denotes(SubSeq(ts, 1, k)),
                                 rest \in Elements(SubSeq(ts, k + 2, Len(ts)))} : k \in Cuts(ts)}

Members(ts, before) ==
    IF ts = <<>> THEN {before}
    ELSE IF Len(ts) < 3 \/ ts[1] \notin Strings \/ ts[2] # ":" THEN {}
    ELSE UNION {UNION {Members(SubSeq(ts, k + 2, Len(ts)), Assign(before, ts[1], v)) :
                         v \in Denotes(SubSeq(ts, 3, k))} : k \in Cuts(ts) \ {1, 2}}

(* Whether a document begins with ts: if one does, then also one that goes *)
(* on with at most one member or value and the brackets that are missing.  *)
Closers(ts) ==
    FoldLeft(LAMBDA open, t : CASE t = "[" -> <<"]">> \o open
                                [] t = "{" -> <<"}">> \o open
                                [] t \in {"]", "}"} /\ open # <<>> -> Tail(open)
                                [] OTHER -> open,
             <<>>, ts)

Viable(ts) ==
    LET one == CHOOSE t \in Strings : TRUE IN
    \E filler \in {<<>>, <<one>>, <<":", one>>} :
        Denotes(ts \o filler \o Closers(ts)) # {}

--------------------------------------------------------------------------------
(* Properties.                                                             *)

Complete == Len(jrStack) = 1 /\ Top(jrStack).closed

JrTypeOK ==
    /\ Len(jrStack) >= 1
    /\ \A i \in DOMAIN jrStack : jrStack[i].phase \in 0..3
    /\ next \subseteq Tokens
    /\ thrown \in BOOLEAN

(* A document that is read to its end has the value the grammar gives it,  *)
(* however its arrays and objects are nested and its names repeated; no    *)
(* document is taken for an incomplete one; and a token is refused only    *)
(* where no document could go on with it.                                  *)
ReadsJson ==
    /\ (~thrown /\ Complete) => Denotes(jrTokens) = {Harvest}
    /\ Denotes(jrTokens) # {} => Complete
    /\ thrown => ~Viable(jrTokens)
================================================================================
