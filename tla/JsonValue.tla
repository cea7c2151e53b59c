------------------------------- MODULE JsonValue -------------------------------
(***************************************************************************)
(* The values of json::object (src/support/json.hpp).                      *)
(***************************************************************************)
EXTENDS Naturals, Sequences, FiniteSets, SequencesExt

CONSTANTS Strings,     (* string tokens                                    *)
          Literals     (* tokens of numbers, true, false and null          *)

ASSUME JsonTokens == Strings \cap Literals = {}

(* Values: a literal, an array of values, a set of named values.           *)
Value(type, token, elements, members) ==
    [type |-> type, token |-> token, elements |-> elements, members |-> members]

Null == Value("null", "", <<>>, {})
Literal(token) == Value("literal", token, <<>>, {})
Array(elements) == Value("array", "", elements, {})
Object(members) == Value("object", "", <<>>, members)

PushBack(array, v) == [array EXCEPT !.elements = Append(@, v)]
Assign(members, n, v) == {m \in members : m.name # n} \cup {[name |-> n, value |-> v]}
SetMember(object, n, v) == [object EXCEPT !.members = Assign(@, n, v)]
================================================================================
