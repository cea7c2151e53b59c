---------------------------- MODULE JsonSerializer ----------------------------
(***************************************************************************)
(* serialize of json::object (src/support/json.hpp): how the document of   *)
(* JsonObject is saved; JsonReader says what its tokens are read as.       *)
(***************************************************************************)
EXTENDS JsonReader, JsonObject

CONSTANT NullToken     (* what null is written as                          *)

ASSUME JsonSerializerConstants == NullToken \in Literals

(* serialize_actual, as the tokens it writes: a comma after each element   *)
(* but the last, null in the holes.                                        *)
Separated(parts) ==
    FlattenSeq([k \in DOMAIN parts |-> parts[k] \o (IF k < Len(parts) THEN <<",">> ELSE <<>>)])

MembersInOrder(v) == SetToSeq(v.members)

(* Faulty variant: holes are skipped.                                      *)
RECURSIVE SerializeSkippingHoles(_)
SerializeSkippingHoles(v) ==
    CASE v.type = "null" -> <<NullToken>>
      [] v.type = "literal" -> <<v.token>>
      [] v.type = "array" ->
           <<"[">> \o Separated([k \in 1..Size(v) |->
                         IF k - 1 \in Indices(v) THEN SerializeSkippingHoles(v.elements[k - 1])
                                                 ELSE <<>>])
                   \o <<"]">>
      [] v.type = "object" ->
           <<"{">> \o Separated([k \in DOMAIN MembersInOrder(v) |->
                         LET m == MembersInOrder(v)[k]
                         IN <<m.name, ":">> \o SerializeSkippingHoles(m.value)]) \o <<"}">>

RECURSIVE Serialize(_)
Serialize(v) ==
    CASE v.type = "null" -> <<NullToken>>
      [] v.type = "literal" -> <<v.token>>
      [] v.type = "array" ->
           <<"[">> \o Separated([k \in 1..Size(v) |->
                         IF k - 1 \in Indices(v) THEN Serialize(v.elements[k - 1])
                                                 ELSE <<NullToken>>])
                   \o <<"]">>
      [] v.type = "object" ->
           <<"{">> \o Separated([k \in DOMAIN MembersInOrder(v) |->
                         LET m == MembersInOrder(v)[k]
                         IN <<m.name, ":">> \o Serialize(m.value)]) \o <<"}">>

--------------------------------------------------------------------------------
(* Properties.                                                             *)

(* The value without holes that a document stands for.                     *)
RECURSIVE Dense(_)
Dense(v) ==
    CASE v.type = "null" -> Literal(NullToken)
      [] v.type = "literal" -> v
      [] v.type = "array" ->
           Array([k \in 1..Size(v) |-> IF k - 1 \in Indices(v) THEN Dense(v.elements[k - 1])
                                                              ELSE Literal(NullToken)])
      [] v.type = "object" ->
           Object({[name |-> m.name, value |-> Dense(m.value)] : m \in v.members})

(* However a document was built - assignments beyond its end, removals     *)
(* among holes, changes of type - what is saved is read back as the same   *)
(* document, with null in its holes.                                       *)
RoundTrip == Denotes(Serialize(doc)) = {Dense(doc)}
================================================================================
