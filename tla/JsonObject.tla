------------------------------- MODULE JsonObject -------------------------------
(***************************************************************************)
(* json::object (src/support/json.hpp) as a document that is built and     *)
(* changed: an array is a map from indices to values, with holes where     *)
(* nothing was assigned, an object a map from names to values.             *)
(***************************************************************************)
EXTENDS JsonValue

CONSTANT MaxIndex      (* bound: indices of arrays                         *)

ASSUME JsonObjectConstants == MaxIndex \in Nat

VARIABLE doc

(* A value: as in JsonValue, but the elements are a function of the       *)
(* indices in use, and null has no token.                                  *)
Sparse(elements) == Array(elements)
NoElements == [i \in {} |-> Null]
Leaves == {Null} \cup {Literal(t) : t \in Strings}
Parts == Leaves \cup {Sparse(NoElements), Object({})}
                \cup {Sparse(1 :> v) : v \in Leaves}
                \cup {Object({[name |-> n, value |-> Null]}) : n \in Strings}

Indices(v) == IF v.type = "array" THEN DOMAIN v.elements ELSE {}

(* size(): one more than the greatest index.                               *)
Size(v) == IF v.type = "object" THEN Cardinality(v.members)
           ELSE IF Indices(v) = {} THEN 0 ELSE 1 + Max(Indices(v))

JoTypeOK == /\ doc.type \in {"null", "literal", "array", "object"}
            /\ Indices(doc) \subseteq 0..MaxIndex

JoInit == doc = Null

(* become_array, become_object: another type loses its contents.           *)
AsArray(v) == IF v.type = "array" THEN v ELSE Sparse(NoElements)
AsObject(v) == IF v.type = "object" THEN v ELSE Object({})

Put(v, i, part) ==
    Sparse([k \in {i} \cup Indices(v) |-> IF k = i THEN part ELSE v.elements[k]])

(* operator[] of an index, assigned to; a member of an object is chosen by *)
(* its place.                                                              *)
AssignIndex(i, part) ==
    IF doc.type = "object"
    THEN \E m \in doc.members : doc' = SetMember(doc, m.name, part)
    ELSE doc' = Put(doc, i, part)

AssignName(n, part) == doc' = SetMember(AsObject(doc), n, part)

JoPushBack(part) ==
    /\ Size(AsArray(doc)) <= MaxIndex
    /\ doc' = Put(doc, Size(AsArray(doc)), part)

(* Reading a hole before the last element fills it.                        *)
ReadIndex(i) ==
    /\ doc.type = "array" /\ i < Size(doc)
    /\ doc' = IF i \in Indices(doc) THEN doc ELSE Put(doc, i, Null)

(* Faulty variant: the other elements stay where they are.                 *)
ArrayItemErase(i) ==
    /\ doc.type = "array"
    /\ doc' = Sparse([j \in Indices(doc) \ {i} |-> doc.elements[j]])

(* array_item_remove: the elements after the index move down by one.       *)
ArrayItemRemove(i) ==
    /\ doc.type = "array"
    /\ LET erased == Indices(doc) \ {i}
           size == IF erased = {} THEN 0 ELSE 1 + Max(erased)
           moved == {j \in erased : j > i /\ j < size}
           final == {IF j \in moved THEN j - 1 ELSE j : j \in erased}
       IN doc' = Sparse([j \in final |-> IF j + 1 \in moved THEN doc.elements[j + 1]
                                                            ELSE doc.elements[j]])

KeyRemove(n) ==
    /\ doc.type = "object"
    /\ doc' = Object({m \in doc.members : m.name # n})

ClearDoc == doc' = Null

JoNext ==
    \/ \E i \in 0..MaxIndex : ReadIndex(i) \/ ArrayItemRemove(i)
    \/ \E part \in Parts :
         \/ \E i \in 0..MaxIndex : AssignIndex(i, part)
         \/ \E n \in Strings : AssignName(n, part)
         \/ JoPushBack(part)
    \/ \E n \in Strings : KeyRemove(n)
    \/ ClearDoc

JoSpec == JoInit /\ [][JoNext]_doc

--------------------------------------------------------------------------------
(* Properties.                                                             *)

(* The list an array stands for: null in its holes.                        *)
Listed(v) ==
    [k \in 1..Size(v) |-> IF k - 1 \in Indices(v) THEN v.elements[k - 1] ELSE Null]

(* A removal shortens the list by the element at the index and moves the   *)
(* others, holes included; when it takes the last one, the holes before it *)
(* go as well.                                                             *)
RemovalIsExact ==
    [][\A i \in 0..MaxIndex : ArrayItemRemove(i) /\ i < Size(doc) =>
         LET left == RemoveAt(Listed(doc), i + 1)
         IN IsPrefix(Listed(doc'), left) /\ (i + 1 < Size(doc) => Listed(doc') = left)
      ]_doc
================================================================================
