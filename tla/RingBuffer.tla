------------------------------- MODULE RingBuffer -------------------------------
(***************************************************************************)
(* lins::ring_buffer<T, CAPACITY> (src/support/containers/ring_buffer.hpp).*)
(* Elements live in raw storage: a slot holds an object from its           *)
(* construction to its destruction, and only such a slot may be read,      *)
(* assigned or destroyed.                                                  *)
(***************************************************************************)
EXTENDS Integers, Sequences

CONSTANTS Values, Capacity

Dead == "dead"      (* no object in the slot                               *)

ASSUME RingBufferConstants == Capacity \in Nat \ {0} /\ Dead \notin Values

VARIABLES
    assignable,     (* whether T can be move-assigned                      *)
    buff,           (* the storage                                         *)
    pos, size,      (* pos_, size_                                         *)
    stuck           (* history: a value was pushed where pos_ stayed       *)

rbVars == <<assignable, buff, pos, size, stuck>>

Slots == 0..Capacity - 1
wrp_idx(i) == (pos + i) % Capacity
Contents == [i \in 1..size |-> buff[wrp_idx(i - 1)]]

RbTypeOK ==
    /\ assignable \in BOOLEAN /\ stuck \in BOOLEAN
    /\ buff \in [Slots -> Values \cup {Dead}]
    /\ pos \in Slots /\ size \in 0..Capacity

RbInit ==
    /\ assignable \in BOOLEAN
    /\ buff = [s \in Slots |-> Dead]
    /\ pos = 0 /\ size = 0
    /\ stuck = FALSE

(* Faulty variant: a full buffer is not noticed.                           *)
PushCopyAnyway(v) ==
    /\ buff' = [buff EXCEPT ![wrp_idx(size)] = v]
    /\ size' = size + 1
    /\ UNCHANGED <<assignable, pos, stuck>>

(* push_back(T const &), emplace_back.                                     *)
PushCopy(v) ==
    /\ IF size = Capacity
       THEN /\ buff' = [buff EXCEPT ![pos] = v]
            /\ pos' = wrp_idx(1)
            /\ UNCHANGED size
       ELSE /\ buff' = [buff EXCEPT ![wrp_idx(size)] = v]
            /\ size' = size + 1
            /\ UNCHANGED pos
    /\ UNCHANGED <<assignable, stuck>>

(* Faulty variant: the position never moves.                               *)
PushMoveInPlace(v) ==
    /\ IF size = Capacity
       THEN buff' = [buff EXCEPT ![pos] = v] /\ UNCHANGED <<pos, size, stuck>>
       ELSE /\ buff' = [buff EXCEPT ![wrp_idx(size)] = v]
            /\ size' = size + 1
            /\ UNCHANGED <<pos, stuck>>
    /\ UNCHANGED assignable

(* push_back(T &&): for a T that can be moved but not assigned the branch  *)
(* returns before pos_ is moved.                                           *)
PushMove(v) ==
    /\ IF size = Capacity
       THEN /\ buff' = [buff EXCEPT ![pos] = v]
            /\ pos' = IF assignable THEN wrp_idx(1) ELSE pos
            /\ stuck' = (stuck \/ ~assignable)
            /\ UNCHANGED size
       ELSE /\ buff' = [buff EXCEPT ![wrp_idx(size)] = v]
            /\ size' = size + 1
            /\ UNCHANGED <<pos, stuck>>
    /\ UNCHANGED assignable

RbPopFront ==
    /\ size > 0
    /\ buff' = [buff EXCEPT ![pos] = Dead]
    /\ pos' = wrp_idx(1)
    /\ size' = size - 1
    /\ UNCHANGED <<assignable, stuck>>

(* Faulty variant: the slot after the last element is destroyed.           *)
PopBackOffByOne ==
    /\ size > 0
    /\ buff' = [buff EXCEPT ![wrp_idx(size)] = Dead]
    /\ size' = size - 1
    /\ UNCHANGED pos
    /\ UNCHANGED <<assignable, stuck>>

RbPopBack ==
    /\ size > 0
    /\ buff' = [buff EXCEPT ![wrp_idx(size - 1)] = Dead]
    /\ size' = size - 1
    /\ UNCHANGED pos
    /\ UNCHANGED <<assignable, stuck>>

(* Also what is left of a buffer that is moved from.                       *)
RbClear ==
    /\ buff' = [s \in Slots |-> IF \E i \in 0..size - 1 : s = wrp_idx(i) THEN Dead ELSE buff[s]]
    /\ pos' = 0 /\ size' = 0
    /\ UNCHANGED <<assignable, stuck>>

(* A copied or moved buffer holds the same elements from its first slot    *)
(* on; here it takes the place of the one it was made from.                *)
Copy ==
    /\ buff' = [s \in Slots |-> IF s < size THEN Contents[s + 1] ELSE Dead]
    /\ pos' = 0
    /\ UNCHANGED size
    /\ UNCHANGED <<assignable, stuck>>

RbNext == \/ \E v \in Values : PushCopy(v) \/ PushMove(v)
          \/ RbPopFront \/ RbPopBack \/ RbClear \/ Copy

RbSpec == RbInit /\ [][RbNext]_rbVars

--------------------------------------------------------------------------------
(* Properties.                                                             *)

(* Exactly the slots of the window hold objects: no object is destroyed    *)
(* twice, leaked or read after its end when the window wraps round.        *)
SlotsHoldWindow ==
    \A s \in Slots : buff[s] # Dead <=> \E i \in 0..size - 1 : s = wrp_idx(i)

Window == INSTANCE SlidingWindow WITH window <- Contents

(* The buffer implements the sliding window, as long as no value was       *)
(* pushed into a full buffer of a type that cannot be assigned.            *)
KeepsLastValues ==
    Window!WindowInit /\ [][~stuck' => Window!WindowNext \/ UNCHANGED Contents]_rbVars
================================================================================
