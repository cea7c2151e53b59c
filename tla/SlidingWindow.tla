------------------------------ MODULE SlidingWindow ------------------------------
(***************************************************************************)
(* What lins::ring_buffer (src/support/containers/ring_buffer.hpp)         *)
(* promises: the last Capacity values pushed, oldest first.  RingBuffer    *)
(* is shown to implement this module.                                      *)
(***************************************************************************)
EXTENDS Naturals, Sequences

CONSTANTS Values, Capacity

VARIABLE window

WindowInit == window = <<>>

Push(v) == window' = IF Len(window) = Capacity THEN Append(Tail(window), v)
                                               ELSE Append(window, v)

PopFront == window # <<>> /\ window' = Tail(window)

PopBack == window # <<>> /\ window' = SubSeq(window, 1, Len(window) - 1)

Clear == window' = <<>>

WindowNext == (\E v \in Values : Push(v)) \/ PopFront \/ PopBack \/ Clear

WindowSpec == WindowInit /\ [][WindowNext]_window
================================================================================
