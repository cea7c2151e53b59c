---------------------------- MODULE MCCommandQueue ----------------------------
(* CommandQueue on small sets, for TLC.                                    *)
EXTENDS CommandQueue, TLC

(* Producers and workers are interchangeable; jobs are not (some are       *)
(* urgent).                                                                *)
ThreadSymmetry == Permutations(Producers) \cup Permutations(Workers)
================================================================================
