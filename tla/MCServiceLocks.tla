----------------------------- MODULE MCServiceLocks -----------------------------
(* ServiceLocks on small sets, for TLC.                                    *)
EXTENDS ServiceLocks, TLC

RetrySymmetry == Permutations(RetryFetchers)
================================================================================
