----------------------------- MODULE MCFetchLogic -----------------------------
(* FetchLogic on small sets, for TLC.                                      *)
EXTENDS FetchLogic, TLC

RetrySymmetry == Permutations(Retry)
================================================================================
