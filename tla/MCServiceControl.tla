---------------------------- MODULE MCServiceControl ----------------------------
(* ServiceControl with small queues, for TLC.                              *)
EXTENDS ServiceControl, TLC
================================================================================
