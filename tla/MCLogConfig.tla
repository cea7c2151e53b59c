------------------------------ MODULE MCLogConfig ------------------------------
(* LogConfig on small sets, for TLC.                                       *)
EXTENDS LogConfig
================================================================================
