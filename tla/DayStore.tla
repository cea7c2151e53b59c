------------------------------- MODULE DayStore --------------------------------
(***************************************************************************)
(* What the storage (src/src/rates_storage.hpp) promises of the days that  *)
(* have rates: those it holds, and those its file holds.  RatesStorage,    *)
(* which finds a day by the text of its key, is shown to implement it;     *)
(* FetchLogic, whose workers share the storage, takes it at its word.      *)
(***************************************************************************)
CONSTANT Days

VARIABLES held, file

dsVars == <<held, file>>

DsInit == held = {} /\ file = {}

(* Rates of a day: no other day comes or goes.                             *)
Store(d) == held' = held \cup {d} /\ file' = file

(* The file gets all that is held at that moment, nothing of before.       *)
Save == file' = held /\ held' = held

(* Loading replaces what was held.                                         *)
Load == held' = file /\ file' = file

(* A file that is being rewritten, lost or damaged reads as empty.         *)
Lose == file' = {} /\ held' = held

DsNext == (\E d \in Days : Store(d)) \/ Save \/ Load \/ Lose

DsSpec == DsInit /\ [][DsNext]_dsVars
================================================================================
