-------------------------------- MODULE MCIOCore --------------------------------
(* Instances of IOCore for TLC; the .cfg files bound the calls of initialize() *)
(* and choose what may fail.                                                   *)
EXTENDS IOCore
================================================================================
