------------------------------- MODULE MCRunStop -------------------------------
(* Three threads, enough for two runners asleep at once while a third stops,  *)
(* and for two stop() calls that overlap a run().                             *)
EXTENDS RunStop
================================================================================
