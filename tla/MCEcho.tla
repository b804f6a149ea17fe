--------------------------------- MODULE MCEcho ---------------------------------
(* The two example programs, for TLC *)
EXTENDS Echo
================================================================================
