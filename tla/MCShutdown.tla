------------------------------- MODULE MCShutdown -------------------------------
(* Sockets on a core, for TLC; the .cfg files choose their number and what may fail. *)
EXTENDS Shutdown
================================================================================
