---------------------------- MODULE MCAsyncSocket ----------------------------
(* Instances of AsyncSocket for TLC; the .cfg files choose sockets, operations *)
(* and what the program and the system may do.                                 *)
EXTENDS AsyncSocket, TLC

\* No definition of AsyncSocket distinguishes two sockets, operations or clients;
\* used for safety only.
Symmetry == Permutations(Sockets) \cup Permutations(Ops) \cup Permutations(Clients)
==============================================================================
