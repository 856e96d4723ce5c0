---------------------------- MODULE MCOrderServer ----------------------------
(***************************************************************************)
(* OrderServer for TLC.  Clients and sockets are interchangeable: no       *)
(* safety property names one of them.                                      *)
(***************************************************************************)
EXTENDS OrderServer, TLC

Symmetry == Permutations(Clients) \cup Permutations(Sockets)
=============================================================================
