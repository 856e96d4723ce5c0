--------------------------- MODULE MCMEOrderBook ---------------------------
(***************************************************************************)
(* MEOrderBook for model checking: the clients are interchangeable, since  *)
(* the book only compares their ids.                                       *)
(***************************************************************************)
EXTENDS MEOrderBook, TLC

Symmetry == Permutations(Clients)
=============================================================================
