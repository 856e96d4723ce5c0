----------------------------- MODULE CommonTypes -----------------------------
(***************************************************************************)
(* What the objects of the trading client use of common_types.h.  A side   *)
(* of an order they hold is one of two.                                    *)
(***************************************************************************)
EXTENDS Integers

Sides == {"BUY", "SELL"}

sideToValue(side) == IF side = "BUY" THEN 1 ELSE -1
=============================================================================
