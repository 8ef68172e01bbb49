------------------------------ MODULE MCSaves -------------------------------
(***************************************************************************)
(* Saves for TLC: two games whose fresh carts persist under different      *)
(* names.                                                                  *)
(***************************************************************************)
EXTENDS Saves, TLC

CONSTANTS g1, g2

DisplayNames == (g1 :> "a") @@ (g2 :> "b")
=============================================================================
