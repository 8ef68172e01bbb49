----------------------------- MODULE MCNetplay -----------------------------
(***************************************************************************)
(* Netplay for TLC: two players.                                           *)
(***************************************************************************)
EXTENDS Netplay

CONSTANTS p1, p2

TwoPlayers == {p1, p2}
=============================================================================
