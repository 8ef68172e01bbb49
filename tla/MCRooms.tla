------------------------------ MODULE MCRooms ------------------------------
(***************************************************************************)
(* Rooms for TLC: three interchangeable sockets.                           *)
(***************************************************************************)
EXTENDS Rooms, TLC

Symmetry == Permutations(Socket) \cup Permutations(Code) \cup Permutations(Rom)

\* The messages of the last step are read by the action properties only, and
\* the routing of a socket that is gone by nothing.
StateView ==
  <<room, alarm, [s \in Socket |-> IF sock[s].link = "gone" THEN <<sock[s].code>>
                                  ELSE <<sock[s].code, sock[s].link, sock[s].session>>]>>
=============================================================================
