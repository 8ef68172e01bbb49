--------------------------- MODULE MCRoomClients ---------------------------
(***************************************************************************)
(* RoomClients for TLC.  The ROMs each player runs and holds are given by  *)
(* position in the order the configuration lists the sockets.              *)
(***************************************************************************)
EXTENDS RoomClients, TLC

CONSTANTS s1, s2, r1, r2

\* Everyone runs a ROM of their own and holds both.
MCOwnRom == s1 :> r1 @@ s2 :> r2
MCBoth   == s1 :> {r1, r2} @@ s2 :> {r1, r2}

\* Only s1 lacks the other's ROM.
MCMissing == s1 :> {r1} @@ s2 :> {r1, r2}

\* The messages of the last server event are also in flight.
ClientView == <<room, sock, alarm, clientVars>>
=============================================================================
