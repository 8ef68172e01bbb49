------------------------------- MODULE MCLive -------------------------------
(***************************************************************************)
(* Liveness of the server and of the composition, for TLC.  A behaviour is *)
(* one of the server alone, which loses sockets without an event, or one   *)
(* of the composition, whose connections end with one.                     *)
(***************************************************************************)
EXTENDS MCRoomClients

VARIABLE alone

liveVars == <<allVars, alone>>

LiveInit == ClientInit /\ alone \in BOOLEAN

Alone(A)    == alone /\ A /\ UNCHANGED <<clientVars, alone>>
Together(A) == ~alone /\ A /\ UNCHANGED alone

LiveNext == Alone(Next) \/ Together(ClientNext)

LiveSpec ==
  /\ LiveInit /\ [][LiveNext]_liveVars
  /\ WF_liveVars(Alone(Sweep))
  /\ \A s \in Socket :
       /\ WF_liveVars(Together(ServerHandles(s)))
       /\ WF_liveVars(Together(LobbyTask(s) \/ DrainTask(s) \/ PumpUnplugs(s)))
=============================================================================
