------------------------------- MODULE MCMesh -------------------------------
(***************************************************************************)
(* Mesh for TLC, for three members.  Behaviours do not begin with the      *)
(* first merge but where the second is about to start: everyone is through *)
(* with the first, or 2 is not.  Both are states that Spec reaches (the    *)
(* first with a failure counted, of which another is allowed here).        *)
(***************************************************************************)
EXTENDS Mesh

\* Everyone has given up the first merge and asked again, and the server has
\* broadcast the second.
AllAgain ==
  /\ merges = 2 /\ asks = {} /\ upsets = 0
  /\ inbox = [p \in Member |-> <<Starting>>]
  /\ phase = [p \in Member |-> "idle"]
  /\ edge = [p \in Member |-> [q \in Member |-> FreshEdge]]
  /\ mail = [p \in Member |-> [q \in Member |-> <<>>]]

\* 1 and 3 failed and asked again.  2 goes on with the first merge: it has 1's
\* offer, and an edge to 3 that was up and whose end it has not noticed.
TwoAgain ==
  /\ merges = 1 /\ asks = {1, 3} /\ upsets = MaxUpsets
  /\ inbox = [p \in Member |-> <<>>]
  /\ phase = [p \in Member |-> IF p = 2 THEN "build" ELSE "idle"]
  /\ edge = [p \in Member |-> [q \in Member |->
               CASE p = 2 /\ q = 1 -> [FreshEdge EXCEPT !.remote = 1, !.told = TRUE]
                 [] p = 2 /\ q = 3 -> [FreshEdge EXCEPT !.remote = 1,
                                                        !.open = TRUE, !.done = TRUE]
                 [] OTHER -> FreshEdge]]
  /\ mail = [p \in Member |-> [q \in Member |->
               IF p = 2 /\ q = 3 THEN <<End>> ELSE <<>>]]

MeshInit ==
  /\ AllAgain \/ TwoAgain
  /\ merge = [p \in Member |-> 1] /\ stray = [p \in Member |-> 0]
  /\ departed = [p \in Member |-> {}]
  /\ boots = [p \in Member |-> [q \in Member |-> 0]]

MeshLive ==
  /\ MeshInit /\ [][Next]_vars
  /\ \A p \in Member :
       WF_vars(Lobby(p) \/ Reads(p) \/ Exchanges(p) \/ Breaks(p))
=============================================================================
