---------------------------- MODULE RoomPromise ----------------------------
(***************************************************************************)
(* What a room promises its members, as signaling.proto and index.ts state *)
(* it, without sockets, records, stamps or messages:                       *)
(*                                                                         *)
(*   - ready is consent to the room as it stands: whatever changes who is  *)
(*     in it clears everyone's;                                            *)
(*   - a session is only ever linked by the consent of all its members, of *)
(*     exactly the membership it links, two or more;                       *)
(*   - a wireless room links the moment it can, a cable room when asked;   *)
(*   - a member of the standing link that withdraws its consent voids it,  *)
(*     so that a wireless room links the same membership once more.        *)
(***************************************************************************)
CONSTANTS Socket, Code

VARIABLES
  members,   \* who sits in the room of each code, in no order
  ready,     \* the members that consent to this membership
  linked,    \* the membership of the standing link, {} if there is none
  wireless   \* the link peripheral of the room

vars == <<members, ready, linked, wireless>>

Quorate(M, R) == (\E s, t \in M : s # t) /\ R = M

Init ==
  /\ members = [c \in Code |-> {}]
  /\ ready = [c \in Code |-> {}]
  /\ linked = [c \in Code |-> {}]
  /\ wireless = [c \in Code |-> FALSE]

Outside(s) == \A c \in Code : s \notin members[c]

Open(c, s) ==
  /\ members[c] = {} /\ Outside(s)
  /\ members' = [members EXCEPT ![c] = {s}]
  /\ ready' = [ready EXCEPT ![c] = {}]
  /\ linked' = [linked EXCEPT ![c] = {}]
  /\ \E w \in BOOLEAN : wireless' = [wireless EXCEPT ![c] = w]

Enter(c, s) ==
  /\ members[c] # {} /\ Outside(s)
  /\ members' = [members EXCEPT ![c] = @ \cup {s}]
  /\ ready' = [ready EXCEPT ![c] = {}]
  /\ UNCHANGED <<linked, wireless>>

Exit(c, s) ==
  /\ s \in members[c]
  /\ members' = [members EXCEPT ![c] = @ \ {s}]
  /\ ready' = [ready EXCEPT ![c] = {}]
  /\ linked' = [linked EXCEPT ![c] = IF members[c] = {s} THEN {} ELSE @]
  /\ wireless' = [wireless EXCEPT ![c] = IF members[c] = {s} THEN FALSE ELSE @]

\* The sweep takes whole rooms away.
Collect(C) ==
  /\ members' = [c \in Code |-> IF c \in C THEN {} ELSE members[c]]
  /\ ready' = [c \in Code |-> IF c \in C THEN {} ELSE ready[c]]
  /\ linked' = [c \in Code |-> IF c \in C THEN {} ELSE linked[c]]
  /\ wireless' = [c \in Code |-> IF c \in C THEN FALSE ELSE wireless[c]]

Assert(c, s) ==
  LET agreed == ready[c] \cup {s}
      must   == wireless[c] /\ Quorate(members[c], agreed) /\ linked[c] # members[c]
  IN /\ s \in members[c]
     /\ ready' = [ready EXCEPT ![c] = agreed]
     /\ linked' = [linked EXCEPT ![c] = IF must THEN members[c] ELSE @]
     /\ UNCHANGED <<members, wireless>>

Withdraw(c, s) ==
  /\ s \in members[c]
  /\ ready' = [ready EXCEPT ![c] = @ \ {s}]
  /\ linked' = [linked EXCEPT ![c] = IF s \in @ THEN {} ELSE @]
  /\ UNCHANGED <<members, wireless>>

\* A cable room may link the same membership up again and again.
LinkUp(c) ==
  /\ ~wireless[c]
  /\ Quorate(members[c], ready[c])
  /\ linked' = [linked EXCEPT ![c] = members[c]]
  /\ UNCHANGED <<members, ready, wireless>>

Next ==
  \/ \E c \in Code, s \in Socket :
       Open(c, s) \/ Enter(c, s) \/ Exit(c, s) \/ Assert(c, s) \/ Withdraw(c, s)
  \/ \E c \in Code : LinkUp(c)
  \/ \E C \in SUBSET Code : Collect(C)

Spec == Init /\ [][Next]_vars
=============================================================================
