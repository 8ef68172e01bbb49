------------------------------- MODULE Rooms -------------------------------
(***************************************************************************)
(* The signaling server: the one Durable Object that holds every room      *)
(* (gbaroll-signaling-worker/src/index.ts, class Rooms).                   *)
(*                                                                         *)
(* A socket is accepted, enters at most one room, and from then on its     *)
(* attachment names that room; every merge stamps the attachment of every  *)
(* member with the relay routing of that merge (its index and the socket   *)
(* ids in player order).  The stored record of a room holds the roster,    *)
(* the ready bits and the ids of the last merge.                           *)
(*                                                                         *)
(* One action is one event the runtime delivers to the object, executed to *)
(* the end: a Durable Object's input gate keeps every other event out      *)
(* while a handler awaits its storage, so handlers do not interleave.      *)
(*                                                                         *)
(* Positions are 1-based here and 0-based in the code: the code's          *)
(* "position 0" is position 1.                                             *)
(***************************************************************************)
EXTENDS Integers, Sequences, SequencesExt

CONSTANTS
  Socket,         \* socket ids (one random UUID per accepted connection)
  Code,           \* room codes
  Rom,            \* the CRC32s players name when they enter
  Payload,        \* what a relayed signal carries, opaque to the server
  CableSeats,     \* maxPlayers(false)
  WirelessSeats,  \* maxPlayers(true)
  MaxSeats,       \* bound: how many seats a room hands out over its life
  NoCode          \* an attachment that names no room

ASSUME NoCodeAssumption == NoCode \notin Code
ASSUME SeatsAssumption ==
  CableSeats \in Nat \ {0} /\ WirelessSeats \in Nat \ {0} /\ MaxSeats \in Nat

VARIABLES
  room,   \* the stored rooms: a function on the codes in use
  sock,   \* every socket: its link state and its attachment
  alarm,  \* the sweep alarm is armed
  sent    \* what the last event sent to each socket, in order

vars == <<room, sock, alarm, sent>>

-----------------------------------------------------------------------------
(* Data *)

NoSession == [idx |-> 0, peers |-> <<>>]
NoMerge   == <<>>

Player == [id : Socket, ready : BOOLEAN, rom : Rom, seat : Nat]
Room   == [players : Seq(Player), nextSeat : Nat, wireless : BOOLEAN,
           lastMerge : Seq(Socket), expired : BOOLEAN]
Session == [idx : Nat, peers : Seq(Socket)]

\* "open" is a socket both sides use; "closing" one the server has closed or
\* whose error event came first, still listed and still able to deliver what
\* was in flight; "broken" is like it, but out of its room with an attachment
\* that could not be cleared; "gone" is one the runtime no longer lists.
Link == {"new", "open", "closing", "broken", "gone"}
Attached == [link : Link, code : Code \cup {NoCode}, session : Session]

Ids(r)         == [i \in DOMAIN r.players |-> r.players[i].id]
In(r, s)       == \E i \in DOMAIN r.players : r.players[i].id = s
Position(r, s) == CHOOSE i \in DOMAIN r.players : r.players[i].id = s
AllReady(r)    == \A i \in DOMAIN r.players : r.players[i].ready
Unready(ps)    == [i \in DOMAIN ps |-> [ps[i] EXCEPT !.ready = FALSE]]
Full(r) == Len(r.players) >= (IF r.wireless THEN WirelessSeats ELSE CableSeats)

\* getWebSockets lists the socket.  It may still deliver messages and events:
\* no handler asks what state the socket of a message is in.
Speaking(s) == sock[s].link \in {"open", "closing", "broken"}

\* locate: the attachment's room exists and still lists the socket.  Records of
\* older deploys, whose missing fields getRoom fills in, are left out.
Placed(s) == sock[s].code \in DOMAIN room /\ In(room[sock[s].code], s)

\* storage.put and storage.delete
Put(c, r) == [d \in DOMAIN room \cup {c} |-> IF d = c THEN r ELSE room[d]]
Delete(C) == [d \in DOMAIN room \ C |-> room[d]]

-----------------------------------------------------------------------------
(* Messages *)

Roster(r, i)   == [type |-> "roster", players |-> r.players, idx |-> i,
                   wireless |-> r.wireless]
Starting(r, i) == [type |-> "starting", idx |-> i,
                   roms |-> [j \in DOMAIN r.players |-> r.players[j].rom]]
PeerLeft(i)    == [type |-> "peerLeft", idx |-> i]
Signal(i, p)   == [type |-> "signal", idx |-> i, payload |-> p]
Error(kind)    == [type |-> "error", kind |-> kind]
Entered(c)     == [type |-> "entered", code |-> c]
Hello          == [type |-> "hello"]

Nothing == [t \in Socket |-> <<>>]

\* send swallows the exception of a socket that is no longer open.
Heard(out) == [t \in Socket |-> IF sock[t].link = "open" THEN out[t] ELSE <<>>]
Reply(s, msgs) == Heard([Nothing EXCEPT ![s] = msgs])

\* Mutant: who is in a session already does not hear of it.
RosterForIdle(r, t) ==
  IF In(r, t) /\ sock[t].session = NoSession THEN <<Roster(r, Position(r, t))>> ELSE <<>>

\* Mutant: Starting gives the seat for the index.
StartingForSeat(r, t) ==
  IF In(r, t) THEN <<Starting(r, r.players[Position(r, t)].seat + 1)>> ELSE <<>>

RosterFor(r, t)   == IF In(r, t) THEN <<Roster(r, Position(r, t))>> ELSE <<>>
StartingFor(r, t) == IF In(r, t) THEN <<Starting(r, Position(r, t))>> ELSE <<>>

\* Mutant: a departure is announced under the place in the roster.
PeerLeftForPlace(s, t) ==
  IF t # s /\ \E i \in DOMAIN sock[s].session.peers : sock[s].session.peers[i] = t
  THEN <<PeerLeft(IF Placed(s) THEN Position(room[sock[s].code], s)
                  ELSE sock[s].session.idx)>> ELSE <<>>

\* The newest merge's peers of a departing socket hear its index.
PeerLeftFor(s, t) ==
  IF t # s /\ \E i \in DOMAIN sock[s].session.peers : sock[s].session.peers[i] = t
  THEN <<PeerLeft(sock[s].session.idx)>> ELSE <<>>

-----------------------------------------------------------------------------
(* Merging *)

\* Mutant: the stamp gives the seat for the index.
StampedBySeat(c, r) ==
  [t \in Socket |->
     IF In(r, t) /\ Speaking(t)
     THEN [link |-> sock[t].link, code |-> c,
           session |-> [idx |-> r.players[Position(r, t)].seat + 1, peers |-> Ids(r)]]
     ELSE sock[t]]

\* Every socket of a member that the runtime still lists is stamped.
Stamped(c, r) ==
  [t \in Socket |->
     IF In(r, t) /\ Speaking(t)
     THEN [link |-> sock[t].link, code |-> c,
           session |-> [idx |-> Position(r, t), peers |-> Ids(r)]]
     ELSE sock[t]]

Merged(r) == [r EXCEPT !.lastMerge = Ids(r)]

Unanimous(r) == Len(r.players) >= 2 /\ AllReady(r)

\* Mutant: a merge never stands.
ConvergedAgain(r) == r.wireless /\ Unanimous(r)

\* tryMerge: a wireless room merges on its own, but not twice as it stands.
Converged(r) == r.wireless /\ Unanimous(r) /\ r.lastMerge # Ids(r)

-----------------------------------------------------------------------------
(* Connections *)

Connect(s) ==
  /\ sock[s].link = "new"
  /\ sock' = [sock EXCEPT ![s].link = "open"]
  /\ sent' = [Nothing EXCEPT ![s] = <<Hello>>]
  /\ UNCHANGED <<room, alarm>>

\* Mutant: a departure leaves the others' consent.
WithoutReset(r, i) == [r EXCEPT !.players = RemoveAt(@, i)]

\* The roster without its i-th player: positions compact, consent is void.
Without(r, i) == [r EXCEPT !.players = Unready(RemoveAt(@, i))]

\* The attachment a socket leaves its room with.  serializeAttachment may throw
\* on a socket that is already unusable: the code lets it, and the attachment
\* still names the room and the routing ("broken").
Detached(s, link) ==
  IF link = "broken"
  THEN [link |-> "broken", code |-> sock[s].code, session |-> sock[s].session]
  ELSE [link |-> link, code |-> NoCode, session |-> NoSession]

\* The room-leaving body shared by an explicit Leave, a close event and an
\* error event: detach, tell the merge's peers, shrink the roster, reset the
\* ready bits, announce; the last one out deletes the record.
Depart(s, link) ==
  LET c    == sock[s].code
      left == Without(room[c], Position(room[c], s))
  IN /\ sock' = [sock EXCEPT ![s] = Detached(s, link)]
     /\ IF ~Placed(s)
        THEN /\ room' = room
             /\ sent' = Heard([t \in Socket |-> PeerLeftFor(s, t)])
        ELSE IF left.players = <<>>
        THEN /\ room' = Delete({c})
             /\ sent' = Heard([t \in Socket |-> PeerLeftFor(s, t)])
        ELSE /\ room' = Put(c, left)
             /\ sent' = Heard([t \in Socket |->
                                 PeerLeftFor(s, t) \o RosterFor(left, t)])
     /\ UNCHANGED alarm

\* An attachment that names no room is the same cleared or kept; one that is
\* not cleared at the close event is not read again.
Exits(s) == {"closing"} \cup IF sock[s].code = NoCode THEN {} ELSE {"broken"}

Leave(s, link)      == Speaking(s) /\ Depart(s, link)
ErrorEvent(s, link) == Speaking(s) /\ Depart(s, link)
CloseEvent(s)       == Speaking(s) /\ Depart(s, "gone")

\* The close event of a dead connection never arrives (the sweep exists for
\* these); the attachment goes with the socket and nothing reads it again.
LoseSocket(s) ==
  /\ Speaking(s)
  /\ sock' = [sock EXCEPT ![s].link = "gone"]
  /\ sent' = Nothing
  /\ UNCHANGED <<room, alarm>>

-----------------------------------------------------------------------------
(* Entering a room: the first message of a connection that has no          *)
(* attachment, and of one whose attachment was cleared since: a create or   *)
(* join pipelined behind a Leave, a kick or a version mismatch is accepted  *)
(* on a socket the server has closed.                                       *)

Newcomer(s, rom, seat) == [id |-> s, ready |-> FALSE, rom |-> rom, seat |-> seat]

\* Mutant: the seat is the place in the roster.
SeatedInPlace(r, s, rom) ==
  [r EXCEPT !.players = Append(Unready(@), Newcomer(s, rom, Len(r.players))),
            !.nextSeat = @ + 1]

\* A newcomer sits down last, on the next seat; everyone's consent is void.
Seated(r, s, rom) ==
  [r EXCEPT !.players = Append(Unready(@), Newcomer(s, rom, r.nextSeat)),
            !.nextSeat = @ + 1]

\* Mutant: only a session keeps a socket out of further rooms.
UnattachedUnmerged(s) == sock[s].session = NoSession

Unattached(s) == sock[s].code = NoCode /\ sock[s].session = NoSession

NewRoom(s, rom, wireless) ==
  [players |-> <<Newcomer(s, rom, 0)>>, nextSeat |-> 1, wireless |-> wireless,
   lastMerge |-> NoMerge, expired |-> FALSE]

CreateRoom(s, c, rom, wireless) ==
  LET r == NewRoom(s, rom, wireless)
  IN /\ Speaking(s)
     /\ Unattached(s)
     /\ c \notin DOMAIN room
     /\ room' = Put(c, r)
     /\ sock' = [sock EXCEPT ![s].code = c]
     /\ sent' = Reply(s, <<Entered(c)>> \o RosterFor(r, s))
     /\ alarm' = TRUE

JoinRoom(s, c, rom) ==
  LET r == Seated(room[c], s, rom)
  IN /\ Speaking(s)
     /\ Unattached(s)
     /\ c \in DOMAIN room
     /\ ~Full(room[c])
     /\ room[c].nextSeat < MaxSeats
     /\ room' = Put(c, r)
     /\ sock' = [sock EXCEPT ![s].code = c]
     /\ sent' = Heard([t \in Socket |->
                         (IF t = s THEN <<Entered(c)>> ELSE <<>>) \o RosterFor(r, t)])
     /\ UNCHANGED alarm

\* Refusals leave everything as it was, but a protocol mismatch also closes.
RefuseReentry(s) ==
  /\ Speaking(s) /\ ~Unattached(s)
  /\ sent' = Reply(s, <<Error("malformed")>>)
  /\ UNCHANGED <<room, sock, alarm>>

RefuseVersion(s) ==
  /\ Speaking(s) /\ Unattached(s)
  /\ sent' = Reply(s, <<Error("versionMismatch")>>)
  /\ sock' = [sock EXCEPT ![s].link = "closing"]
  /\ UNCHANGED <<room, alarm>>

RefuseJoin(s, c) ==
  /\ Speaking(s) /\ Unattached(s)
  /\ c \in DOMAIN room => Full(room[c])
  /\ sent' = Reply(s, <<Error(IF c \in DOMAIN room THEN "roomFull"
                              ELSE "roomNotFound")>>)
  /\ UNCHANGED <<room, sock, alarm>>

RefuseEntry(s) ==
  RefuseReentry(s) \/ RefuseVersion(s) \/ \E c \in Code : RefuseJoin(s, c)

-----------------------------------------------------------------------------
(* Messages of a member *)

\* A withdrawal by a member of the last merge voids that merge.
Asserted(r, i, ready) ==
  LET voids == ~ready /\ r.players[i].id \in ToSet(r.lastMerge) IN
  [r EXCEPT !.players[i].ready = ready,
            !.lastMerge = IF voids THEN NoMerge ELSE @]

SetReady(s, ready) ==
  LET c == sock[s].code
      r == Asserted(room[c], Position(room[c], s), ready)
  IN /\ Speaking(s) /\ Placed(s)
     /\ IF Converged(r)
        THEN /\ room' = Put(c, Merged(r))
             /\ sock' = Stamped(c, r)
             /\ sent' = Heard([t \in Socket |-> RosterFor(r, t) \o StartingFor(r, t)])
        ELSE /\ room' = Put(c, r)
             /\ sock' = sock
             /\ sent' = Heard([t \in Socket |-> RosterFor(r, t)])
     /\ UNCHANGED alarm

\* Position 1 links a cable room up, again and again if it likes.
StartRoom(s) ==
  LET c == sock[s].code
      r == room[c]
  IN /\ Speaking(s) /\ Placed(s)
     /\ ~r.wireless
     /\ Position(r, s) = 1
     /\ Unanimous(r)
     /\ room' = Put(c, Merged(r))
     /\ sock' = Stamped(c, r)
     /\ sent' = Heard([t \in Socket |-> StartingFor(r, t)])
     /\ UNCHANGED alarm

RefuseStart(s) ==
  LET r == room[sock[s].code]
  IN /\ Speaking(s) /\ Placed(s)
     /\ r.wireless \/ Position(r, s) # 1 \/ ~Unanimous(r)
     /\ sent' = Reply(s, <<Error(IF r.wireless THEN "malformed"
                                 ELSE IF Position(r, s) # 1 THEN "notHost"
                                 ELSE "notEveryoneReady")>>)
     /\ UNCHANGED <<room, sock, alarm>>

\* The relay reads the sender's stamp only, never the room record.
RelaySignal(s, to, p) ==
  LET me == sock[s].session
  IN /\ Speaking(s)
     /\ me # NoSession
     /\ sent' = IF to \in DOMAIN me.peers /\ to # me.idx
                THEN Reply(me.peers[to], <<Signal(me.idx, p)>>)
                ELSE Nothing
     /\ UNCHANGED <<room, sock, alarm>>

RefuseSignal(s) ==
  /\ Speaking(s)
  /\ sock[s].session = NoSession
  /\ sock[s].code # NoCode
  /\ sent' = Reply(s, <<Error("malformed")>>)
  /\ UNCHANGED <<room, sock, alarm>>

\* Position 1 throws out the holder of a seat: same announcements as a
\* departure, then the kicked socket is detached, told and closed.
KickPlayer(s, seat, link) ==
  LET c       == sock[s].code
      r       == room[c]
      target  == CHOOSE i \in DOMAIN r.players : r.players[i].seat = seat
      k       == r.players[target].id
      left    == Without(r, target)
      listed  == Speaking(k)
  IN /\ Speaking(s) /\ Placed(s)
     /\ Position(r, s) = 1
     /\ \E i \in DOMAIN r.players : r.players[i].seat = seat
     /\ target # 1
     /\ room' = Put(c, left)
     /\ sock' = IF listed
                THEN [sock EXCEPT ![k] = Detached(k, link)]
                ELSE sock
     /\ sent' = Heard([t \in Socket |->
                         (IF ~listed THEN <<>>
                          ELSE IF t = k THEN <<Error("kicked")>>
                          ELSE PeerLeftFor(k, t))
                         \o RosterFor(left, t)])
     /\ UNCHANGED alarm

RefuseKick(s, seat) ==
  LET r == room[sock[s].code]
  IN /\ Speaking(s) /\ Placed(s)
     /\ \/ Position(r, s) # 1
        \/ ~\E i \in DOMAIN r.players \ {1} : r.players[i].seat = seat
     /\ sent' = Reply(s, <<Error(IF Position(r, s) # 1 THEN "notHost"
                                 ELSE "malformed")>>)
     /\ UNCHANGED <<room, sock, alarm>>

\* SetReady, Start and KickPlayer of a socket no room lists are dropped.
IgnoreMessage(s) ==
  /\ Speaking(s)
  /\ ~Placed(s)
  /\ sent' = Nothing
  /\ UNCHANGED <<room, sock, alarm>>

-----------------------------------------------------------------------------
(* The sweep *)

\* A day passes over a room.
Expire(c) ==
  /\ c \in DOMAIN room
  /\ ~room[c].expired
  /\ room' = [room EXCEPT ![c].expired = TRUE]
  /\ sent' = Nothing
  /\ UNCHANGED <<sock, alarm>>

\* Mutant: one dead member makes a room abandoned.
AbandonedBySome(c) ==
  \E i \in DOMAIN room[c].players : sock[room[c].players[i].id].link \in {"new", "gone"}

Abandoned(c) ==
  \A i \in DOMAIN room[c].players : sock[room[c].players[i].id].link \in {"new", "gone"}

\* Mutant: the alarm is not armed again.
SweepOnce ==
  LET dead == {c \in DOMAIN room : Abandoned(c) \/ room[c].expired}
  IN /\ alarm
     /\ room' = Delete(dead)
     /\ sock' = [t \in Socket |->
                   IF sock[t].link = "open" /\ \E c \in dead : In(room[c], t)
                   THEN [sock[t] EXCEPT !.link = "closing"] ELSE sock[t]]
     /\ alarm' = FALSE
     /\ sent' = Nothing

\* The alarm deletes every abandoned or expired room, closes what sockets
\* these still have, and re-arms itself only for the rooms that stay.
Sweep ==
  LET dead == {c \in DOMAIN room : Abandoned(c) \/ room[c].expired}
  IN /\ alarm
     /\ room' = Delete(dead)
     /\ sock' = [t \in Socket |->
                   IF sock[t].link = "open" /\ \E c \in dead : In(room[c], t)
                   THEN [sock[t] EXCEPT !.link = "closing"] ELSE sock[t]]
     /\ alarm' = (DOMAIN room \ dead # {})
     /\ sent' = Nothing

-----------------------------------------------------------------------------
(* The specification *)

Init ==
  /\ room = [c \in {} |-> <<>>]
  /\ sock = [s \in Socket |-> [link |-> "new", code |-> NoCode, session |-> NoSession]]
  /\ alarm = FALSE
  /\ sent = Nothing

\* The seats handed out so far, and the next one for a kick of a seat nobody
\* has held yet.
Seats == UNION {0 .. room[c].nextSeat : c \in DOMAIN room}

Environment(s) ==
  \/ Connect(s)
  \/ CloseEvent(s)
  \/ \E link \in Exits(s) : ErrorEvent(s, link)
  \/ LoseSocket(s)

Entry(s) ==
  \/ \E c \in Code, rom \in Rom, wireless \in BOOLEAN : CreateRoom(s, c, rom, wireless)
  \/ \E c \in Code, rom \in Rom : JoinRoom(s, c, rom)
  \/ RefuseEntry(s)

Member(s) ==
  \/ \E ready \in BOOLEAN : SetReady(s, ready)
  \/ StartRoom(s)
  \/ RefuseStart(s)
  \/ \E to \in 1 .. WirelessSeats, p \in Payload : RelaySignal(s, to, p)
  \/ RefuseSignal(s)
  \/ \E seat \in Seats, link \in {"closing", "broken"} : KickPlayer(s, seat, link)
  \/ \E seat \in Seats : RefuseKick(s, seat)
  \/ \E link \in Exits(s) : Leave(s, link)
  \/ IgnoreMessage(s)

Next ==
  \/ \E s \in Socket : Environment(s) \/ Entry(s) \/ Member(s)
  \/ \E c \in Code : Expire(c)
  \/ Sweep

Spec == Init /\ [][Next]_vars

\* The platform runs an armed alarm.
FairSpec == Spec /\ WF_vars(Sweep)

-----------------------------------------------------------------------------
(* What the server guarantees *)

ErrorKind == {"malformed", "versionMismatch", "roomNotFound", "roomFull",
              "notHost", "notEveryoneReady", "kicked"}

Message ==
  [type : {"roster"}, players : Seq(Player), idx : Nat, wireless : BOOLEAN]
  \cup [type : {"starting"}, idx : Nat, roms : Seq(Rom)]
  \cup [type : {"peerLeft"}, idx : Nat]
  \cup [type : {"signal"}, idx : Nat, payload : Payload]
  \cup [type : {"error"}, kind : ErrorKind]
  \cup [type : {"entered"}, code : Code]
  \cup [type : {"hello"}]

\* The stored records, the attachments and the messages keep their shapes.
TypeOK ==
  /\ DOMAIN room \subseteq Code
  /\ room \in [DOMAIN room -> Room]
  /\ sock \in [Socket -> Attached]
  /\ alarm \in BOOLEAN
  /\ sent \in [Socket -> Seq(Message)]

\* A stored room is never empty, lists a socket once, and holds each seat once
\* and below the counter that hands them out.
WellListed(r) ==
  /\ r.players # <<>>
  /\ \A i, j \in DOMAIN r.players :
       i # j => /\ r.players[i].id # r.players[j].id
                /\ r.players[i].seat # r.players[j].seat
  /\ \A i \in DOMAIN r.players : r.players[i].seat < r.nextSeat

\* What an attachment says of itself: an open socket names only a room that
\* lists it, one that could not be cleared still names its room, and one that
\* names no room has no routing either.
AttachmentCoherent(t) ==
  /\ sock[t].link = "open" /\ sock[t].code # NoCode => Placed(t)
  /\ sock[t].link = "broken" => sock[t].code # NoCode
  /\ sock[t].link = "new" => sock[t].code = NoCode
  /\ sock[t].code = NoCode => sock[t].session = NoSession

\* The record and the attachments are two copies of the membership, written
\* one after the other by create, join, kick and leave.  Every socket a record
\* lists names this room in its attachment, so no socket sits in two rooms,
\* not even one that entered again while it was closing, and none is listed
\* after its membership ended, with an attachment cleared then or not.
MembershipCoherent ==
  /\ \A c \in DOMAIN room :
       /\ WellListed(room[c])
       /\ \A t \in Socket : In(room[c], t) =>
            sock[t].code = c /\ sock[t].link \notin {"new", "broken"}
  /\ \A t \in Socket : AttachmentCoherent(t)

\* The relay trusts the stamps alone.  The stamps that the members of a room
\* carry are all of one merge: no two members of a room hold routings that
\* disagree about who has which index.
SessionsAgree ==
  \A s, t \in Socket :
    /\ Placed(s) /\ Placed(t) /\ sock[s].code = sock[t].code
    /\ sock[s].link = "open" /\ sock[t].link = "open"
    /\ sock[s].session # NoSession /\ sock[t].session # NoSession
    => sock[s].session.peers = sock[t].session.peers

\* A stamp is mutual.  Whoever a live socket's routing names, if still
\* connected, carries the routing of the same merge and sits with the socket
\* in one room, or both are out of it together: a relayed signal cannot reach
\* someone who reads the sender's index in another merge's routing.  Only a
\* "broken" socket keeps the routing of a merge that may be over.
StampsMutual ==
  \A s \in Socket :
    sock[s].link \in {"open", "closing"} /\ sock[s].session # NoSession =>
      /\ sock[s].session.idx \in DOMAIN sock[s].session.peers
      /\ sock[s].session.peers[sock[s].session.idx] = s
      /\ \A t \in ToSet(sock[s].session.peers) :
           /\ sock[t].link # "new"
           /\ sock[t].link = "open" =>
                /\ sock[t].session.peers = sock[s].session.peers
                /\ sock[t].code = sock[s].code
                /\ Placed(t) <=> Placed(s)

\* A wireless room never waits once it has converged: with two or more
\* members, all ready, the last merge is of exactly these members, and every
\* one of them still connected carries its stamp.
ConvergedIsMerged ==
  \A c \in DOMAIN room :
    LET r == room[c] IN
    r.wireless /\ Unanimous(r) =>
      /\ r.lastMerge = Ids(r)
      /\ \A i \in DOMAIN r.players :
           LET t == r.players[i].id IN
           sock[t].link = "open" => sock[t].session = [idx |-> i, peers |-> Ids(r)]

\* "seats never move or get reused": whoever holds a seat after a step held
\* it before, or the seat is a new one.  A kick by seat, sent on the strength
\* of any older roster, hits the player of that roster or nobody.
SeatsNeverReused ==
  [][\A c \in DOMAIN room \cap DOMAIN room' :
       /\ room'[c].nextSeat >= room[c].nextSeat
       /\ \A p \in ToSet(room'[c].players) :
            \/ \E q \in ToSet(room[c].players) : q.id = p.id /\ q.seat = p.seat
            \/ p.seat >= room[c].nextSeat]_vars

Rosters(msgs) == {m \in ToSet(msgs) : m.type = "roster"}

\* No connected member is left with an old roster: whatever changes the
\* players of a room sends every member one roster, the new one, with the
\* index this member has now.
EveryChangeAnnounced ==
  [][\A c \in DOMAIN room' :
       (c \notin DOMAIN room \/ room'[c].players # room[c].players) =>
         \A i \in DOMAIN room'[c].players :
           LET t == room'[c].players[i].id IN
           sock'[t].link = "open" => Rosters(sent'[t]) = {Roster(room'[c], i)}]_vars

\* The step takes a socket of the merge of these peers out of it, with its
\* attachment cleared or not.
Departs(s, peers) ==
  /\ sock[s].link # "broken" /\ sock[s].session.peers = peers
  /\ sock'[s].session = NoSession \/ sock'[s].link = "broken"

\* The step is another event of a socket that had departed before but kept its
\* attachment, in which t has the index i.
Echo(t, i) ==
  \E u \in Socket :
    /\ sock[u].link = "broken" /\ sock[u].session.idx = i
    /\ t \in ToSet(sock[u].session.peers)
    /\ room' = room /\ \A v \in Socket \ {u} : sock'[v] = sock[v]

\* A member that drops out of a merge is announced to the others of that
\* merge under the index they know it by: a peer still building the mesh does
\* not wait for a departed edge.  And nobody else is, so it does not give up
\* an edge that is there, with the one exception of a departure announced
\* again because its attachment could not be cleared.
DepartureAnnounced ==
  [][\A t \in Socket :
       sock[t].link = "open" /\ sock[t].session # NoSession
         /\ sock'[t].session = sock[t].session =>
         \A i \in DOMAIN sock[t].session.peers \ {sock[t].session.idx} :
           LET departs == Departs(sock[t].session.peers[i], sock[t].session.peers)
               heard   == PeerLeft(i) \in ToSet(sent'[t])
           IN (departs => heard) /\ (heard => departs \/ Echo(t, i))]_vars

\* A relayed signal that reaches a socket with routing carries the index that
\* this routing gives to its sender, unless the sender is out of its room and
\* its attachment could not be cleared.
SignalLandsInSession ==
  [][\A s, t \in Socket, to \in 1 .. WirelessSeats, p \in Payload :
       RelaySignal(s, to, p) /\ sock[s].link # "broken"
         /\ sent'[t] # <<>> /\ sock[t].session # NoSession =>
         \E i \in DOMAIN sock[t].session.peers :
           sock[t].session.peers[i] = s /\ sent'[t] = <<Signal(i, p)>>]_vars

\* A Starting announces the routing that is in force when it is sent: the
\* index and the ROM list the client builds its mesh by are those of its
\* stamp, member by member, and every connected peer of the stamp hears it in
\* the same step.
StartingMatchesRouting ==
  [][\A t \in Socket : \A m \in ToSet(sent'[t]) :
       m.type = "starting" =>
         LET peers == sock'[t].session.peers
             ps    == room'[sock'[t].code].players IN
         /\ m.idx = sock'[t].session.idx
         /\ Len(m.roms) = Len(peers)
         /\ \A i \in DOMAIN peers :
              /\ peers[i] = ps[i].id /\ m.roms[i] = ps[i].rom
              /\ sock'[peers[i]].link = "open" =>
                   \E n \in ToSet(sent'[peers[i]]) :
                     n.type = "starting" /\ n.roms = m.roms /\ n.idx = i]_vars

\* A Starting goes out by the consent of all, and a wireless room is not sent
\* through a pointless one: its standing merge, if any, is of another
\* membership, of the same one in another order (a member left and came back
\* on a closing socket), or was voided by a withdrawal.
NoPointlessMerge ==
  [][\A t \in Socket : \A m \in ToSet(sent'[t]) :
       m.type = "starting" =>
         LET c == sock'[t].code IN
         /\ Unanimous(room'[c])
         /\ room'[c].wireless => room[c].lastMerge # Ids(room'[c])]_vars

\* A record disappears only from under sockets that are gone, that leave in
\* this very step, or that outstayed the age limit.
DeletedOnlyWhenEmpty ==
  [][\A c \in DOMAIN room \ DOMAIN room' :
       \/ room[c].expired
       \/ \A p \in ToSet(room[c].players) :
            \/ sock[p.id].link = "gone"
            \/ sock'[p.id].code = NoCode \/ sock'[p.id].link = "broken"]_vars

\* The sweep catches what lost close events leave behind: an abandoned room
\* is collected unless someone joins it first, and an expired one is always.
SweepCollects ==
  \A c \in Code :
    /\ (c \in DOMAIN room /\ Abandoned(c))
         ~> (c \notin DOMAIN room \/ ~Abandoned(c))
    /\ (c \in DOMAIN room /\ room[c].expired) ~> c \notin DOMAIN room

\* The record of a room, read as the promise made to its members.
Promise == INSTANCE RoomPromise WITH
  members  <- [c \in Code |-> IF c \in DOMAIN room THEN ToSet(Ids(room[c])) ELSE {}],
  ready    <- [c \in Code |-> IF c \in DOMAIN room
                              THEN {s \in ToSet(Ids(room[c])) :
                                      room[c].players[Position(room[c], s)].ready}
                              ELSE {}],
  linked   <- [c \in Code |-> IF c \in DOMAIN room THEN ToSet(room[c].lastMerge)
                              ELSE {}],
  wireless <- [c \in Code |-> c \in DOMAIN room /\ room[c].wireless]

\* The server implements RoomPromise: consent is to a membership, linking is by
\* the consent of all, a wireless room links the moment it can, and a withdrawal
\* voids the link.
KeepsPromise == Promise!Spec

\* index.ts says of a kick: "peers still building that merge's mesh must stop
\* waiting for the kicked edge".  Whoever a kick removes from the room, the
\* members of the room that were merged with it hear its departure.
KickReleasesBuilders ==
  [][\A s \in Socket, seat \in Seats, link \in Link : KickPlayer(s, seat, link) =>
       \A t \in Socket :
         sock[t].link = "open" /\ sock[t].code = sock[s].code
           /\ sock'[t].session # NoSession =>
           \A i \in DOMAIN sock[t].session.peers :
             LET k == sock[t].session.peers[i] IN
             In(room[sock[s].code], k) /\ ~In(room'[sock[s].code], k) =>
               PeerLeft(i) \in ToSet(sent'[t])]_vars

\* index.ts says where a throw of serializeAttachment is let pass: "A duplicate
\* PeerLeft is harmless (clients treat it idempotently)".  Whoever a PeerLeft
\* names in the routing of the socket that hears it is not in its room any more.
DuplicateHarmless ==
  [][\A t \in Socket :
       sock[t].link = "open" /\ sock'[t].link = "open" =>
         \A i \in DOMAIN sock[t].session.peers \ {sock[t].session.idx} :
           PeerLeft(i) \in ToSet(sent'[t]) =>
             ~In(room'[sock[t].code], sock[t].session.peers[i])]_vars
=============================================================================
