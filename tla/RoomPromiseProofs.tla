------------------------- MODULE RoomPromiseProofs -------------------------
(***************************************************************************)
(* The signaling server keeps its promise: what the records of the rooms   *)
(* remember of earlier steps (seats, the last merge), and the refinement   *)
(* of RoomPromise by Rooms, for every set of sockets, codes, ROMs and      *)
(* payloads and for any capacity of a room.                                *)
(***************************************************************************)
EXTENDS RoomsProofs

-----------------------------------------------------------------------------
(* What a step of the server does to the records, one operator for each    *)
(* kind of write                                                           *)

\* No socket gets routing, changes rooms or comes back from a close.
Steady ==
  \A t \in Socket :
    /\ sock[t].link # "new" => sock'[t].link # "new"
    /\ sock[t].link = "new" => sock'[t].code = NoCode
    /\ sock'[t].link = "open" /\ sock[t].link # "new" =>
         /\ sock[t].link = "open" /\ sock'[t].session = sock[t].session
         /\ sock[t].code # NoCode => sock'[t].code = sock[t].code

Founding ==
  \E c \in Code \ DOMAIN room, s \in Socket, rom \in Rom, w \in BOOLEAN :
    /\ sock[s].link # "new" /\ sock[s].code = NoCode
    /\ room' = Put(c, NewRoom(s, rom, w))

Seating ==
  \E c \in DOMAIN room, s \in Socket, rom \in Rom :
    /\ sock[s].link # "new" /\ sock[s].code = NoCode
    /\ room' = Put(c, Seated(room[c], s, rom))

Parting ==
  \E c \in DOMAIN room : \E k \in DOMAIN room[c].players :
    LET left == Without(room[c], k) IN
    room' = IF left.players = <<>> THEN Delete({c}) ELSE Put(c, left)

Asserting ==
  \E c \in DOMAIN room : \E k \in DOMAIN room[c].players, b \in BOOLEAN :
    LET r == Asserted(room[c], k, b) IN
    ~Converged(r) /\ room' = Put(c, r)

Converging ==
  \E c \in DOMAIN room : \E k \in DOMAIN room[c].players, b \in BOOLEAN :
    LET r == Asserted(room[c], k, b) IN
    Converged(r) /\ room' = Put(c, Merged(r)) /\ sock' = Stamped(c, r)

LinkingUp ==
  \E c \in DOMAIN room :
    /\ ~room[c].wireless /\ Unanimous(room[c])
    /\ room' = Put(c, Merged(room[c])) /\ sock' = Stamped(c, room[c])

Ageing ==
  \E c \in DOMAIN room : room' = Put(c, [room[c] EXCEPT !.expired = TRUE])

Collecting == \E C \in SUBSET DOMAIN room : room' = Delete(C)

RecordStep ==
  \/ Steady /\ (\/ room' = room \/ Founding \/ Seating \/ Parting
                \/ Asserting \/ Ageing \/ Collecting)
  \/ Converging
  \/ LinkingUp

LEMMA SameSocketsSteady ==
  ASSUME IInv, sock' = sock
  PROVE  Steady
  BY DEF Steady, IInv, MembershipCoherent, AttachmentCoherent

LEMMA EnvironmentRecords ==
  ASSUME IInv, NEW s \in Socket, Environment(s)
  PROVE  RecordStep
<1>1. CASE Connect(s)
  <2>1. sock' = [sock EXCEPT ![s].link = "open"] /\ sock[s].link = "new" /\ room' = room
    BY <1>1 DEF Connect
  <2>2. Steady
    BY <2>1 DEF Steady, IInv, Shape, MembershipCoherent, AttachmentCoherent, Attached, Speaking
  <2> QED
    BY <2>1, <2>2 DEF RecordStep
<1>2. CASE LoseSocket(s)
  <2>1. sock' = [sock EXCEPT ![s].link = "gone"] /\ room' = room
    BY <1>2 DEF LoseSocket
  <2>2. Steady
    BY <2>1 DEF Steady, IInv, Shape, MembershipCoherent, AttachmentCoherent, Attached, Speaking
  <2> QED
    BY <2>1, <2>2 DEF RecordStep
<1>3. ASSUME NEW link \in {"closing", "broken", "gone"}, Depart(s, link), Speaking(s)
      PROVE  RecordStep
  <2>1. /\ sock'[s].link = link /\ sock[s].link # "new"
        /\ \A t \in Socket \ {s} : sock'[t] = sock[t]
    BY <1>3, DetachedAttachment, SockExcept DEF Depart, IInv, Speaking
  <2>2. Steady
    BY <2>1 DEF Steady, IInv, MembershipCoherent, AttachmentCoherent
  <2> DEFINE c == sock[s].code
             k == Position(room[c], s)
  <2>3. CASE Placed(s)
    <3>1. c \in DOMAIN room /\ k \in DOMAIN room[c].players
      BY <2>3, StoredRoom, RoomFields DEF IInv, Placed
    <3>2. room' = IF Without(room[c], k).players = <<>> THEN Delete({c})
                  ELSE Put(c, Without(room[c], k))
      BY <1>3, <2>3 DEF Depart
    <3> HIDE DEF c, k
    <3>3. Parting
      BY <3>1, <3>2 DEF Parting
    <3> QED
      BY <2>2, <3>3 DEF RecordStep
  <2>4. CASE ~Placed(s)
    BY <1>3, <2>2, <2>4 DEF Depart, RecordStep
  <2> QED
    BY <2>3, <2>4
<1> QED
  BY <1>1, <1>2, <1>3 DEF Environment, CloseEvent, ErrorEvent, Exits

LEMMA EntryRecords ==
  ASSUME IInv, NEW s \in Socket, Entry(s)
  PROVE  RecordStep
<1>1. ASSUME NEW c \in Code, NEW rom \in Rom, NEW w \in BOOLEAN, CreateRoom(s, c, rom, w)
      PROVE  RecordStep
  <2>1. /\ Speaking(s) /\ sock[s].code = NoCode /\ c \notin DOMAIN room
        /\ room' = Put(c, NewRoom(s, rom, w)) /\ sock' = [sock EXCEPT ![s].code = c]
    BY <1>1 DEF CreateRoom, Unattached
  <2>2. Steady
    BY <2>1 DEF Steady, IInv, Shape, MembershipCoherent, AttachmentCoherent, Attached, Speaking
  <2>3. Founding
    BY <2>1 DEF Founding, Speaking
  <2> QED
    BY <2>2, <2>3 DEF RecordStep
<1>2. ASSUME NEW c \in Code, NEW rom \in Rom, JoinRoom(s, c, rom)
      PROVE  RecordStep
  <2>1. /\ Speaking(s) /\ sock[s].code = NoCode /\ c \in DOMAIN room
        /\ room' = Put(c, Seated(room[c], s, rom)) /\ sock' = [sock EXCEPT ![s].code = c]
    BY <1>2 DEF JoinRoom, Unattached
  <2>2. Steady
    BY <2>1 DEF Steady, IInv, Shape, MembershipCoherent, AttachmentCoherent, Attached, Speaking
  <2>3. Seating
    BY <2>1 DEF Seating, Speaking
  <2> QED
    BY <2>2, <2>3 DEF RecordStep
<1>3. CASE RefuseEntry(s)
  <2>1. room' = room /\ (sock' = sock \/ sock' = [sock EXCEPT ![s].link = "closing"])
    BY <1>3 DEF RefuseEntry, RefuseReentry, RefuseVersion, RefuseJoin
  <2>2. Steady
    <3>1. CASE sock' = sock
      BY <3>1, SameSocketsSteady
    <3>2. CASE sock' = [sock EXCEPT ![s].link = "closing"]
      BY <3>2 DEF Steady, IInv, Shape, MembershipCoherent, AttachmentCoherent, Attached, Speaking
    <3> QED
      BY <2>1, <3>1, <3>2
  <2> QED
    BY <2>1, <2>2 DEF RecordStep
<1> QED
  BY <1>1, <1>2, <1>3 DEF Entry

LEMMA MemberRecords ==
  ASSUME IInv, NEW s \in Socket, Member(s)
  PROVE  RecordStep
<1> DEFINE c == sock[s].code
<1>1. ASSUME NEW b \in BOOLEAN, SetReady(s, b)
      PROVE  RecordStep
  <2> DEFINE k == Position(room[c], s)
             r == Asserted(room[c], k, b)
  <2>1. c \in DOMAIN room /\ k \in DOMAIN room[c].players
    BY <1>1, StoredRoom, RoomFields DEF IInv, SetReady, Placed
  <2>2. \/ Converged(r) /\ room' = Put(c, Merged(r)) /\ sock' = Stamped(c, r)
        \/ ~Converged(r) /\ room' = Put(c, r) /\ sock' = sock
    BY <1>1 DEF SetReady
  <2> HIDE DEF c, k
  <2>3. CASE Converged(r)
    <3>1. Converging
      BY <2>1, <2>2, <2>3 DEF Converging
    <3> QED
      BY <3>1 DEF RecordStep
  <2>4. CASE ~Converged(r)
    <3>1. Asserting /\ Steady
      BY <2>1, <2>2, <2>4, SameSocketsSteady DEF Asserting
    <3> QED
      BY <3>1 DEF RecordStep
  <2> QED
    BY <2>3, <2>4
<1>2. CASE StartRoom(s)
  <2>1. /\ c \in DOMAIN room /\ ~room[c].wireless /\ Unanimous(room[c])
        /\ room' = Put(c, Merged(room[c])) /\ sock' = Stamped(c, room[c])
    BY <1>2 DEF StartRoom, Placed
  <2>2. LinkingUp
    BY <2>1 DEF LinkingUp
  <2> QED
    BY <2>2 DEF RecordStep
<1>3. ASSUME NEW seat \in Seats, NEW link \in {"closing", "broken"},
             KickPlayer(s, seat, link)
      PROVE  RecordStep
  <2> DEFINE r      == room[c]
             target == CHOOSE i \in DOMAIN r.players : r.players[i].seat = seat
             k      == r.players[target].id
             left   == Without(r, target)
  <2>1. /\ c \in DOMAIN room /\ target \in DOMAIN r.players /\ target # 1
        /\ room' = Put(c, left)
        /\ \/ Speaking(k) /\ sock' = [sock EXCEPT ![k] = Detached(k, link)]
           \/ sock' = sock
    <3>1. \E i \in DOMAIN r.players : r.players[i].seat = seat
      BY <1>3 DEF KickPlayer
    <3>2. target \in DOMAIN r.players
      BY <3>1
    <3> QED
      BY <1>3, <3>2 DEF KickPlayer, Placed
  <2>2. Steady
    <3>1. CASE Speaking(k) /\ sock' = [sock EXCEPT ![k] = Detached(k, link)]
      <4>1. k \in Socket
        BY <2>1, StoredRoom, RoomFields DEF IInv
      <4>2. PICK u \in Socket : u = k
        BY <4>1
      <4> HIDE DEF k
      <4>3. /\ sock' = [sock EXCEPT ![u] = Detached(u, link)] /\ sock[u].link # "new"
            /\ Shape /\ MembershipCoherent
        BY <3>1, <4>2 DEF IInv, Speaking
      <4>4. Detached(u, link) \in Attached /\ Detached(u, link).link = link
        BY <4>3, DetachedAttachment
      <4>5. /\ sock'[u].link = link
            /\ \A t \in Socket \ {u} : sock'[t] = sock[t]
        BY <4>3, <4>4, SockExcept
      <4> QED
        BY <4>3, <4>5 DEF Steady, MembershipCoherent, AttachmentCoherent
    <3>2. CASE sock' = sock
      BY <3>2, SameSocketsSteady
    <3> QED
      BY <2>1, <3>1, <3>2
  <2>3. left.players # <<>>
    <3>1. r \in Room
      BY <2>1, StoredRoom DEF IInv
    <3>2. Len(left.players) = Len(r.players) - 1 /\ Len(r.players) \in Nat
          /\ target \in 1 .. Len(r.players)
      BY <2>1, <3>1, WithoutProperties, RoomFields
    <3>3. Len(left.players) # 0
      <4> HIDE DEF target, left, r
      <4> QED
        BY <2>1, <3>2
    <3> QED
      BY <3>3, EmptySeq
  <2> HIDE DEF c, target
  <2>4. Parting
    BY <2>1, <2>3 DEF Parting
  <2> QED
    BY <2>2, <2>4 DEF RecordStep
<1>4. CASE \E link \in Exits(s) : Leave(s, link)
  BY <1>4, EnvironmentRecords DEF Leave, Environment, ErrorEvent
<1>5. CASE \/ RefuseStart(s) \/ RefuseSignal(s) \/ IgnoreMessage(s)
           \/ \E to \in 1 .. WirelessSeats, p \in Payload : RelaySignal(s, to, p)
           \/ \E seat \in Seats : RefuseKick(s, seat)
  <2>1. room' = room /\ sock' = sock
    BY <1>5 DEF RefuseStart, RefuseSignal, IgnoreMessage, RelaySignal, RefuseKick
  <2> QED
    BY <2>1, SameSocketsSteady DEF RecordStep
<1> QED
  BY <1>1, <1>2, <1>3, <1>4, <1>5 DEF Member

\* Every step is one of these writes.
LEMMA RecordSteps ==
  ASSUME IInv, [Next]_vars
  PROVE  RecordStep
<1>1. CASE UNCHANGED vars
  BY <1>1, SameSocketsSteady DEF vars, RecordStep
<1>2. ASSUME NEW c \in Code, Expire(c)
      PROVE  RecordStep
  <2>1. c \in DOMAIN room /\ sock' = sock
        /\ room' = [room EXCEPT ![c].expired = TRUE]
    BY <1>2 DEF Expire
  <2>2. room' = Put(c, [room[c] EXCEPT !.expired = TRUE])
    BY <2>1 DEF Put, IInv, Shape
  <2>3. Ageing
    BY <2>1, <2>2 DEF Ageing
  <2> QED
    BY <2>1, <2>3, SameSocketsSteady DEF RecordStep
<1>3. CASE Sweep
  <2> DEFINE dead == {c \in DOMAIN room : Abandoned(c) \/ room[c].expired}
  <2>1. /\ room' = Delete(dead)
        /\ sock' = [t \in Socket |->
                      IF sock[t].link = "open" /\ \E c \in dead : In(room[c], t)
                      THEN [sock[t] EXCEPT !.link = "closing"] ELSE sock[t]]
    BY <1>3 DEF Sweep
  <2>2. dead \in SUBSET DOMAIN room
    OBVIOUS
  <2> HIDE DEF dead
  <2>3. ASSUME NEW t \in Socket
        PROVE  \/ sock'[t] = sock[t]
               \/ sock[t].link = "open" /\ sock'[t].link = "closing"
    <3>1. sock[t] \in Attached
      BY DEF IInv, Shape
    <3> QED
      BY <2>1, <3>1 DEF Attached
  <2>4. Steady
    BY <2>3 DEF Steady, IInv, MembershipCoherent, AttachmentCoherent
  <2>5. Collecting
    BY <2>1, <2>2 DEF Collecting
  <2> QED
    BY <2>4, <2>5 DEF RecordStep
<1> QED
  BY <1>1, <1>2, <1>3, EnvironmentRecords, EntryRecords, MemberRecords DEF Next

-----------------------------------------------------------------------------
(* Seats *)

\* A later record of a room hands out no seat an earlier one handed out.
SeatsKept(r, q) ==
  /\ q.nextSeat >= r.nextSeat
  /\ \A i \in DOMAIN q.players :
       \/ \E j \in DOMAIN r.players : /\ r.players[j].id = q.players[i].id
                                      /\ r.players[j].seat = q.players[i].seat
       \/ q.players[i].seat >= r.nextSeat

LEMMA SeatsKeptByItself ==
  ASSUME NEW r \in Room, NEW q, q.players = r.players, q.nextSeat = r.nextSeat
  PROVE  SeatsKept(r, q)
<1>1. r.nextSeat \in Nat
  BY RoomFields
<1> QED
  BY <1>1 DEF SeatsKept

LEMMA SeatsKeptByWithout ==
  ASSUME NEW r \in Room, NEW k \in DOMAIN r.players
  PROVE  SeatsKept(r, Without(r, k))
<1> DEFINE q == Without(r, k)
<1>1. /\ q.nextSeat = r.nextSeat /\ r.nextSeat \in Nat
      /\ \A j \in DOMAIN q.players :
           LET i == IF j < k THEN j ELSE j + 1 IN
           i \in DOMAIN r.players /\ q.players[j] = [r.players[i] EXCEPT !.ready = FALSE]
  BY WithoutProperties, RoomFields
<1> HIDE DEF q
<1>2. \A j \in DOMAIN q.players : \E i \in DOMAIN r.players :
        r.players[i].id = q.players[j].id /\ r.players[i].seat = q.players[j].seat
  <2> TAKE j \in DOMAIN q.players
  <2> DEFINE i == IF j < k THEN j ELSE j + 1
  <2>1. i \in DOMAIN r.players /\ q.players[j] = [r.players[i] EXCEPT !.ready = FALSE]
    BY <1>1
  <2> HIDE DEF i
  <2>2. r.players[i].id = q.players[j].id /\ r.players[i].seat = q.players[j].seat
    BY <2>1, RoomFields, PlayerReadiness
  <2> QED
    BY <2>1, <2>2
<1> QED
  BY <1>1, <1>2 DEF SeatsKept, q

LEMMA SeatsKeptBySeated ==
  ASSUME NEW r \in Room, NEW s \in Socket, NEW rom \in Rom
  PROVE  SeatsKept(r, Seated(r, s, rom))
<1> DEFINE q == Seated(r, s, rom)
           n == Len(r.players)
<1>1. /\ q.nextSeat = r.nextSeat + 1 /\ r.nextSeat \in Nat
      /\ q \in Room /\ Len(q.players) = n + 1 /\ n \in Nat /\ DOMAIN r.players = 1 .. n
      /\ \A i \in DOMAIN r.players : q.players[i] = [r.players[i] EXCEPT !.ready = FALSE]
      /\ q.players[n + 1] = Newcomer(s, rom, r.nextSeat)
  BY SeatedProperties, RoomFields
<1>2. DOMAIN q.players = 1 .. n + 1
  BY <1>1, RoomFields
<1>3. q.players[n + 1].seat = r.nextSeat
  BY <1>1 DEF Newcomer
<1> HIDE DEF q, n
<1>4. \A i \in DOMAIN r.players :
        r.players[i].id = q.players[i].id /\ r.players[i].seat = q.players[i].seat
  <2> TAKE i \in DOMAIN r.players
  <2> DEFINE p == [r.players[i] EXCEPT !.ready = FALSE]
  <2>1. p.id = r.players[i].id /\ p.seat = r.players[i].seat
    BY RoomFields, PlayerReadiness
  <2>2. q.players[i] = p
    BY <1>1
  <2> QED
    BY <2>1, <2>2
<1>5. \A i \in DOMAIN q.players : i \in DOMAIN r.players \/ i = n + 1
  BY <1>1, <1>2
<1>6. q.nextSeat >= r.nextSeat /\ q.players[n + 1].seat >= r.nextSeat
  BY <1>1, <1>3
<1> QED
  BY <1>4, <1>5, <1>6 DEF SeatsKept, q

LEMMA SeatsKeptByAsserted ==
  ASSUME NEW r \in Room, NEW k \in DOMAIN r.players, NEW b \in BOOLEAN
  PROVE  /\ SeatsKept(r, Asserted(r, k, b))
         /\ SeatsKept(r, Merged(Asserted(r, k, b)))
<1> DEFINE q == Asserted(r, k, b)
<1>1. /\ q.nextSeat = r.nextSeat /\ r.nextSeat \in Nat /\ q \in Room
      /\ DOMAIN q.players = DOMAIN r.players
      /\ \A i \in DOMAIN r.players :
           q.players[i] = IF i = k THEN [r.players[i] EXCEPT !.ready = b] ELSE r.players[i]
  BY AssertedProperties, RoomFields
<1>2. Merged(q).players = q.players /\ Merged(q).nextSeat = q.nextSeat
  BY <1>1, MergedProperties
<1> HIDE DEF q
<1>3. \A i \in DOMAIN r.players :
        r.players[i].id = q.players[i].id /\ r.players[i].seat = q.players[i].seat
  <2> TAKE i \in DOMAIN r.players
  <2> DEFINE p == [r.players[i] EXCEPT !.ready = b]
  <2>1. p.id = r.players[i].id /\ p.seat = r.players[i].seat
    BY RoomFields, PlayerReadiness
  <2>2. q.players[i] = p \/ q.players[i] = r.players[i]
    BY <1>1
  <2> QED
    BY <2>1, <2>2
<1>4. SeatsKept(r, q)
  BY <1>1, <1>3 DEF SeatsKept
<1>5. SeatsKept(r, Merged(q))
  BY <1>2, <1>4 DEF SeatsKept
<1> QED
  BY <1>4, <1>5 DEF q

\* What one write leaves of the record of code c.
LEMMA PutFacts ==
  ASSUME NEW c, NEW r, room' = Put(c, r)
  PROVE  /\ DOMAIN room' = DOMAIN room \cup {c} /\ room'[c] = r
         /\ \A d \in DOMAIN room : d # c => room'[d] = room[d]
  BY DEF Put

LEMMA SeatsKeptByStep ==
  ASSUME IInv, RecordStep, NEW c \in DOMAIN room \cap DOMAIN room'
  PROVE  SeatsKept(room[c], room'[c])
<1>1. \A d \in DOMAIN room : room[d] \in Room /\ SeatsKept(room[d], room[d])
  BY StoredRoom, SeatsKeptByItself DEF IInv
<1>2. ASSUME NEW d \in DOMAIN room, NEW q, room' = Put(d, q), SeatsKept(room[d], q)
      PROVE  SeatsKept(room[c], room'[c])
  <2>1. IF d = c THEN room'[c] = q ELSE room'[c] = room[c]
    BY <1>2, PutFacts
  <2> QED
    BY <1>1, <1>2, <2>1
<1>3. ASSUME NEW C, room' = Delete(C)
      PROVE  SeatsKept(room[c], room'[c])
  BY <1>1, <1>3, DeleteFacts
<1>4. CASE room' = room
  BY <1>1, <1>4
<1>5. CASE Founding
  <2>1. PICK d \in Code \ DOMAIN room : \E q : room' = Put(d, q)
    BY <1>5 DEF Founding
  <2>2. room'[c] = room[c]
    BY <2>1, PutFacts
  <2> QED
    BY <1>1, <2>2
<1>6. CASE Seating
  BY <1>1, <1>2, <1>6, SeatsKeptBySeated DEF Seating
<1>7. CASE Parting
  <2>1. PICK d \in DOMAIN room : \E k \in DOMAIN room[d].players :
          LET left == Without(room[d], k) IN
          room' = IF left.players = <<>> THEN Delete({d}) ELSE Put(d, left)
    BY <1>7 DEF Parting
  <2>2. PICK k \in DOMAIN room[d].players :
          room' = Delete({d}) \/ room' = Put(d, Without(room[d], k))
    BY <2>1
  <2> QED
    BY <1>1, <1>2, <1>3, <2>2, SeatsKeptByWithout
<1>8. CASE Asserting \/ Converging
  <2>1. PICK d \in DOMAIN room : \E k \in DOMAIN room[d].players, b \in BOOLEAN :
          \/ room' = Put(d, Asserted(room[d], k, b))
          \/ room' = Put(d, Merged(Asserted(room[d], k, b)))
    BY <1>8 DEF Asserting, Converging
  <2>2. PICK k \in DOMAIN room[d].players, b \in BOOLEAN :
          \/ room' = Put(d, Asserted(room[d], k, b))
          \/ room' = Put(d, Merged(Asserted(room[d], k, b)))
    BY <2>1
  <2> QED
    BY <1>1, <1>2, <2>2, SeatsKeptByAsserted
<1>9. CASE LinkingUp
  <2>1. PICK d \in DOMAIN room : room' = Put(d, Merged(room[d]))
    BY <1>9 DEF LinkingUp
  <2>2. SeatsKept(room[d], Merged(room[d]))
    BY <1>1, MergedProperties, SeatsKeptByItself
  <2> QED
    BY <1>2, <2>1, <2>2
<1>10. CASE Ageing
  <2>1. PICK d \in DOMAIN room : room' = Put(d, [room[d] EXCEPT !.expired = TRUE])
    BY <1>10 DEF Ageing
  <2>2. SeatsKept(room[d], [room[d] EXCEPT !.expired = TRUE])
    BY <1>1, SeatsKeptByItself DEF Room
  <2> QED
    BY <1>2, <2>1, <2>2
<1>11. CASE Collecting
  BY <1>3, <1>11 DEF Collecting
<1> QED
  BY <1>4, <1>5, <1>6, <1>7, <1>8, <1>9, <1>10, <1>11 DEF RecordStep

\* Seats never move and are never reused: a kick by seat hits the player of
\* the roster it was sent on, or nobody.
THEOREM SeatsHold == Spec => SeatsNeverReused
<1> DEFINE Kept ==
      \A c \in DOMAIN room \cap DOMAIN room' :
        /\ room'[c].nextSeat >= room[c].nextSeat
        /\ \A p \in ToSet(room'[c].players) :
             \/ \E q \in ToSet(room[c].players) : q.id = p.id /\ q.seat = p.seat
             \/ p.seat >= room[c].nextSeat
<1>1. IInv /\ [Next]_vars => [Kept]_vars
  <2> SUFFICES ASSUME IInv, [Next]_vars, NEW c \in DOMAIN room \cap DOMAIN room'
               PROVE  /\ room'[c].nextSeat >= room[c].nextSeat
                      /\ \A p \in ToSet(room'[c].players) :
                           \/ \E q \in ToSet(room[c].players) : q.id = p.id /\ q.seat = p.seat
                           \/ p.seat >= room[c].nextSeat
    OBVIOUS
  <2>1. SeatsKept(room[c], room'[c])
    BY RecordSteps, SeatsKeptByStep
  <2> QED
    BY <2>1 DEF SeatsKept, ToSet
<1>2. Spec => [][Kept]_vars
  BY <1>1, InductiveInvariant, PTL DEF Spec
<1> QED
  BY <1>2 DEF SeatsNeverReused

-----------------------------------------------------------------------------
(* Deletions *)

\* What justifies that the record of code c goes.
MayGo(c) ==
  \/ room[c].expired
  \/ \A p \in ToSet(room[c].players) :
       \/ sock[p.id].link = "gone"
       \/ sock'[p.id].code = NoCode \/ sock'[p.id].link = "broken"

LEMMA DepartDeletes ==
  ASSUME IInv, NEW s \in Socket, NEW link \in {"closing", "broken", "gone"},
         Depart(s, link), NEW c \in DOMAIN room \ DOMAIN room'
  PROVE  MayGo(c)
<1> DEFINE d    == sock[s].code
           left == Without(room[d], Position(room[d], s))
<1>1. sock'[s].code = NoCode \/ sock'[s].link = "broken"
  BY DetachedAttachment, SockExcept DEF Depart, IInv
<1>2. Placed(s) /\ left.players = <<>> /\ c = d
  <2>1. CASE ~Placed(s)
    BY <2>1 DEF Depart
  <2>2. CASE Placed(s) /\ left.players # <<>>
    <3>1. room' = Put(d, left)
      BY <2>2 DEF Depart
    <3> HIDE DEF left, d
    <3> QED
      BY <3>1, PutFacts
  <2>3. CASE Placed(s) /\ left.players = <<>>
    <3>1. room' = Delete({d})
      BY <2>3 DEF Depart
    <3> QED
      BY <2>3, <3>1, DeleteFacts
  <2> QED
    BY <2>1, <2>2, <2>3
<1>3. /\ room[c] \in Room /\ WellListed(room[c])
      /\ Position(room[c], s) \in DOMAIN room[c].players
      /\ room[c].players[Position(room[c], s)].id = s
  BY <1>2, StoredRoom, RoomFields DEF IInv, Placed
<1>4. \A t : In(left, t) <=> In(room[c], t) /\ t # s
  BY <1>2, <1>3, WithoutListed
<1>5. \A t : In(room[c], t) => t = s
  BY <1>2, <1>4 DEF In
<1>6. \A p \in ToSet(room[c].players) : p.id = s
  BY <1>5 DEF In, ToSet
<1> QED
  BY <1>1, <1>6 DEF MayGo

LEMMA SweepDeletes ==
  ASSUME IInv, Sweep, NEW c \in DOMAIN room \ DOMAIN room'
  PROVE  MayGo(c)
<1>1. Abandoned(c) \/ room[c].expired
  BY DeleteFacts DEF Sweep
<1>2. ASSUME Abandoned(c), NEW p \in ToSet(room[c].players)
      PROVE  sock[p.id].link = "gone"
  <2>1. PICK i \in DOMAIN room[c].players : room[c].players[i] = p
    BY DEF ToSet
  <2>2. In(room[c], p.id) /\ sock[p.id].link \in {"new", "gone"}
    BY <1>2, <2>1 DEF In, Abandoned
  <2>3. sock[p.id].link \notin {"new", "broken"}
    BY <2>2, StoredRoom DEF IInv
  <2> QED
    BY <2>2, <2>3
<1> QED
  BY <1>1, <1>2 DEF MayGo

\* A record goes only from under sockets that are gone, that leave in this
\* very step, or that outstayed the age limit.
THEOREM DeletionsHold == Spec => DeletedOnlyWhenEmpty
<1> DEFINE Rightly ==
      \A c \in DOMAIN room \ DOMAIN room' :
        \/ room[c].expired
        \/ \A p \in ToSet(room[c].players) :
             \/ sock[p.id].link = "gone"
             \/ sock'[p.id].code = NoCode \/ sock'[p.id].link = "broken"
<1>1. IInv /\ [Next]_vars => [Rightly]_vars
  <2> SUFFICES ASSUME IInv, [Next]_vars, NEW c \in DOMAIN room \ DOMAIN room'
               PROVE  MayGo(c)
    BY DEF MayGo
  <2>1. ASSUME NEW d, NEW r PROVE room' # Put(d, r)
    BY PutFacts
  <2>2. room' # room
    OBVIOUS
  <2>3. ASSUME NEW s \in Socket, Environment(s) PROVE MayGo(c)
    <3>1. CASE Connect(s) \/ LoseSocket(s)
      BY <2>2, <3>1 DEF Connect, LoseSocket
    <3>2. CASE CloseEvent(s) \/ \E link \in Exits(s) : ErrorEvent(s, link)
      BY <3>2, DepartDeletes DEF CloseEvent, ErrorEvent, Exits
    <3> QED
      BY <2>3, <3>1, <3>2 DEF Environment
  <2>4. ASSUME NEW s \in Socket, Entry(s) PROVE MayGo(c)
    BY <2>1, <2>2, <2>4
    DEF Entry, CreateRoom, JoinRoom, RefuseEntry, RefuseReentry, RefuseVersion, RefuseJoin
  <2>5. ASSUME NEW s \in Socket, Member(s) PROVE MayGo(c)
    <3>1. CASE \E link \in Exits(s) : Leave(s, link)
      BY <3>1, DepartDeletes DEF Leave, Exits
    <3>2. CASE \/ \E ready \in BOOLEAN : SetReady(s, ready)
               \/ StartRoom(s)
               \/ \E seat \in Seats, link \in {"closing", "broken"} :
                    KickPlayer(s, seat, link)
      BY <2>1, <3>2 DEF SetReady, StartRoom, KickPlayer
    <3>3. CASE \/ RefuseStart(s) \/ RefuseSignal(s) \/ IgnoreMessage(s)
               \/ \E to \in 1 .. WirelessSeats, p \in Payload : RelaySignal(s, to, p)
               \/ \E seat \in Seats : RefuseKick(s, seat)
      BY <2>2, <3>3 DEF RefuseStart, RefuseSignal, IgnoreMessage, RelaySignal, RefuseKick
    <3> QED
      BY <2>5, <3>1, <3>2, <3>3 DEF Member
  <2>6. ASSUME NEW d \in Code, Expire(d) PROVE MayGo(c)
    BY <2>6 DEF Expire
  <2> QED
    BY <2>2, <2>3, <2>4, <2>5, <2>6, SweepDeletes DEF Next, vars
<1>2. Spec => [][Rightly]_vars
  BY <1>1, InductiveInvariant, PTL DEF Spec
<1> QED
  BY <1>2 DEF DeletedOnlyWhenEmpty

-----------------------------------------------------------------------------
(* What a record remembers of its last merge.  Two facts that no record and *)
(* no attachment shows by itself: everyone of the last merge who is still   *)
(* connected carries its stamp; and a wireless room with everyone's consent *)
(* is merged as it stands.                                                  *)

MergeKnown ==
  \A c \in DOMAIN room : \A i \in DOMAIN room[c].lastMerge :
    LET t == room[c].lastMerge[i] IN
    /\ sock[t].link # "new"
    /\ sock[t].link = "open" =>
         /\ sock[t].code = c
         /\ sock[t].session = [idx |-> i, peers |-> room[c].lastMerge]

MergedOnce(r) == r.wireless /\ Unanimous(r) => r.lastMerge = Ids(r)

RInv ==
  /\ IInv
  /\ MergeKnown
  /\ \A c \in DOMAIN room : MergedOnce(room[c])

LEMMA LastMergeFields ==
  ASSUME NEW r \in Room
  PROVE  /\ Len(r.lastMerge) \in Nat /\ DOMAIN r.lastMerge = 1 .. Len(r.lastMerge)
         /\ \A i \in DOMAIN r.lastMerge : r.lastMerge[i] \in Socket
<1>1. r.lastMerge \in Seq(Socket)
  BY RoomFields
<1> QED
  BY <1>1, LenProperties, ElementOfSeq

\* Two or more are never unanimous when one of them is not ready.
LEMMA NotUnanimous ==
  ASSUME NEW r, NEW i \in DOMAIN r.players, r.players[i].ready = FALSE
  PROVE  ~Unanimous(r)
  BY DEF Unanimous, AllReady

LEMMA WithoutRemembers ==
  ASSUME NEW r \in Room, NEW k \in DOMAIN r.players
  PROVE  MergedOnce(Without(r, k))
<1> DEFINE q == Without(r, k)
<1>1. /\ q \in Room /\ Len(q.players) = Len(r.players) - 1
      /\ \A j \in DOMAIN q.players :
           LET i == IF j < k THEN j ELSE j + 1 IN
           i \in DOMAIN r.players /\ q.players[j] = [r.players[i] EXCEPT !.ready = FALSE]
  BY WithoutProperties
<1>2. /\ Len(r.players) \in Nat /\ DOMAIN r.players = 1 .. Len(r.players)
      /\ \A i \in DOMAIN r.players : r.players[i] \in Player
  BY RoomFields
<1>3. DOMAIN q.players = 1 .. Len(r.players) - 1
  BY <1>1, RoomFields
<1> HIDE DEF q
<1>4. CASE Len(q.players) >= 2
  <2>1. 1 \in DOMAIN q.players
    BY <1>1, <1>2, <1>3, <1>4
  <2>2. PICK i \in DOMAIN r.players : q.players[1] = [r.players[i] EXCEPT !.ready = FALSE]
    BY <1>1, <2>1
  <2>3. [r.players[i] EXCEPT !.ready = FALSE].ready = FALSE
    BY <1>2, PlayerReadiness
  <2> QED
    BY <2>1, <2>2, <2>3, NotUnanimous DEF MergedOnce, q
<1>5. CASE ~(Len(q.players) >= 2)
  BY <1>5 DEF MergedOnce, Unanimous, q
<1> QED
  BY <1>4, <1>5

LEMMA SeatedRemembers ==
  ASSUME NEW r \in Room, NEW s \in Socket, NEW rom \in Rom
  PROVE  MergedOnce(Seated(r, s, rom))
<1> DEFINE q == Seated(r, s, rom)
           n == Len(r.players)
<1>1. /\ q \in Room /\ Len(q.players) = n + 1
      /\ q.players[n + 1] = Newcomer(s, rom, r.nextSeat)
  BY SeatedProperties
<1>2. n \in Nat /\ DOMAIN q.players = 1 .. n + 1
  BY <1>1, RoomFields
<1>3. q.players[n + 1].ready = FALSE /\ n + 1 \in DOMAIN q.players
  BY <1>1, <1>2 DEF Newcomer
<1> QED
  BY <1>3, NotUnanimous DEF MergedOnce

LEMMA AssertedRemembers ==
  ASSUME NEW r, ~Converged(r)
  PROVE  MergedOnce(r)
  BY DEF MergedOnce, Converged

LEMMA MergedRemembers ==
  ASSUME NEW r \in Room
  PROVE  MergedOnce(Merged(r))
<1>1. Merged(r).lastMerge = Ids(r) /\ Ids(Merged(r)) = Ids(r)
  BY MergedProperties, IdsOfRoom DEF Ids
<1> QED
  BY <1>1 DEF MergedOnce

LEMMA NewRoomRemembers ==
  ASSUME NEW s \in Socket, NEW rom \in Rom, NEW w \in BOOLEAN
  PROVE  MergedOnce(NewRoom(s, rom, w))
<1>1. Len(NewRoom(s, rom, w).players) = 1
  BY NewRoomProperties
<1> QED
  BY <1>1 DEF MergedOnce, Unanimous

\* Nobody enters a room that lists it.
LEMMA NewcomersAreNew ==
  ASSUME IInv, NEW c \in DOMAIN room, NEW s \in Socket, sock[s].code = NoCode
  PROVE  ~In(room[c], s)
<1>1. c # NoCode /\ \A t : In(room[c], t) => sock[t].code = c
  BY StoredRoom DEF IInv
<1> QED
  BY <1>1

\* A steady step keeps or voids the last merge of a room.
LEMMA SteadyKeepsMerges ==
  ASSUME IInv, RecordStep, ~Converging, ~LinkingUp, NEW c \in DOMAIN room'
  PROVE  \/ DOMAIN room'[c].lastMerge = {}
         \/ c \in DOMAIN room /\ room'[c].lastMerge = room[c].lastMerge
<1>1. \A d \in DOMAIN room : room[d] \in Room
  BY StoredRoom DEF IInv
<1>2. ASSUME NEW d, NEW q, room' = Put(d, q),
             \/ DOMAIN q.lastMerge = {}
             \/ d \in DOMAIN room /\ q.lastMerge = room[d].lastMerge
      PROVE  \/ DOMAIN room'[c].lastMerge = {}
             \/ c \in DOMAIN room /\ room'[c].lastMerge = room[c].lastMerge
  <2>1. CASE d = c
    BY <1>2, <2>1, PutFacts
  <2>2. CASE d # c
    <3>1. /\ DOMAIN room' = DOMAIN room \cup {d}
          /\ \A e \in DOMAIN room : e # d => room'[e] = room[e]
      BY <1>2, PutFacts
    <3>2. c \in DOMAIN room
      BY <2>2, <3>1
    <3> QED
      BY <2>2, <3>1, <3>2
  <2> QED
    BY <2>1, <2>2
<1>3. CASE room' = room
  BY <1>3
<1>4. CASE Founding
  <2>1. PICK d \in Code \ DOMAIN room, s \in Socket, rom \in Rom, w \in BOOLEAN :
          room' = Put(d, NewRoom(s, rom, w))
    BY <1>4 DEF Founding
  <2>2. DOMAIN NewRoom(s, rom, w).lastMerge = {}
    BY DEF NewRoom, NoMerge
  <2> QED
    BY <1>2, <2>1, <2>2
<1>5. CASE Seating
  BY <1>1, <1>2, <1>5, SeatedProperties DEF Seating
<1>6. CASE Parting
  <2>1. PICK d \in DOMAIN room : \E k \in DOMAIN room[d].players :
          LET left == Without(room[d], k) IN
          room' = IF left.players = <<>> THEN Delete({d}) ELSE Put(d, left)
    BY <1>6 DEF Parting
  <2>2. PICK k \in DOMAIN room[d].players :
          room' = Delete({d}) \/ room' = Put(d, Without(room[d], k))
    BY <2>1
  <2>3. CASE room' = Delete({d})
    BY <2>3, DeleteFacts
  <2> QED
    BY <1>1, <1>2, <2>2, <2>3, WithoutProperties
<1>7. CASE Asserting
  <2>1. PICK d \in DOMAIN room : \E k \in DOMAIN room[d].players, b \in BOOLEAN :
          room' = Put(d, Asserted(room[d], k, b))
    BY <1>7 DEF Asserting
  <2>2. PICK k \in DOMAIN room[d].players, b \in BOOLEAN :
          room' = Put(d, Asserted(room[d], k, b))
    BY <2>1
  <2>3. Asserted(room[d], k, b).lastMerge \in {room[d].lastMerge, NoMerge}
    BY <1>1, AssertedProperties
  <2>4. DOMAIN NoMerge = {}
    BY DEF NoMerge
  <2> QED
    BY <1>2, <2>2, <2>3, <2>4
<1>8. CASE Ageing
  <2>1. PICK d \in DOMAIN room : room' = Put(d, [room[d] EXCEPT !.expired = TRUE])
    BY <1>8 DEF Ageing
  <2>2. [room[d] EXCEPT !.expired = TRUE].lastMerge = room[d].lastMerge
    BY <1>1 DEF Room
  <2> QED
    BY <1>2, <2>1, <2>2
<1>9. CASE Collecting
  <2>1. PICK C \in SUBSET DOMAIN room : room' = Delete(C)
    BY <1>9 DEF Collecting
  <2>2. c \in DOMAIN room /\ room'[c] = room[c]
    BY <2>1, DeleteFacts
  <2> QED
    BY <2>2
<1> QED
  BY <1>3, <1>4, <1>5, <1>6, <1>7, <1>8, <1>9 DEF RecordStep

LEMMA MergeKnownSteady ==
  ASSUME IInv, MergeKnown, RecordStep, ~Converging, ~LinkingUp
  PROVE  MergeKnown'
<1> SUFFICES ASSUME NEW c \in DOMAIN room', NEW i \in DOMAIN room'[c].lastMerge
             PROVE  LET t == room'[c].lastMerge[i] IN
                    /\ sock'[t].link # "new"
                    /\ sock'[t].link = "open" =>
                         /\ sock'[t].code = c
                         /\ sock'[t].session = [idx |-> i, peers |-> room'[c].lastMerge]
  BY DEF MergeKnown
<1> DEFINE t == room[c].lastMerge[i]
<1>1. c \in DOMAIN room /\ room'[c].lastMerge = room[c].lastMerge
  BY SteadyKeepsMerges
<1>2. t \in Socket /\ c # NoCode
  BY <1>1, StoredRoom, LastMergeFields DEF IInv
<1>3. /\ sock[t].link # "new"
      /\ sock[t].link = "open" =>
           /\ sock[t].code = c
           /\ sock[t].session = [idx |-> i, peers |-> room[c].lastMerge]
  BY <1>1 DEF MergeKnown
<1>4. Steady
  BY DEF RecordStep
<1> HIDE DEF t
<1>5. /\ sock'[t].link # "new"
      /\ sock'[t].link = "open" =>
           /\ sock'[t].code = c
           /\ sock'[t].session = [idx |-> i, peers |-> room[c].lastMerge]
  BY <1>2, <1>3, <1>4 DEF Steady
<1> QED
  BY <1>1, <1>5 DEF t

\* A merge stamps everyone of it that is still connected.
LEMMA MergeKnownMerging ==
  ASSUME IInv, MergeKnown, NEW d \in DOMAIN room, NEW r \in Room, WellListed(r),
         \A t : In(r, t) <=> In(room[d], t),
         room' = Put(d, Merged(r)), sock' = Stamped(d, r)
  PROVE  MergeKnown'
<1>1. \A t : In(r, t) => /\ t \in Socket /\ sock[t].code = d
                         /\ sock[t].link \notin {"new", "broken"}
  BY StoredRoom DEF IInv
<1>2. ASSUME NEW t \in Socket
      PROVE  /\ In(r, t) /\ Speaking(t) =>
                  /\ sock'[t].link = sock[t].link /\ sock'[t].code = d
                  /\ sock'[t].session = [idx |-> Position(r, t), peers |-> Ids(r)]
             /\ ~(In(r, t) /\ Speaking(t)) => sock'[t] = sock[t]
  BY DEF Stamped
<1> SUFFICES ASSUME NEW c \in DOMAIN room', NEW i \in DOMAIN room'[c].lastMerge
             PROVE  LET t == room'[c].lastMerge[i] IN
                    /\ sock'[t].link # "new"
                    /\ sock'[t].link = "open" =>
                         /\ sock'[t].code = c
                         /\ sock'[t].session = [idx |-> i, peers |-> room'[c].lastMerge]
  BY DEF MergeKnown
<1>3. CASE c = d
  <2>1. room'[c].lastMerge = Ids(r)
    <3>1. room'[d] = Merged(r)
      BY PutFacts
    <3> QED
      BY <1>3, <3>1, MergedProperties
  <2> DEFINE t == Ids(r)[i]
  <2>2. i \in DOMAIN r.players /\ t = r.players[i].id /\ In(r, t)
    BY <2>1, IdsOfRoom DEF In
  <2>3. Position(r, t) \in DOMAIN r.players /\ r.players[Position(r, t)].id = t
    BY <2>2, RoomFields
  <2> HIDE DEF t
  <2>4. Position(r, t) = i
    BY <2>2, <2>3 DEF WellListed
  <2>5. t \in Socket /\ sock[t].link # "new"
    BY <1>1, <2>2
  <2>6. CASE Speaking(t)
    <3>1. /\ sock'[t].link # "new" /\ sock'[t].code = d
          /\ sock'[t].session = [idx |-> i, peers |-> Ids(r)]
      BY <1>2, <2>2, <2>4, <2>5, <2>6
    <3> QED
      BY <1>3, <2>1, <3>1 DEF t
  <2>7. CASE ~Speaking(t)
    <3>1. sock'[t] = sock[t] /\ sock[t].link # "open"
      BY <1>2, <2>5, <2>7 DEF Speaking
    <3> QED
      BY <2>1, <2>5, <3>1 DEF t
  <2> QED
    BY <2>6, <2>7
<1>4. CASE c # d
  <2>1. c \in DOMAIN room /\ room'[c] = room[c]
    BY <1>4, PutFacts
  <2> DEFINE t == room[c].lastMerge[i]
  <2>2. t \in Socket
    BY <2>1, StoredRoom, LastMergeFields DEF IInv
  <2>3. /\ sock[t].link # "new"
        /\ sock[t].link = "open" =>
             /\ sock[t].code = c
             /\ sock[t].session = [idx |-> i, peers |-> room[c].lastMerge]
    BY <2>1 DEF MergeKnown
  <2> HIDE DEF t
  <2>4. sock'[t].link = sock[t].link
    BY <1>2, <2>2
  <2>5. sock[t].link = "open" => sock'[t] = sock[t]
    BY <1>1, <1>2, <1>4, <2>2, <2>3
  <2> QED
    BY <2>1, <2>3, <2>4, <2>5 DEF t
<1> QED
  BY <1>3, <1>4

\* What the two merging writes have in common.
LEMMA MergingWrites ==
  ASSUME IInv, Converging \/ LinkingUp
  PROVE  \E d \in DOMAIN room, r \in Room :
           /\ WellListed(r) /\ \A t : In(r, t) <=> In(room[d], t)
           /\ room' = Put(d, Merged(r)) /\ sock' = Stamped(d, r)
<1>1. \A d \in DOMAIN room : room[d] \in Room /\ WellListed(room[d])
  BY StoredRoom DEF IInv
<1>2. CASE Converging
  <2>1. PICK d \in DOMAIN room : \E k \in DOMAIN room[d].players, b \in BOOLEAN :
          LET r == Asserted(room[d], k, b) IN
          room' = Put(d, Merged(r)) /\ sock' = Stamped(d, r)
    BY <1>2 DEF Converging
  <2>2. PICK k \in DOMAIN room[d].players, b \in BOOLEAN :
          LET r == Asserted(room[d], k, b) IN
          room' = Put(d, Merged(r)) /\ sock' = Stamped(d, r)
    BY <2>1
  <2> DEFINE r == Asserted(room[d], k, b)
  <2>3. r \in Room /\ WellListed(r) /\ \A t : In(r, t) <=> In(room[d], t)
    BY <1>1, AssertedProperties, AssertedListed
  <2>4. room' = Put(d, Merged(r)) /\ sock' = Stamped(d, r)
    BY <2>2
  <2> HIDE DEF r
  <2> QED
    BY <2>3, <2>4
<1>3. CASE LinkingUp
  BY <1>1, <1>3 DEF LinkingUp
<1> QED
  BY <1>2, <1>3

LEMMA RecordsRemember ==
  ASSUME RInv, RecordStep, NEW c \in DOMAIN room'
  PROVE  MergedOnce(room'[c])
<1> DEFINE Good(r) == MergedOnce(r)
<1>1. \A d \in DOMAIN room : room[d] \in Room /\ WellListed(room[d]) /\ Good(room[d])
  BY StoredRoom DEF IInv, RInv
<1>2. ASSUME NEW d, NEW q, room' = Put(d, q), Good(q)
      PROVE  Good(room'[c])
  <2>1. /\ DOMAIN room' = DOMAIN room \cup {d} /\ room'[d] = q
        /\ \A e \in DOMAIN room : e # d => room'[e] = room[e]
    BY <1>2, PutFacts
  <2>2. CASE c = d
    BY <1>2, <2>1, <2>2
  <2>3. CASE c # d
    <3>1. c \in DOMAIN room /\ room'[c] = room[c]
      BY <2>1, <2>3
    <3> QED
      BY <1>1, <3>1
  <2> QED
    BY <2>2, <2>3
<1>3. ASSUME NEW C, room' = Delete(C)
      PROVE  Good(room'[c])
  <2>1. c \in DOMAIN room /\ room'[c] = room[c]
    BY <1>3, DeleteFacts
  <2> QED
    BY <1>1, <2>1
<1> SUFFICES Good(room'[c])
  OBVIOUS
<1> HIDE DEF Good
<1>4. CASE room' = room
  BY <1>1, <1>4
<1>5. CASE Founding
  <2>1. PICK d \in Code \ DOMAIN room, s \in Socket, rom \in Rom, w \in BOOLEAN :
          room' = Put(d, NewRoom(s, rom, w))
    BY <1>5 DEF Founding
  <2>2. Good(NewRoom(s, rom, w))
    BY NewRoomRemembers DEF Good
  <2> QED
    BY <1>2, <2>1, <2>2
<1>6. CASE Seating
  <2>1. PICK d \in DOMAIN room, s \in Socket, rom \in Rom :
          /\ sock[s].link # "new" /\ sock[s].code = NoCode
          /\ room' = Put(d, Seated(room[d], s, rom))
    BY <1>6 DEF Seating
  <2>2. Good(Seated(room[d], s, rom))
    BY <1>1, SeatedRemembers DEF Good
  <2> QED
    BY <1>2, <2>1, <2>2
<1>7. CASE Parting
  <2>1. PICK d \in DOMAIN room : \E k \in DOMAIN room[d].players :
          LET left == Without(room[d], k) IN
          room' = IF left.players = <<>> THEN Delete({d}) ELSE Put(d, left)
    BY <1>7 DEF Parting
  <2>2. PICK k \in DOMAIN room[d].players :
          room' = Delete({d}) \/ room' = Put(d, Without(room[d], k))
    BY <2>1
  <2>3. Good(Without(room[d], k))
    BY <1>1, WithoutRemembers DEF Good
  <2> QED
    BY <1>2, <1>3, <2>2, <2>3
<1>8. CASE Asserting
  <2>1. PICK d \in DOMAIN room : \E k \in DOMAIN room[d].players, b \in BOOLEAN :
          LET r == Asserted(room[d], k, b) IN ~Converged(r) /\ room' = Put(d, r)
    BY <1>8 DEF Asserting
  <2>2. PICK k \in DOMAIN room[d].players, b \in BOOLEAN :
          LET r == Asserted(room[d], k, b) IN ~Converged(r) /\ room' = Put(d, r)
    BY <2>1
  <2>3. Good(Asserted(room[d], k, b))
    BY <1>1, <2>2, AssertedRemembers DEF Good
  <2> QED
    BY <1>2, <2>2, <2>3
<1>9. CASE Converging \/ LinkingUp
  <2>1. PICK d \in DOMAIN room, r \in Room : room' = Put(d, Merged(r))
    BY <1>9, MergingWrites DEF RInv
  <2>2. Good(Merged(r))
    BY MergedRemembers DEF Good
  <2> QED
    BY <1>2, <2>1, <2>2
<1>10. CASE Ageing
  <2>1. PICK d \in DOMAIN room : room' = Put(d, [room[d] EXCEPT !.expired = TRUE])
    BY <1>10 DEF Ageing
  <2> DEFINE r == room[d]
             q == [r EXCEPT !.expired = TRUE]
  <2>2. /\ q.players = r.players /\ q.lastMerge = r.lastMerge /\ q.wireless = r.wireless
    BY <1>1 DEF Room
  <2>3. Good(r)
    BY <1>1
  <2> HIDE DEF q, r
  <2>4. Good(q)
    BY <2>2, <2>3 DEF Good, MergedOnce, Unanimous, AllReady, Ids
  <2> QED
    BY <1>2, <2>1, <2>4 DEF q, r
<1>11. CASE Collecting
  BY <1>3, <1>11 DEF Collecting
<1> QED
  BY <1>4, <1>5, <1>6, <1>7, <1>8, <1>9, <1>10, <1>11 DEF RecordStep

LEMMA InitRInv == Init => RInv
<1> SUFFICES ASSUME Init PROVE RInv
  OBVIOUS
<1>1. DOMAIN room = {}
  BY DEF Init
<1> QED
  BY <1>1, InitIInv DEF RInv, MergeKnown

LEMMA StepRInv == RInv /\ [Next]_vars => RInv'
<1> SUFFICES ASSUME RInv, [Next]_vars PROVE RInv'
  OBVIOUS
<1>1. IInv /\ IInv' /\ MergeKnown
  BY StepIInv DEF RInv
<1>2. RecordStep
  BY <1>1, RecordSteps
<1>3. MergeKnown'
  <2>1. CASE Converging \/ LinkingUp
    BY <1>1, <2>1, MergingWrites, MergeKnownMerging
  <2>2. CASE ~Converging /\ ~LinkingUp
    BY <1>1, <1>2, <2>2, MergeKnownSteady
  <2> QED
    BY <2>1, <2>2
<1>4. \A c \in DOMAIN room' : MergedOnce(room'[c])
  BY <1>2, RecordsRemember
<1> QED
  BY <1>1, <1>3, <1>4 DEF RInv, MergedOnce, Unanimous, AllReady, Ids

LEMMA RecordsInvariant == Spec => []RInv
  BY InitRInv, StepRInv, PTL DEF Spec

\* A wireless room never waits once it has converged: with two or more, all
\* ready, the last merge is of exactly these members, and each of them still
\* connected carries its stamp.
THEOREM ConvergedHolds == Spec => []ConvergedIsMerged
<1>1. RInv => ConvergedIsMerged
  <2> SUFFICES ASSUME RInv, NEW c \in DOMAIN room,
                      room[c].wireless, Unanimous(room[c])
               PROVE  /\ room[c].lastMerge = Ids(room[c])
                      /\ \A i \in DOMAIN room[c].players :
                           LET t == room[c].players[i].id IN
                           sock[t].link = "open" =>
                             sock[t].session = [idx |-> i, peers |-> Ids(room[c])]
    BY DEF ConvergedIsMerged
  <2>1. room[c].lastMerge = Ids(room[c])
    BY DEF RInv, MergedOnce
  <2>2. room[c] \in Room
    BY StoredRoom DEF RInv, IInv
  <2>3. ASSUME NEW i \in DOMAIN room[c].players,
               sock[room[c].players[i].id].link = "open"
        PROVE  sock[room[c].players[i].id].session = [idx |-> i, peers |-> Ids(room[c])]
    <3>1. i \in DOMAIN room[c].lastMerge /\ room[c].lastMerge[i] = room[c].players[i].id
      BY <2>1, <2>2, IdsOfRoom
    <3> QED
      BY <2>1, <2>3, <3>1 DEF RInv, MergeKnown
  <2> QED
    BY <2>1, <2>3
<1> QED
  BY <1>1, RecordsInvariant, PTL

-----------------------------------------------------------------------------
(* A record as the promise sees it *)

MembersOf(r) == ToSet(Ids(r))
ConsentOf(r) == {s \in ToSet(Ids(r)) : r.players[Position(r, s)].ready}
LinkedOf(r)  == ToSet(r.lastMerge)

LEMMA MembersAreListed ==
  ASSUME NEW r \in Room
  PROVE  /\ MembersOf(r) \subseteq Socket
         /\ \A t : t \in MembersOf(r) <=> In(r, t)
<1>1. \A t : In(r, t) => t \in Socket
  BY RoomFields DEF In
<1> QED
  BY <1>1, IdsOfRoom DEF MembersOf

\* Position finds the one place of a member.
LEMMA PositionIsUnique ==
  ASSUME NEW r \in Room, WellListed(r), NEW i \in DOMAIN r.players
  PROVE  Position(r, r.players[i].id) = i
<1>1. In(r, r.players[i].id)
  BY DEF In
<1> QED
  BY <1>1, RoomFields DEF WellListed

LEMMA ConsentByPlace ==
  ASSUME NEW r \in Room, WellListed(r)
  PROVE  \A t : t \in ConsentOf(r) <=>
           \E i \in DOMAIN r.players : r.players[i].id = t /\ r.players[i].ready
<1> SUFFICES ASSUME NEW t
             PROVE  t \in ConsentOf(r) <=>
               \E i \in DOMAIN r.players : r.players[i].id = t /\ r.players[i].ready
  OBVIOUS
<1>1. ASSUME t \in ConsentOf(r)
      PROVE  \E i \in DOMAIN r.players : r.players[i].id = t /\ r.players[i].ready
  <2>1. In(r, t) /\ r.players[Position(r, t)].ready
    BY <1>1, IdsOfRoom DEF ConsentOf
  <2> QED
    BY <2>1, RoomFields
<1>2. ASSUME NEW i \in DOMAIN r.players, r.players[i].id = t, r.players[i].ready
      PROVE  t \in ConsentOf(r)
  <2>1. In(r, t) /\ Position(r, t) = i
    BY <1>2, PositionIsUnique DEF In
  <2> QED
    BY <1>2, <2>1, IdsOfRoom DEF ConsentOf
<1> QED
  BY <1>1, <1>2

LEMMA NobodyConsents ==
  ASSUME NEW r \in Room, WellListed(r),
         \A i \in DOMAIN r.players : r.players[i].ready = FALSE
  PROVE  ConsentOf(r) = {}
  BY ConsentByPlace

LEMMA WithoutSeen ==
  ASSUME NEW r \in Room, NEW k \in DOMAIN r.players, WellListed(r),
         Without(r, k).players # <<>>
  PROVE  /\ MembersOf(Without(r, k)) = MembersOf(r) \ {r.players[k].id}
         /\ ConsentOf(Without(r, k)) = {}
         /\ LinkedOf(Without(r, k)) = LinkedOf(r)
         /\ Without(r, k).wireless = r.wireless
<1> DEFINE q == Without(r, k)
<1>1. /\ q \in Room /\ q.lastMerge = r.lastMerge /\ q.wireless = r.wireless
      /\ \A j \in DOMAIN q.players :
           LET i == IF j < k THEN j ELSE j + 1 IN
           i \in DOMAIN r.players /\ q.players[j] = [r.players[i] EXCEPT !.ready = FALSE]
  BY WithoutProperties
<1>2. WellListed(q) /\ \A t : In(q, t) <=> In(r, t) /\ t # r.players[k].id
  BY WithoutListed
<1> HIDE DEF q
<1>3. ASSUME NEW j \in DOMAIN q.players
      PROVE  q.players[j].ready = FALSE
  <2>1. PICK i \in DOMAIN r.players : q.players[j] = [r.players[i] EXCEPT !.ready = FALSE]
    BY <1>1
  <2>2. [r.players[i] EXCEPT !.ready = FALSE].ready = FALSE
    BY RoomFields, PlayerReadiness
  <2> QED
    BY <2>1, <2>2
<1>4. ConsentOf(q) = {}
  BY <1>1, <1>2, <1>3, NobodyConsents
<1>5. MembersOf(q) = MembersOf(r) \ {r.players[k].id}
  BY <1>1, <1>2, MembersAreListed
<1> QED
  BY <1>1, <1>4, <1>5 DEF LinkedOf, q

LEMMA SeatedSeen ==
  ASSUME NEW r \in Room, NEW s \in Socket, NEW rom \in Rom, WellListed(r), ~In(r, s)
  PROVE  /\ MembersOf(Seated(r, s, rom)) = MembersOf(r) \cup {s}
         /\ ConsentOf(Seated(r, s, rom)) = {}
         /\ LinkedOf(Seated(r, s, rom)) = LinkedOf(r)
         /\ Seated(r, s, rom).wireless = r.wireless
<1> DEFINE q == Seated(r, s, rom)
           n == Len(r.players)
<1>1. /\ q \in Room /\ q.lastMerge = r.lastMerge /\ q.wireless = r.wireless
      /\ Len(q.players) = n + 1
      /\ \A i \in DOMAIN r.players : q.players[i] = [r.players[i] EXCEPT !.ready = FALSE]
      /\ q.players[n + 1] = Newcomer(s, rom, r.nextSeat)
  BY SeatedProperties
<1>2. WellListed(q) /\ \A t : In(q, t) <=> In(r, t) \/ t = s
  BY SeatedListed
<1>3. q.players[n + 1].ready = FALSE
  BY <1>1 DEF Newcomer
<1>4. \A i \in DOMAIN q.players : i \in DOMAIN r.players \/ i = n + 1
  BY <1>1, RoomFields
<1> HIDE DEF q, n
<1>5. ASSUME NEW i \in DOMAIN r.players
      PROVE  q.players[i].ready = FALSE
  <2>1. [r.players[i] EXCEPT !.ready = FALSE].ready = FALSE
    BY RoomFields, PlayerReadiness
  <2> QED
    BY <1>1, <2>1
<1>6. ConsentOf(q) = {}
  BY <1>1, <1>2, <1>3, <1>4, <1>5, NobodyConsents
<1>7. MembersOf(q) = MembersOf(r) \cup {s}
  BY <1>1, <1>2, MembersAreListed
<1> QED
  BY <1>1, <1>6, <1>7 DEF LinkedOf, q

LEMMA NewRoomSeen ==
  ASSUME NEW s \in Socket, NEW rom \in Rom, NEW w \in BOOLEAN
  PROVE  /\ MembersOf(NewRoom(s, rom, w)) = {s}
         /\ ConsentOf(NewRoom(s, rom, w)) = {}
         /\ LinkedOf(NewRoom(s, rom, w)) = {}
         /\ NewRoom(s, rom, w).wireless = w
<1> DEFINE q == NewRoom(s, rom, w)
<1>1. /\ q \in Room /\ WellListed(q) /\ \A t : In(q, t) <=> t = s
      /\ q.players = <<Newcomer(s, rom, 0)>>
      /\ q.lastMerge = NoMerge /\ q.wireless = w
  BY NewRoomProperties, NewRoomListed DEF NewRoom
<1>2. \A i \in DOMAIN q.players : q.players[i].ready = FALSE
  BY <1>1 DEF Newcomer
<1> HIDE DEF q
<1>3. MembersOf(q) = {s}
  BY <1>1, MembersAreListed
<1>4. ConsentOf(q) = {}
  BY <1>1, <1>2, NobodyConsents
<1>5. LinkedOf(q) = {}
  BY <1>1 DEF LinkedOf, ToSet, NoMerge
<1> QED
  BY <1>1, <1>3, <1>4, <1>5 DEF q

LEMMA AssertedSeen ==
  ASSUME NEW r \in Room, NEW k \in DOMAIN r.players, NEW b \in BOOLEAN, WellListed(r)
  PROVE  LET s == r.players[k].id IN
         /\ MembersOf(Asserted(r, k, b)) = MembersOf(r)
         /\ ConsentOf(Asserted(r, k, b)) =
              IF b THEN ConsentOf(r) \cup {s} ELSE ConsentOf(r) \ {s}
         /\ LinkedOf(Asserted(r, k, b)) =
              IF ~b /\ s \in LinkedOf(r) THEN {} ELSE LinkedOf(r)
         /\ Asserted(r, k, b).wireless = r.wireless
<1> DEFINE q == Asserted(r, k, b)
           s == r.players[k].id
<1>1. /\ q \in Room /\ DOMAIN q.players = DOMAIN r.players
      /\ \A i \in DOMAIN r.players :
           q.players[i] = IF i = k THEN [r.players[i] EXCEPT !.ready = b] ELSE r.players[i]
      /\ q.wireless = r.wireless
  BY AssertedProperties
<1>2. WellListed(q) /\ \A t : In(q, t) <=> In(r, t)
  BY AssertedListed
<1>3. q.lastMerge = IF ~b /\ s \in ToSet(r.lastMerge) THEN NoMerge ELSE r.lastMerge
  BY DEF Asserted, Room
<1>4. ToSet(NoMerge) = {}
  BY DEF ToSet, NoMerge
<1> HIDE DEF q
<1>5. /\ q.players[k].id = s /\ q.players[k].ready = b
      /\ \A i \in DOMAIN r.players \ {k} : q.players[i] = r.players[i]
  <2> DEFINE p == [r.players[k] EXCEPT !.ready = b]
  <2>1. p.id = s /\ p.ready = b
    BY RoomFields, PlayerReadiness
  <2>2. q.players[k] = p
    BY <1>1
  <2> QED
    BY <1>1, <2>1, <2>2
<1>6. \A i \in DOMAIN r.players \ {k} : r.players[i].id # s
  BY DEF WellListed
<1> HIDE DEF s
<1>7. ASSUME NEW t
      PROVE  t \in ConsentOf(q) <=>
               IF t = s THEN b ELSE t \in ConsentOf(r)
  <2>1. CASE t = s
    <3>1. \A i \in DOMAIN q.players : q.players[i].id = s => i = k
      BY <1>1, <1>5, <1>6
    <3> QED
      BY <1>1, <1>2, <1>5, <2>1, <3>1, ConsentByPlace
  <2>2. CASE t # s
    <3>1. \A i \in DOMAIN r.players :
            r.players[i].id = t \/ q.players[i].id = t => q.players[i] = r.players[i]
      BY <1>5, <2>2 DEF s
    <3>2. (\E i \in DOMAIN q.players : q.players[i].id = t /\ q.players[i].ready) <=>
          (\E i \in DOMAIN r.players : r.players[i].id = t /\ r.players[i].ready)
      BY <1>1, <3>1
    <3> QED
      BY <1>1, <1>2, <2>2, <3>2, ConsentByPlace
  <2> QED
    BY <2>1, <2>2
<1>8. MembersOf(q) = MembersOf(r)
  BY <1>1, <1>2, MembersAreListed
<1>9. ConsentOf(q) = IF b THEN ConsentOf(r) \cup {s} ELSE ConsentOf(r) \ {s}
  BY <1>7
<1>10. LinkedOf(q) = IF ~b /\ s \in LinkedOf(r) THEN {} ELSE LinkedOf(r)
  BY <1>3, <1>4 DEF LinkedOf
<1> QED
  BY <1>1, <1>8, <1>9, <1>10 DEF q, s

LEMMA MergedSeen ==
  ASSUME NEW r \in Room
  PROVE  /\ MembersOf(Merged(r)) = MembersOf(r) /\ ConsentOf(Merged(r)) = ConsentOf(r)
         /\ LinkedOf(Merged(r)) = MembersOf(r) /\ Merged(r).wireless = r.wireless
<1>1. /\ Merged(r).players = r.players /\ Merged(r).lastMerge = Ids(r)
      /\ Merged(r).wireless = r.wireless
  BY MergedProperties
<1> QED
  BY <1>1 DEF MembersOf, ConsentOf, LinkedOf, Ids, Position

\* Consent of all two or more is what the promise calls a quorum.
LEMMA UnanimousIsQuorate ==
  ASSUME NEW r \in Room, WellListed(r)
  PROVE  Unanimous(r) <=> Promise!Quorate(MembersOf(r), ConsentOf(r))
<1>1. /\ Len(r.players) \in Nat /\ DOMAIN r.players = 1 .. Len(r.players)
      /\ \A t : t \in MembersOf(r) <=> \E i \in DOMAIN r.players : r.players[i].id = t
  BY RoomFields, MembersAreListed DEF In
<1>2. Len(r.players) >= 2 <=> \E s, t \in MembersOf(r) : s # t
  <2>1. ASSUME Len(r.players) >= 2
        PROVE  \E s, t \in MembersOf(r) : s # t
    <3>1. 1 \in DOMAIN r.players /\ 2 \in DOMAIN r.players
      BY <1>1, <2>1
    <3>2. r.players[1].id # r.players[2].id
      BY <3>1 DEF WellListed
    <3> QED
      BY <1>1, <3>1, <3>2
  <2>2. ASSUME NEW s \in MembersOf(r), NEW t \in MembersOf(r), s # t
        PROVE  Len(r.players) >= 2
    <3>1. PICK i \in DOMAIN r.players : r.players[i].id = s
      BY <1>1
    <3>2. PICK j \in DOMAIN r.players : r.players[j].id = t
      BY <1>1
    <3>3. i # j
      BY <2>2, <3>1, <3>2
    <3> QED
      BY <1>1, <3>3
  <2> QED
    BY <2>1, <2>2
<1>3. AllReady(r) <=> ConsentOf(r) = MembersOf(r)
  <2>1. ASSUME AllReady(r), NEW t
        PROVE  t \in ConsentOf(r) <=> t \in MembersOf(r)
    <3>1. \A i \in DOMAIN r.players : r.players[i].ready
      BY <2>1 DEF AllReady
    <3> QED
      BY <1>1, <3>1, ConsentByPlace
  <2>2. ASSUME ConsentOf(r) = MembersOf(r), NEW i \in DOMAIN r.players
        PROVE  r.players[i].ready
    <3>1. r.players[i].id \in ConsentOf(r)
      BY <1>1, <2>2
    <3>2. PICK j \in DOMAIN r.players :
            r.players[j].id = r.players[i].id /\ r.players[j].ready
      BY <3>1, ConsentByPlace
    <3>3. i = j
      BY <3>2 DEF WellListed
    <3> QED
      BY <3>2, <3>3
  <2> QED
    BY <2>1, <2>2 DEF AllReady
<1> QED
  BY <1>2, <1>3 DEF Unanimous, Promise!Quorate

\* A wireless room links when the promise says it must.  It also links its
\* members again when one of them left and came back, on a socket it had been
\* told to close: the code compares the ids of the last merge with those of the
\* roster in their order, the promise compares two sets, and it is the same
\* membership that is linked afterwards.
LEMMA ConvergedIsDue ==
  ASSUME NEW r \in Room, WellListed(r)
  PROVE  LET due == /\ r.wireless
                    /\ Promise!Quorate(MembersOf(r), ConsentOf(r))
                    /\ LinkedOf(r) # MembersOf(r)
         IN (IF Converged(r) THEN MembersOf(r) ELSE LinkedOf(r))
              = IF due THEN MembersOf(r) ELSE LinkedOf(r)
<1>1. r.lastMerge = Ids(r) => LinkedOf(r) = MembersOf(r)
  BY DEF LinkedOf, MembersOf
<1> QED
  BY <1>1, UnanimousIsQuorate DEF Converged

-----------------------------------------------------------------------------
(* The refinement: what each write does to the promise's variables, and the *)
(* action of the promise it is                                              *)

Members  == [c \in Code |-> IF c \in DOMAIN room THEN MembersOf(room[c]) ELSE {}]
Consent  == [c \in Code |-> IF c \in DOMAIN room THEN ConsentOf(room[c]) ELSE {}]
Merges   == [c \in Code |-> IF c \in DOMAIN room THEN LinkedOf(room[c]) ELSE {}]
Wireless == [c \in Code |-> c \in DOMAIN room /\ room[c].wireless]

LEMMA ViewFields ==
  /\ DOMAIN Members = Code /\ DOMAIN Consent = Code
  /\ DOMAIN Merges = Code /\ DOMAIN Wireless = Code
  /\ \A c \in DOMAIN room \cap Code :
       /\ Members[c] = MembersOf(room[c]) /\ Consent[c] = ConsentOf(room[c])
       /\ Merges[c] = LinkedOf(room[c]) /\ (Wireless[c] <=> room[c].wireless)
  /\ \A c \in Code \ DOMAIN room :
       Members[c] = {} /\ Consent[c] = {} /\ Merges[c] = {} /\ Wireless[c] = FALSE
  BY DEF Members, Consent, Merges, Wireless

\* Writing one record changes the view of one code.
LEMMA PutSeen ==
  ASSUME NEW c \in Code, NEW r, r.wireless \in BOOLEAN, room' = Put(c, r)
  PROVE  /\ Members' = [Members EXCEPT ![c] = MembersOf(r)]
         /\ Consent' = [Consent EXCEPT ![c] = ConsentOf(r)]
         /\ Merges' = [Merges EXCEPT ![c] = LinkedOf(r)]
         /\ Wireless' = [Wireless EXCEPT ![c] = r.wireless]
<1>1. /\ DOMAIN room' = DOMAIN room \cup {c} /\ room'[c] = r
      /\ \A d \in DOMAIN room : d # c => room'[d] = room[d]
  BY PutFacts
<1>2. Members' = [Members EXCEPT ![c] = MembersOf(r)]
  BY <1>1 DEF Members
<1>3. Consent' = [Consent EXCEPT ![c] = ConsentOf(r)]
  BY <1>1 DEF Consent
<1>4. Merges' = [Merges EXCEPT ![c] = LinkedOf(r)]
  BY <1>1 DEF Merges
<1>5. Wireless' = [Wireless EXCEPT ![c] = r.wireless]
  BY <1>1 DEF Wireless
<1> QED
  BY <1>2, <1>3, <1>4, <1>5

LEMMA DeleteSeen ==
  ASSUME NEW C, room' = Delete(C)
  PROVE  /\ Members' = [c \in Code |-> IF c \in C THEN {} ELSE Members[c]]
         /\ Consent' = [c \in Code |-> IF c \in C THEN {} ELSE Consent[c]]
         /\ Merges' = [c \in Code |-> IF c \in C THEN {} ELSE Merges[c]]
         /\ Wireless' = [c \in Code |-> IF c \in C THEN FALSE ELSE Wireless[c]]
<1>1. /\ DOMAIN room' = DOMAIN room \ C
      /\ \A d \in DOMAIN room' : room'[d] = room[d]
  BY DeleteFacts
<1> QED
  BY <1>1 DEF Members, Consent, Merges, Wireless

\* The view is what the INSTANCE substitutes: the actions of the promise, read
\* on the records.
LEMMA ViewOfInit ==
  (/\ Members = [c \in Code |-> {}] /\ Consent = [c \in Code |-> {}]
   /\ Merges = [c \in Code |-> {}] /\ Wireless = [c \in Code |-> FALSE])
  => Promise!Init
  BY DEF Promise!Init, Members, Consent, Merges, Wireless, MembersOf, ConsentOf, LinkedOf

LEMMA ViewOfOpen ==
  ASSUME NEW c \in Code, NEW s \in Socket, NEW w \in BOOLEAN,
         Members[c] = {}, \A d \in Code : s \notin Members[d],
         Members' = [Members EXCEPT ![c] = {s}],
         Consent' = [Consent EXCEPT ![c] = {}],
         Merges' = [Merges EXCEPT ![c] = {}],
         Wireless' = [Wireless EXCEPT ![c] = w]
  PROVE  Promise!Open(c, s)
  BY DEF Promise!Open, Promise!Outside, Members, Consent, Merges, Wireless,
         MembersOf, ConsentOf, LinkedOf

LEMMA ViewOfEnter ==
  ASSUME NEW c \in Code, NEW s \in Socket,
         Members[c] # {}, \A d \in Code : s \notin Members[d],
         Members' = [Members EXCEPT ![c] = Members[c] \cup {s}],
         Consent' = [Consent EXCEPT ![c] = {}],
         Merges' = Merges, Wireless' = Wireless
  PROVE  Promise!Enter(c, s)
  BY DEF Promise!Enter, Promise!Outside, Members, Consent, Merges, Wireless,
         MembersOf, ConsentOf, LinkedOf

LEMMA ViewOfExit ==
  ASSUME NEW c \in Code, NEW s \in Members[c],
         Members' = [Members EXCEPT ![c] = Members[c] \ {s}],
         Consent' = [Consent EXCEPT ![c] = {}],
         Merges' = [Merges EXCEPT ![c] = IF Members[c] = {s} THEN {} ELSE Merges[c]],
         Wireless' = [Wireless EXCEPT ![c] = IF Members[c] = {s} THEN FALSE ELSE Wireless[c]]
  PROVE  Promise!Exit(c, s)
  BY DEF Promise!Exit, Members, Consent, Merges, Wireless,
         MembersOf, ConsentOf, LinkedOf

LEMMA ViewOfCollect ==
  ASSUME NEW C \in SUBSET Code,
         Members' = [c \in Code |-> IF c \in C THEN {} ELSE Members[c]],
         Consent' = [c \in Code |-> IF c \in C THEN {} ELSE Consent[c]],
         Merges' = [c \in Code |-> IF c \in C THEN {} ELSE Merges[c]],
         Wireless' = [c \in Code |-> IF c \in C THEN FALSE ELSE Wireless[c]]
  PROVE  Promise!Collect(C)
  BY DEF Promise!Collect, Members, Consent, Merges, Wireless,
         MembersOf, ConsentOf, LinkedOf

LEMMA ViewOfAssert ==
  ASSUME NEW c \in Code, NEW s \in Members[c], NEW agreed, NEW must,
         agreed = Consent[c] \cup {s},
         must = (/\ Wireless[c] /\ Promise!Quorate(Members[c], agreed)
                 /\ Merges[c] # Members[c]),
         Consent' = [Consent EXCEPT ![c] = agreed],
         Merges' = [Merges EXCEPT ![c] = IF must THEN Members[c] ELSE Merges[c]],
         Members' = Members, Wireless' = Wireless
  PROVE  Promise!Assert(c, s)
  BY DEF Promise!Assert, Members, Consent, Merges, Wireless,
         MembersOf, ConsentOf, LinkedOf

LEMMA ViewOfWithdraw ==
  ASSUME NEW c \in Code, NEW s \in Members[c],
         Consent' = [Consent EXCEPT ![c] = Consent[c] \ {s}],
         Merges' = [Merges EXCEPT ![c] = IF s \in Merges[c] THEN {} ELSE Merges[c]],
         Members' = Members, Wireless' = Wireless
  PROVE  Promise!Withdraw(c, s)
  BY DEF Promise!Withdraw, Members, Consent, Merges, Wireless,
         MembersOf, ConsentOf, LinkedOf

LEMMA ViewOfLinkUp ==
  ASSUME NEW c \in Code, ~Wireless[c], Promise!Quorate(Members[c], Consent[c]),
         Merges' = [Merges EXCEPT ![c] = Members[c]],
         Members' = Members, Consent' = Consent, Wireless' = Wireless
  PROVE  Promise!LinkUp(c)
  BY DEF Promise!LinkUp, Members, Consent, Merges, Wireless,
         MembersOf, ConsentOf, LinkedOf

LEMMA ViewOfStutter ==
  ASSUME Members' = Members, Consent' = Consent, Merges' = Merges, Wireless' = Wireless
  PROVE  UNCHANGED Promise!vars
  BY DEF Promise!vars, Members, Consent, Merges, Wireless,
         MembersOf, ConsentOf, LinkedOf

LEMMA FoundingIsOpen ==
  ASSUME RInv, Founding
  PROVE  Promise!Next
<1>1. PICK c \in Code \ DOMAIN room, s \in Socket, rom \in Rom, w \in BOOLEAN :
        /\ sock[s].link # "new" /\ sock[s].code = NoCode
        /\ room' = Put(c, NewRoom(s, rom, w))
  BY DEF Founding
<1> DEFINE r == NewRoom(s, rom, w)
<1>2. /\ MembersOf(r) = {s} /\ ConsentOf(r) = {} /\ LinkedOf(r) = {} /\ r.wireless = w
  BY NewRoomSeen
<1> HIDE DEF r
<1>3. /\ Members' = [Members EXCEPT ![c] = {s}] /\ Consent' = [Consent EXCEPT ![c] = {}]
      /\ Merges' = [Merges EXCEPT ![c] = {}] /\ Wireless' = [Wireless EXCEPT ![c] = w]
  <2>1. room' = Put(c, r) /\ r.wireless \in BOOLEAN
    BY <1>1, <1>2 DEF r
  <2> QED
    BY <1>2, <2>1, PutSeen
<1>4. Members[c] = {}
  BY <1>1, ViewFields
<1>5. \A d \in Code : s \notin Members[d]
  <2> TAKE d \in Code
  <2>1. CASE d \in DOMAIN room
    <3>1. ~In(room[d], s) /\ room[d] \in Room
      BY <1>1, <2>1, NewcomersAreNew, StoredRoom DEF RInv, IInv
    <3> QED
      BY <2>1, <3>1, ViewFields, MembersAreListed
  <2>2. CASE d \notin DOMAIN room
    BY <2>2, ViewFields
  <2> QED
    BY <2>1, <2>2
<1>6. Promise!Open(c, s)
  BY <1>3, <1>4, <1>5, ViewOfOpen
<1> QED
  BY <1>6 DEF Promise!Next

LEMMA SeatingIsEnter ==
  ASSUME RInv, Seating
  PROVE  Promise!Next
<1>1. PICK c \in DOMAIN room, s \in Socket, rom \in Rom :
        /\ sock[s].link # "new" /\ sock[s].code = NoCode
        /\ room' = Put(c, Seated(room[c], s, rom))
  BY DEF Seating
<1>2. c \in Code /\ room[c] \in Room /\ WellListed(room[c]) /\ ~In(room[c], s)
  BY <1>1, StoredRoom, NewcomersAreNew DEF RInv, IInv
<1> DEFINE q == Seated(room[c], s, rom)
<1>3. /\ MembersOf(q) = MembersOf(room[c]) \cup {s} /\ ConsentOf(q) = {}
      /\ LinkedOf(q) = LinkedOf(room[c]) /\ q.wireless = room[c].wireless
  BY <1>2, SeatedSeen
<1> HIDE DEF q
<1>4. /\ Members[c] = MembersOf(room[c]) /\ Merges[c] = LinkedOf(room[c])
      /\ Wireless[c] = room[c].wireless /\ room[c].wireless \in BOOLEAN
  BY <1>2, RoomFields DEF Members, Merges, Wireless
<1>5. /\ Members' = [Members EXCEPT ![c] = MembersOf(q)]
      /\ Consent' = [Consent EXCEPT ![c] = ConsentOf(q)]
      /\ Merges' = [Merges EXCEPT ![c] = LinkedOf(q)]
      /\ Wireless' = [Wireless EXCEPT ![c] = q.wireless]
  <2>1. room' = Put(c, q) /\ q.wireless \in BOOLEAN
    BY <1>1, <1>3, <1>4 DEF q
  <2> QED
    BY <1>2, <2>1, PutSeen
<1>6. /\ Members' = [Members EXCEPT ![c] = Members[c] \cup {s}]
      /\ Consent' = [Consent EXCEPT ![c] = {}]
      /\ Merges' = Merges /\ Wireless' = Wireless
  BY <1>3, <1>4, <1>5 DEF Merges, Wireless
<1>7. Members[c] # {}
  <2>1. 1 \in DOMAIN room[c].players
    BY <1>2, RoomFields, EmptySeq DEF WellListed
  <2>2. In(room[c], room[c].players[1].id)
    BY <2>1 DEF In
  <2> QED
    BY <1>2, <1>4, <2>2, MembersAreListed
<1>8. \A d \in Code : s \notin Members[d]
  <2> TAKE d \in Code
  <2>1. CASE d \in DOMAIN room
    <3>1. ~In(room[d], s) /\ room[d] \in Room
      BY <1>1, <2>1, NewcomersAreNew, StoredRoom DEF RInv, IInv
    <3> QED
      BY <2>1, <3>1, ViewFields, MembersAreListed
  <2>2. CASE d \notin DOMAIN room
    BY <2>2, ViewFields
  <2> QED
    BY <2>1, <2>2
<1>9. Promise!Enter(c, s)
  BY <1>2, <1>6, <1>7, <1>8, ViewOfEnter
<1> QED
  BY <1>2, <1>9 DEF Promise!Next

LEMMA PartingIsExit ==
  ASSUME RInv, Parting
  PROVE  Promise!Next
<1>1. PICK c \in DOMAIN room : \E k \in DOMAIN room[c].players :
        LET left == Without(room[c], k) IN
        room' = IF left.players = <<>> THEN Delete({c}) ELSE Put(c, left)
  BY DEF Parting
<1> DEFINE r == room[c]
<1>2. PICK k \in DOMAIN r.players :
        LET left == Without(r, k) IN
        room' = IF left.players = <<>> THEN Delete({c}) ELSE Put(c, left)
  BY <1>1
<1> DEFINE q == Without(r, k)
<1>3. c \in Code /\ r \in Room /\ WellListed(r)
  BY StoredRoom DEF RInv, IInv
<1>4. PICK s \in Socket : s = r.players[k].id
  BY <1>3, RoomFields
<1>5. /\ Members[c] = MembersOf(r) /\ Merges[c] = LinkedOf(r)
      /\ Wireless[c] = r.wireless /\ r.wireless \in BOOLEAN
  BY <1>3, RoomFields DEF Members, Merges, Wireless
<1>6. /\ q \in Room /\ \A t : In(q, t) <=> In(r, t) /\ t # s
      /\ \A t : t \in Members[c] <=> In(r, t)
      /\ s \in Members[c]
  <2>1. In(r, s)
    BY <1>4 DEF In
  <2>2. q \in Room /\ \A t : In(q, t) <=> In(r, t) /\ t # s
    BY <1>3, <1>4, WithoutProperties, WithoutListed
  <2> HIDE DEF q, r
  <2> QED
    BY <1>3, <1>5, <2>1, <2>2, MembersAreListed
<1>7. CASE q.players = <<>>
  <2>1. room' = Delete({c})
    BY <1>2, <1>7
  <2>2. /\ Members' = [d \in Code |-> IF d \in {c} THEN {} ELSE Members[d]]
        /\ Consent' = [d \in Code |-> IF d \in {c} THEN {} ELSE Consent[d]]
        /\ Merges' = [d \in Code |-> IF d \in {c} THEN {} ELSE Merges[d]]
        /\ Wireless' = [d \in Code |-> IF d \in {c} THEN FALSE ELSE Wireless[d]]
    BY <2>1, DeleteSeen
  <2>3. \A t : ~In(q, t)
    BY <1>7 DEF In
  <2> HIDE DEF q, r
  <2>4. Members[c] = {s}
    BY <1>6, <2>3
  <2>5. /\ Members' = [Members EXCEPT ![c] = Members[c] \ {s}]
        /\ Consent' = [Consent EXCEPT ![c] = {}]
        /\ Merges' = [Merges EXCEPT ![c] = {}] /\ Wireless' = [Wireless EXCEPT ![c] = FALSE]
    BY <2>2, <2>4, ViewFields
  <2>6. Promise!Exit(c, s)
    BY <1>3, <1>6, <2>4, <2>5, ViewOfExit
  <2> QED
    BY <1>3, <1>6, <2>6 DEF Promise!Next
<1>8. CASE q.players # <<>>
  <2>1. /\ MembersOf(q) = MembersOf(r) \ {s} /\ ConsentOf(q) = {}
        /\ LinkedOf(q) = LinkedOf(r) /\ q.wireless = r.wireless
    BY <1>3, <1>4, <1>8, WithoutSeen
  <2>2. room' = Put(c, q)
    BY <1>2, <1>8
  <2>3. 1 \in DOMAIN q.players
    BY <1>6, <1>8, RoomFields, EmptySeq
  <2>4. In(q, q.players[1].id)
    BY <2>3 DEF In
  <2> HIDE DEF q, r
  <2>5. Members[c] # {s}
    BY <1>6, <2>4
  <2>6. /\ Members' = [Members EXCEPT ![c] = MembersOf(q)]
        /\ Consent' = [Consent EXCEPT ![c] = ConsentOf(q)]
        /\ Merges' = [Merges EXCEPT ![c] = LinkedOf(q)]
        /\ Wireless' = [Wireless EXCEPT ![c] = q.wireless]
    BY <1>3, <1>5, <2>1, <2>2, PutSeen
  <2>7. /\ Members' = [Members EXCEPT ![c] = Members[c] \ {s}]
        /\ Consent' = [Consent EXCEPT ![c] = {}]
        /\ Merges' = [Merges EXCEPT ![c] = Merges[c]]
        /\ Wireless' = [Wireless EXCEPT ![c] = Wireless[c]]
    BY <1>5, <2>1, <2>6
  <2>8. Promise!Exit(c, s)
    BY <1>3, <1>6, <2>5, <2>7, ViewOfExit
  <2> QED
    BY <1>3, <1>6, <2>8 DEF Promise!Next
<1> QED
  BY <1>7, <1>8

\* A withdrawal never merges; an assertion merges when the promise says so.
LEMMA AssertingIsAssert ==
  ASSUME RInv, Asserting \/ Converging
  PROVE  Promise!Next
<1>1. PICK c \in DOMAIN room : \E k \in DOMAIN room[c].players, b \in BOOLEAN :
        LET q == Asserted(room[c], k, b) IN
        room' = IF Converged(q) THEN Put(c, Merged(q)) ELSE Put(c, q)
  BY DEF Asserting, Converging
<1> DEFINE r == room[c]
<1>2. PICK k \in DOMAIN r.players, b \in BOOLEAN :
        LET q == Asserted(r, k, b) IN
        room' = IF Converged(q) THEN Put(c, Merged(q)) ELSE Put(c, q)
  BY <1>1
<1> DEFINE q == Asserted(r, k, b)
<1>3. room' = IF Converged(q) THEN Put(c, Merged(q)) ELSE Put(c, q)
  BY <1>2
<1>4. c \in Code /\ r \in Room /\ WellListed(r)
  BY StoredRoom DEF RInv, IInv
<1>5. q \in Room /\ WellListed(q) /\ (~b => ~Converged(q))
  <2>1. q \in Room /\ WellListed(q)
    BY <1>4, AssertedProperties, AssertedListed
  <2>2. ASSUME b = FALSE
        PROVE  ~Converged(q)
    <3> DEFINE p == [r.players[k] EXCEPT !.ready = FALSE]
    <3>1. p.ready = FALSE
      BY <1>4, RoomFields, PlayerReadiness
    <3>2. k \in DOMAIN q.players /\ q.players[k] = p
      BY <1>4, <2>2, AssertedProperties
    <3> QED
      BY <3>1, <3>2, NotUnanimous DEF Converged
  <2> QED
    BY <2>1, <2>2
<1>6. PICK s \in Socket : s = r.players[k].id
  BY <1>4, RoomFields
<1>7. /\ MembersOf(q) = MembersOf(r)
      /\ ConsentOf(q) = IF b THEN ConsentOf(r) \cup {s} ELSE ConsentOf(r) \ {s}
      /\ LinkedOf(q) = IF ~b /\ s \in LinkedOf(r) THEN {} ELSE LinkedOf(r)
      /\ q.wireless = r.wireless
  BY <1>4, <1>6, AssertedSeen
<1>8. /\ Members[c] = MembersOf(r) /\ Consent[c] = ConsentOf(r) /\ Merges[c] = LinkedOf(r)
      /\ Wireless[c] = r.wireless /\ r.wireless \in BOOLEAN
  BY <1>4, RoomFields DEF Members, Consent, Merges, Wireless
<1>9. s \in Members[c]
  BY <1>4, <1>6, <1>8, MembersAreListed DEF In
<1> HIDE DEF q, r
<1>10. /\ Members' = [Members EXCEPT ![c] = MembersOf(q)]
       /\ Consent' = [Consent EXCEPT ![c] = ConsentOf(q)]
       /\ Merges' = [Merges EXCEPT ![c] = IF Converged(q) THEN MembersOf(q)
                                          ELSE LinkedOf(q)]
       /\ Wireless' = [Wireless EXCEPT ![c] = q.wireless]
  <2>1. CASE Converged(q)
    <3>1. room' = Put(c, Merged(q)) /\ Merged(q).wireless \in BOOLEAN
      BY <1>3, <1>5, <1>7, <1>8, <2>1, MergedSeen
    <3> QED
      BY <1>4, <1>5, <2>1, <3>1, PutSeen, MergedSeen
  <2>2. CASE ~Converged(q)
    <3>1. room' = Put(c, q) /\ q.wireless \in BOOLEAN
      BY <1>3, <1>7, <1>8, <2>2
    <3> QED
      BY <1>4, <2>2, <3>1, PutSeen
  <2> QED
    BY <2>1, <2>2
<1>11. Members' = Members /\ Wireless' = Wireless
  BY <1>7, <1>8, <1>10 DEF Members, Wireless
<1>12. CASE b = TRUE
  <2> DEFINE agreed == Consent[c] \cup {s}
             must   == /\ Wireless[c] /\ Promise!Quorate(Members[c], agreed)
                       /\ Merges[c] # Members[c]
  <2>1. ConsentOf(q) = agreed /\ LinkedOf(q) = Merges[c]
    BY <1>7, <1>8, <1>12
  <2>2. (IF Converged(q) THEN MembersOf(q) ELSE LinkedOf(q))
          = IF must THEN Members[c] ELSE Merges[c]
    BY <1>5, <1>7, <1>8, <2>1, ConvergedIsDue
  <2>3. Merges' = [Merges EXCEPT ![c] = IF must THEN Members[c] ELSE Merges[c]]
    BY <1>10, <2>2
  <2>4. Consent' = [Consent EXCEPT ![c] = agreed]
    BY <1>10, <2>1
  <2>5. Promise!Assert(c, s)
    BY <1>4, <1>9, <1>11, <2>3, <2>4, ViewOfAssert
  <2> QED
    BY <1>4, <1>6, <2>5 DEF Promise!Next
<1>13. CASE b = FALSE
  <2>1. Merges' = [Merges EXCEPT ![c] = IF s \in Merges[c] THEN {} ELSE Merges[c]]
    BY <1>5, <1>7, <1>8, <1>10, <1>13
  <2>2. Consent' = [Consent EXCEPT ![c] = Consent[c] \ {s}]
    BY <1>7, <1>8, <1>10, <1>13
  <2>3. Promise!Withdraw(c, s)
    BY <1>4, <1>9, <1>11, <2>1, <2>2, ViewOfWithdraw
  <2> QED
    BY <1>4, <1>6, <2>3 DEF Promise!Next
<1> QED
  BY <1>12, <1>13

LEMMA LinkingIsLinkUp ==
  ASSUME RInv, LinkingUp
  PROVE  Promise!Next
<1>1. PICK c \in DOMAIN room :
        /\ ~room[c].wireless /\ Unanimous(room[c])
        /\ room' = Put(c, Merged(room[c]))
  BY DEF LinkingUp
<1> DEFINE r == room[c]
<1>2. c \in Code /\ r \in Room /\ WellListed(r)
  BY StoredRoom DEF RInv, IInv
<1>3. /\ Members[c] = MembersOf(r) /\ Consent[c] = ConsentOf(r)
      /\ Wireless[c] = r.wireless /\ r.wireless \in BOOLEAN
  BY <1>2, RoomFields DEF Members, Consent, Wireless
<1>4. Promise!Quorate(Members[c], Consent[c]) /\ ~Wireless[c]
  BY <1>1, <1>2, <1>3, UnanimousIsQuorate
<1>5. /\ MembersOf(Merged(r)) = MembersOf(r) /\ ConsentOf(Merged(r)) = ConsentOf(r)
      /\ LinkedOf(Merged(r)) = MembersOf(r) /\ Merged(r).wireless = r.wireless
  BY <1>2, MergedSeen
<1>6. /\ Members' = [Members EXCEPT ![c] = MembersOf(Merged(r))]
      /\ Consent' = [Consent EXCEPT ![c] = ConsentOf(Merged(r))]
      /\ Merges' = [Merges EXCEPT ![c] = LinkedOf(Merged(r))]
      /\ Wireless' = [Wireless EXCEPT ![c] = Merged(r).wireless]
  <2>1. room' = Put(c, Merged(r)) /\ Merged(r).wireless \in BOOLEAN
    BY <1>1, <1>3, <1>5
  <2> QED
    BY <1>2, <2>1, PutSeen
<1> HIDE DEF r
<1>7. /\ Members' = Members /\ Consent' = Consent /\ Wireless' = Wireless
      /\ Merges' = [Merges EXCEPT ![c] = Members[c]]
  BY <1>3, <1>5, <1>6 DEF Members, Consent, Wireless
<1>8. Promise!LinkUp(c)
  BY <1>2, <1>4, <1>7, ViewOfLinkUp
<1> QED
  BY <1>2, <1>8 DEF Promise!Next

LEMMA AgeingIsStutter ==
  ASSUME RInv, Ageing
  PROVE  UNCHANGED Promise!vars
<1>1. PICK c \in DOMAIN room : room' = Put(c, [room[c] EXCEPT !.expired = TRUE])
  BY DEF Ageing
<1> DEFINE r == room[c]
           q == [r EXCEPT !.expired = TRUE]
<1>2. c \in Code /\ r \in Room
  BY StoredRoom DEF RInv, IInv
<1>3. /\ q.players = r.players /\ q.lastMerge = r.lastMerge /\ q.wireless = r.wireless
      /\ r.wireless \in BOOLEAN
  BY <1>2 DEF Room
<1>4. room' = Put(c, q)
  BY <1>1
<1> HIDE DEF q
<1>5. /\ MembersOf(q) = MembersOf(r) /\ ConsentOf(q) = ConsentOf(r)
      /\ LinkedOf(q) = LinkedOf(r)
  BY <1>3 DEF MembersOf, ConsentOf, LinkedOf, Ids, Position
<1>6. /\ Members' = [Members EXCEPT ![c] = MembersOf(r)]
      /\ Consent' = [Consent EXCEPT ![c] = ConsentOf(r)]
      /\ Merges' = [Merges EXCEPT ![c] = LinkedOf(r)]
      /\ Wireless' = [Wireless EXCEPT ![c] = r.wireless]
  BY <1>2, <1>3, <1>4, <1>5, PutSeen
<1>7. /\ Members[c] = MembersOf(r) /\ Consent[c] = ConsentOf(r) /\ Merges[c] = LinkedOf(r)
      /\ Wireless[c] = r.wireless
  BY <1>2, <1>3 DEF Members, Consent, Merges, Wireless
<1> HIDE DEF r
<1>8. /\ Members' = Members /\ Consent' = Consent /\ Merges' = Merges
      /\ Wireless' = Wireless
  BY <1>6, <1>7 DEF Members, Consent, Merges, Wireless
<1> QED
  BY <1>8, ViewOfStutter

LEMMA CollectingIsCollect ==
  ASSUME RInv, Collecting
  PROVE  Promise!Next
<1>1. PICK C \in SUBSET DOMAIN room : room' = Delete(C)
  BY DEF Collecting
<1>2. C \in SUBSET Code
  BY DEF RInv, IInv, Shape
<1>3. Promise!Collect(C)
  BY <1>1, <1>2, DeleteSeen, ViewOfCollect
<1> QED
  BY <1>2, <1>3 DEF Promise!Next

\* The server implements the promise: consent is to a membership, a link is by
\* the consent of all, and a standing wireless link is not renewed.
THEOREM PromiseKept == Spec => KeepsPromise
<1>1. Init => Promise!Init
  <2> SUFFICES ASSUME Init PROVE Promise!Init
    OBVIOUS
  <2>1. DOMAIN room = {}
    BY DEF Init
  <2> QED
    BY <2>1, ViewOfInit DEF Members, Consent, Merges, Wireless
<1>2. RInv /\ [Next]_vars => [Promise!Next]_(Promise!vars)
  <2> SUFFICES ASSUME RInv, [Next]_vars
               PROVE  Promise!Next \/ UNCHANGED Promise!vars
    OBVIOUS
  <2>1. RecordStep
    BY RecordSteps DEF RInv
  <2>2. CASE room' = room
    <3>1. /\ Members' = Members /\ Consent' = Consent /\ Merges' = Merges
          /\ Wireless' = Wireless
      BY <2>2 DEF Members, Consent, Merges, Wireless
    <3> QED
      BY <3>1, ViewOfStutter
  <2> QED
    BY <2>1, <2>2, FoundingIsOpen, SeatingIsEnter, PartingIsExit, AssertingIsAssert,
       LinkingIsLinkUp, AgeingIsStutter, CollectingIsCollect DEF RecordStep
<1> QED
  BY <1>1, <1>2, RecordsInvariant, PTL DEF Spec, KeepsPromise, Promise!Spec

=============================================================================
