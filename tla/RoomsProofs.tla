---------------------------- MODULE RoomsProofs ----------------------------
(***************************************************************************)
(* Proofs about the signaling server, for every set of sockets, codes,     *)
(* ROMs and payloads and for any capacity of a room.                       *)
(***************************************************************************)
EXTENDS Rooms, SequenceTheorems, TLAPS

-----------------------------------------------------------------------------
(* Sequences *)

\* RemoveAt closes the gap: what was before the hole stays where it is and
\* what was behind it moves down by one (splice(i, 1) in index.ts).
LEMMA RemoveAtProperties ==
  ASSUME NEW S, NEW q \in Seq(S), NEW i \in 1 .. Len(q)
  PROVE  /\ RemoveAt(q, i) \in Seq(S)
         /\ Len(RemoveAt(q, i)) = Len(q) - 1
         /\ \A j \in 1 .. Len(q) - 1 :
              RemoveAt(q, i)[j] = IF j < i THEN q[j] ELSE q[j + 1]
<1> DEFINE a == SubSeq(q, 1, i - 1)
           b == SubSeq(q, i + 1, Len(q))
<1>1. Len(q) \in Nat /\ DOMAIN q = 1 .. Len(q) /\ i \in Int
      /\ 1 <= i /\ i <= Len(q)
      /\ \A j \in 1 .. Len(q) : q[j] \in S
  BY LenProperties, ElementOfSeq
<1>2. /\ a \in Seq(S) /\ Len(a) = i - 1
      /\ \A j \in 1 .. i - 1 : a[j] = q[j]
  <2>1. \A j \in 1 .. i - 1 : q[j] \in S
    BY <1>1
  <2>2. /\ a \in Seq(S)
        /\ Len(a) = IF 1 <= i - 1 THEN i - 1 - 1 + 1 ELSE 0
        /\ \A j \in 1 .. i - 1 - 1 + 1 : a[j] = q[1 + j - 1]
    BY <1>1, <2>1, SubSeqProperties
  <2> QED
    BY <1>1, <2>2
<1>3. /\ b \in Seq(S) /\ Len(b) = Len(q) - i
      /\ \A j \in 1 .. Len(q) - i : b[j] = q[i + j]
  <2>1. \A j \in i + 1 .. Len(q) : q[j] \in S
    BY <1>1
  <2>2. /\ b \in Seq(S)
        /\ Len(b) = IF i + 1 <= Len(q) THEN Len(q) - (i + 1) + 1 ELSE 0
        /\ \A j \in 1 .. Len(q) - (i + 1) + 1 : b[j] = q[i + 1 + j - 1]
    BY <1>1, <2>1, SubSeqProperties
  <2> HIDE DEF b
  <2>3. Len(q) - (i + 1) + 1 = Len(q) - i
    BY <1>1
  <2>4. ASSUME NEW j \in 1 .. Len(q) - i
        PROVE  b[j] = q[i + j]
    <3>1. i + 1 + j - 1 = i + j
      BY <1>1
    <3> QED
      BY <2>2, <2>3, <3>1
  <2>5. Len(b) = Len(q) - i
    <3>1. \A n \in Nat : 1 <= i /\ i <= n =>
            n - i = IF i + 1 <= n THEN n - (i + 1) + 1 ELSE 0
      BY <1>1
    <3>2. Len(b) = IF i + 1 <= Len(q) THEN Len(q) - (i + 1) + 1 ELSE 0
      BY <2>2
    <3> QED
      BY <1>1, <3>1, <3>2
  <2> QED
    BY <2>2, <2>4, <2>5
<1>4. RemoveAt(q, i) = a \o b
  BY DEF RemoveAt
<1> HIDE DEF a, b
<1>5. /\ a \o b \in Seq(S)
      /\ Len(a \o b) = Len(a) + Len(b)
      /\ \A j \in 1 .. Len(a) + Len(b) :
           (a \o b)[j] = IF j <= Len(a) THEN a[j] ELSE b[j - Len(a)]
  BY <1>2, <1>3, ConcatProperties
<1> QED
  BY <1>1, <1>2, <1>3, <1>4, <1>5

\* A function on 1 .. n is a sequence of length n.
LEMMA FunctionIsSeq ==
  ASSUME NEW S, NEW n \in Nat, NEW f \in [1 .. n -> S]
  PROVE  f \in Seq(S) /\ Len(f) = n /\ DOMAIN f = 1 .. n
<1>1. f \in Seq(S)
  BY SeqDef
<1> QED
  BY <1>1, LenProperties

-----------------------------------------------------------------------------
(* Rosters *)

LEMMA PlayerReadiness ==
  \A p \in Player, b \in BOOLEAN :
    /\ [p EXCEPT !.ready = b] \in Player
    /\ [p EXCEPT !.ready = b].id = p.id /\ [p EXCEPT !.ready = b].seat = p.seat
    /\ [p EXCEPT !.ready = b].rom = p.rom /\ [p EXCEPT !.ready = b].ready = b
  BY DEF Player

\* The fields of a record, and what Position finds.
LEMMA RoomFields ==
  ASSUME NEW r \in Room
  PROVE  /\ r.players \in Seq(Player) /\ Len(r.players) \in Nat
         /\ DOMAIN r.players = 1 .. Len(r.players)
         /\ \A i \in DOMAIN r.players :
              /\ r.players[i] \in Player
              /\ r.players[i].id \in Socket /\ r.players[i].ready \in BOOLEAN
              /\ r.players[i].rom \in Rom /\ r.players[i].seat \in Nat
         /\ r.nextSeat \in Nat /\ r.wireless \in BOOLEAN
         /\ r.lastMerge \in Seq(Socket) /\ r.expired \in BOOLEAN
         /\ \A s : In(r, s) => /\ Position(r, s) \in DOMAIN r.players
                               /\ r.players[Position(r, s)].id = s
<1>1. /\ r.players \in Seq(Player)
      /\ r.nextSeat \in Nat /\ r.wireless \in BOOLEAN
      /\ r.lastMerge \in Seq(Socket) /\ r.expired \in BOOLEAN
  BY DEF Room
<1>2. Len(r.players) \in Nat /\ DOMAIN r.players = 1 .. Len(r.players)
  BY <1>1, LenProperties
<1>3. \A i \in DOMAIN r.players : r.players[i] \in Player
  BY <1>1, <1>2, ElementOfSeq
<1>4. \A s : In(r, s) => /\ Position(r, s) \in DOMAIN r.players
                         /\ r.players[Position(r, s)].id = s
  BY DEF In, Position
<1> QED
  BY <1>1, <1>2, <1>3, <1>4 DEF Player

\* The ids of a roster, in player order.
LEMMA IdsOfRoom ==
  ASSUME NEW r \in Room
  PROVE  /\ Ids(r) \in Seq(Socket) /\ DOMAIN Ids(r) = DOMAIN r.players
         /\ \A i \in DOMAIN r.players : Ids(r)[i] = r.players[i].id
         /\ \A s : s \in ToSet(Ids(r)) <=> In(r, s)
<1>1. DOMAIN Ids(r) = DOMAIN r.players
      /\ \A i \in DOMAIN r.players : Ids(r)[i] = r.players[i].id
  BY DEF Ids
<1>2. Ids(r) \in [1 .. Len(r.players) -> Socket]
  BY RoomFields DEF Ids
<1>3. Ids(r) \in Seq(Socket)
  BY <1>2, RoomFields, FunctionIsSeq
<1> QED
  BY <1>1, <1>3 DEF ToSet, In

\* Without closes the gap at k and voids all consent; ids, ROMs and seats of
\* the others stay as they are.
LEMMA WithoutProperties ==
  ASSUME NEW r \in Room, NEW k \in DOMAIN r.players
  PROVE  /\ Without(r, k) \in Room
         /\ Len(Without(r, k).players) = Len(r.players) - 1
         /\ \A j \in DOMAIN Without(r, k).players :
              LET i == IF j < k THEN j ELSE j + 1 IN
              /\ i \in DOMAIN r.players
              /\ Without(r, k).players[j] = [r.players[i] EXCEPT !.ready = FALSE]
         /\ Without(r, k).nextSeat = r.nextSeat
         /\ Without(r, k).wireless = r.wireless
         /\ Without(r, k).lastMerge = r.lastMerge
         /\ Without(r, k).expired = r.expired
<1> DEFINE q == r.players
           rest == RemoveAt(q, k)
           n == Len(q) - 1
<1>1. q \in Seq(Player) /\ Len(q) \in Nat /\ DOMAIN q = 1 .. Len(q) /\ k \in 1 .. Len(q)
      /\ \A i \in 1 .. Len(q) : q[i] \in Player
  BY RoomFields
<1>2. /\ rest \in Seq(Player) /\ Len(rest) = n
      /\ \A j \in 1 .. n : rest[j] = IF j < k THEN q[j] ELSE q[j + 1]
  BY <1>1, RemoveAtProperties
<1>3. DOMAIN rest = 1 .. n /\ n \in Nat
      /\ \A j \in 1 .. n : (IF j < k THEN j ELSE j + 1) \in 1 .. Len(q)
  BY <1>1, <1>2, LenProperties
<1> HIDE DEF rest, n, q
<1>4. Unready(rest) = [j \in 1 .. n |-> [rest[j] EXCEPT !.ready = FALSE]]
  BY <1>3 DEF Unready
<1>5. \A j \in 1 .. n : rest[j] \in Player /\ [rest[j] EXCEPT !.ready = FALSE] \in Player
  BY <1>2, ElementOfSeq, PlayerReadiness
<1>6. Unready(rest) \in Seq(Player) /\ Len(Unready(rest)) = n
      /\ DOMAIN Unready(rest) = 1 .. n
  BY <1>3, <1>4, <1>5, FunctionIsSeq
<1>7. Without(r, k) = [r EXCEPT !.players = Unready(rest)]
  BY DEF Without, rest, q
<1>8. Without(r, k).players = Unready(rest)
  BY <1>7 DEF Room
<1>9. Without(r, k) \in Room
  BY <1>6, <1>7 DEF Room
<1>10. \A j \in 1 .. n : Unready(rest)[j] =
         [q[IF j < k THEN j ELSE j + 1] EXCEPT !.ready = FALSE]
  <2> TAKE j \in 1 .. n
  <2>1. rest[j] = q[IF j < k THEN j ELSE j + 1]
    BY <1>2
  <2>2. Unready(rest)[j] = [rest[j] EXCEPT !.ready = FALSE]
    BY <1>4
  <2> QED
    BY <2>1, <2>2
<1>11. /\ Without(r, k).nextSeat = r.nextSeat
       /\ Without(r, k).wireless = r.wireless
       /\ Without(r, k).lastMerge = r.lastMerge
       /\ Without(r, k).expired = r.expired
  BY <1>7 DEF Room
<1> QED
  BY <1>1, <1>3, <1>6, <1>8, <1>9, <1>10, <1>11 DEF q, n

\* Seated appends the newcomer on the next seat and voids all consent.
LEMMA SeatedProperties ==
  ASSUME NEW r \in Room, NEW s \in Socket, NEW rom \in Rom
  PROVE  /\ Seated(r, s, rom) \in Room
         /\ Len(Seated(r, s, rom).players) = Len(r.players) + 1
         /\ \A i \in DOMAIN r.players :
              Seated(r, s, rom).players[i] = [r.players[i] EXCEPT !.ready = FALSE]
         /\ Seated(r, s, rom).players[Len(r.players) + 1]
              = Newcomer(s, rom, r.nextSeat)
         /\ Seated(r, s, rom).nextSeat = r.nextSeat + 1
         /\ Seated(r, s, rom).wireless = r.wireless
         /\ Seated(r, s, rom).lastMerge = r.lastMerge
         /\ Seated(r, s, rom).expired = r.expired
<1> DEFINE u == Unready(r.players)
           p == Newcomer(s, rom, r.nextSeat)
<1>1. /\ Len(r.players) \in Nat /\ DOMAIN r.players = 1 .. Len(r.players)
      /\ \A i \in 1 .. Len(r.players) : r.players[i] \in Player
      /\ r.nextSeat \in Nat
  BY RoomFields
<1>2. u = [i \in 1 .. Len(r.players) |-> [r.players[i] EXCEPT !.ready = FALSE]]
  BY <1>1 DEF Unready
<1>3. u \in Seq(Player) /\ Len(u) = Len(r.players)
  <2>1. \A i \in 1 .. Len(r.players) : [r.players[i] EXCEPT !.ready = FALSE] \in Player
    BY <1>1, PlayerReadiness
  <2>2. u \in [1 .. Len(r.players) -> Player]
    BY <1>2, <2>1
  <2> QED
    BY <1>1, <2>2, FunctionIsSeq
<1>4. p \in Player
  BY <1>1 DEF Newcomer, Player
<1>5. Seated(r, s, rom) = [r EXCEPT !.players = Append(u, p),
                                    !.nextSeat = r.nextSeat + 1]
  BY DEF Seated, Room
<1> HIDE DEF u, p
<1>6. /\ Append(u, p) \in Seq(Player) /\ Len(Append(u, p)) = Len(u) + 1
      /\ \A i \in 1 .. Len(u) : Append(u, p)[i] = u[i]
      /\ Append(u, p)[Len(u) + 1] = p
  BY <1>3, <1>4, AppendProperties
<1>7. Seated(r, s, rom) \in Room
  <2>1. r.nextSeat + 1 \in Nat
    BY <1>1
  <2> QED
    BY <1>5, <1>6, <2>1 DEF Room
<1>8. /\ Seated(r, s, rom).players = Append(u, p)
      /\ Seated(r, s, rom).nextSeat = r.nextSeat + 1
      /\ Seated(r, s, rom).wireless = r.wireless
      /\ Seated(r, s, rom).lastMerge = r.lastMerge
      /\ Seated(r, s, rom).expired = r.expired
  BY <1>5 DEF Room
<1> QED
  BY <1>1, <1>2, <1>3, <1>6, <1>7, <1>8 DEF p

\* Asserted writes one ready bit and may void the last merge.
LEMMA AssertedProperties ==
  ASSUME NEW r \in Room, NEW k \in DOMAIN r.players, NEW b \in BOOLEAN
  PROVE  /\ Asserted(r, k, b) \in Room
         /\ DOMAIN Asserted(r, k, b).players = DOMAIN r.players
         /\ \A i \in DOMAIN r.players :
              Asserted(r, k, b).players[i] =
                IF i = k THEN [r.players[i] EXCEPT !.ready = b] ELSE r.players[i]
         /\ Asserted(r, k, b).nextSeat = r.nextSeat
         /\ Asserted(r, k, b).wireless = r.wireless
         /\ Asserted(r, k, b).lastMerge \in {r.lastMerge, NoMerge}
         /\ Asserted(r, k, b).expired = r.expired
<1> DEFINE ps == [r.players EXCEPT ![k].ready = b]
           merge == IF ~b /\ r.players[k].id \in ToSet(r.lastMerge)
                    THEN NoMerge ELSE r.lastMerge
<1>1. /\ r.players \in Seq(Player)
      /\ Len(r.players) \in Nat /\ DOMAIN r.players = 1 .. Len(r.players)
      /\ \A i \in 1 .. Len(r.players) : r.players[i] \in Player
      /\ r.lastMerge \in Seq(Socket)
  BY RoomFields
<1>2. ps = [i \in 1 .. Len(r.players) |->
              IF i = k THEN [r.players[i] EXCEPT !.ready = b] ELSE r.players[i]]
  BY <1>1
<1>3. ps \in Seq(Player) /\ DOMAIN ps = DOMAIN r.players
  BY <1>1, <1>2, PlayerReadiness, FunctionIsSeq
<1>4. merge \in Seq(Socket) /\ merge \in {r.lastMerge, NoMerge}
  BY <1>1, EmptySeq DEF NoMerge
<1>5. Asserted(r, k, b) = [r EXCEPT !.players = ps, !.lastMerge = merge]
  BY DEF Asserted, Room
<1> HIDE DEF merge, ps
<1>6. Asserted(r, k, b) \in Room
  BY <1>3, <1>4, <1>5 DEF Room
<1>7. /\ Asserted(r, k, b).players = ps
      /\ Asserted(r, k, b).nextSeat = r.nextSeat
      /\ Asserted(r, k, b).wireless = r.wireless
      /\ Asserted(r, k, b).lastMerge = merge
      /\ Asserted(r, k, b).expired = r.expired
  BY <1>5 DEF Room
<1> QED
  BY <1>1, <1>2, <1>3, <1>4, <1>6, <1>7

\* Merged records the ids of the merge and leaves the roster alone.
LEMMA MergedProperties ==
  ASSUME NEW r \in Room
  PROVE  /\ Merged(r) \in Room /\ Merged(r).players = r.players
         /\ Merged(r).lastMerge = Ids(r)
         /\ Merged(r).nextSeat = r.nextSeat /\ Merged(r).wireless = r.wireless
         /\ Merged(r).expired = r.expired
  BY IdsOfRoom DEF Merged, Room

\* A new record seats its creator.
LEMMA NewRoomProperties ==
  ASSUME NEW s \in Socket, NEW rom \in Rom, NEW w \in BOOLEAN
  PROVE  /\ NewRoom(s, rom, w) \in Room
         /\ Len(NewRoom(s, rom, w).players) = 1
         /\ NewRoom(s, rom, w).players[1] = Newcomer(s, rom, 0)
         /\ NewRoom(s, rom, w).nextSeat = 1
<1>1. Newcomer(s, rom, 0) \in Player
  BY DEF Newcomer, Player
<1>2. <<Newcomer(s, rom, 0)>> \in Seq(Player)
  BY <1>1
<1> QED
  BY <1>2, EmptySeq DEF NewRoom, Room, NoMerge

\* What each operation on a record does to the membership and to its order.
LEMMA WithoutListed ==
  ASSUME NEW r \in Room, NEW k \in DOMAIN r.players, WellListed(r)
  PROVE  /\ Without(r, k).players # <<>> => WellListed(Without(r, k))
         /\ \A t : In(Without(r, k), t) <=> In(r, t) /\ t # r.players[k].id
<1> DEFINE w == Without(r, k)
           from(j) == IF j < k THEN j ELSE j + 1
<1>1. /\ w \in Room /\ Len(w.players) = Len(r.players) - 1
      /\ \A j \in DOMAIN w.players :
           /\ from(j) \in DOMAIN r.players
           /\ w.players[j] = [r.players[from(j)] EXCEPT !.ready = FALSE]
      /\ w.nextSeat = r.nextSeat
  BY WithoutProperties
<1>2. DOMAIN r.players = 1 .. Len(r.players) /\ Len(r.players) \in Nat
      /\ \A i \in DOMAIN r.players : r.players[i] \in Player
  BY RoomFields
<1>3. DOMAIN w.players = 1 .. Len(r.players) - 1
  BY <1>1, RoomFields
<1>4. ASSUME NEW i \in DOMAIN w.players
      PROVE  /\ from(i) \in DOMAIN r.players
             /\ w.players[i].id = r.players[from(i)].id
             /\ w.players[i].seat = r.players[from(i)].seat
  <2> HIDE DEF from, w
  <2>1. from(i) \in DOMAIN r.players
        /\ w.players[i] = [r.players[from(i)] EXCEPT !.ready = FALSE]
    BY <1>1
  <2>2. r.players[from(i)] \in Player
    BY <1>2, <2>1
  <2> QED
    BY <2>1, <2>2, PlayerReadiness
<1>5. \A i, j \in DOMAIN w.players : i # j => from(i) # from(j)
  BY <1>2, <1>3
<1>6. \A j \in DOMAIN w.players : from(j) # k
  BY <1>2, <1>3
<1>7. \A i \in DOMAIN r.players : i # k => \E j \in DOMAIN w.players : from(j) = i
  <2> TAKE i \in DOMAIN r.players
  <2> HAVE i # k
  <2>1. CASE i < k
    <3>1. i \in DOMAIN w.players /\ from(i) = i
      BY <1>2, <1>3, <2>1
    <3> QED
      BY <3>1
  <2>2. CASE i > k
    <3>1. i - 1 \in DOMAIN w.players /\ from(i - 1) = i
      BY <1>2, <1>3, <2>2
    <3> QED
      BY <3>1
  <2> QED
    BY <1>2, <2>1, <2>2
<1> HIDE DEF w, from
<1>8. w.players # <<>> => WellListed(w)
  <2>1. ASSUME NEW i \in DOMAIN w.players, NEW j \in DOMAIN w.players, i # j
        PROVE  /\ w.players[i].id # w.players[j].id
               /\ w.players[i].seat # w.players[j].seat
    <3>1. from(i) # from(j) /\ from(i) \in DOMAIN r.players /\ from(j) \in DOMAIN r.players
      BY <1>4, <1>5, <2>1
    <3>2. /\ r.players[from(i)].id # r.players[from(j)].id
          /\ r.players[from(i)].seat # r.players[from(j)].seat
      BY <3>1 DEF WellListed
    <3> QED
      BY <1>4, <3>2
  <2>2. \A i \in DOMAIN w.players : w.players[i].seat < w.nextSeat
    BY <1>1, <1>4 DEF WellListed
  <2> QED
    BY <2>1, <2>2 DEF WellListed
<1>9. ASSUME NEW t PROVE In(w, t) <=> In(r, t) /\ t # r.players[k].id
  <2>1. ASSUME NEW j \in DOMAIN w.players
        PROVE  In(r, w.players[j].id) /\ w.players[j].id # r.players[k].id
    <3>1. from(j) \in DOMAIN r.players /\ from(j) # k
      BY <1>4, <1>6
    <3>2. r.players[from(j)].id # r.players[k].id
      BY <3>1 DEF WellListed
    <3> QED
      BY <1>4, <3>1, <3>2 DEF In
  <2>2. In(r, t) /\ t # r.players[k].id => In(w, t)
    BY <1>4, <1>7 DEF In
  <2> QED
    BY <2>1, <2>2 DEF In
<1> QED
  BY <1>8, <1>9 DEF w

LEMMA SeatedListed ==
  ASSUME NEW r \in Room, NEW s \in Socket, NEW rom \in Rom,
         WellListed(r), ~In(r, s)
  PROVE  /\ WellListed(Seated(r, s, rom))
         /\ \A t : In(Seated(r, s, rom), t) <=> In(r, t) \/ t = s
<1> DEFINE w == Seated(r, s, rom)
           n == Len(r.players)
<1>1. /\ w \in Room /\ Len(w.players) = n + 1
      /\ \A i \in DOMAIN r.players : w.players[i] = [r.players[i] EXCEPT !.ready = FALSE]
      /\ w.players[n + 1] = Newcomer(s, rom, r.nextSeat)
      /\ w.nextSeat = r.nextSeat + 1
  BY SeatedProperties
<1>2. DOMAIN r.players = 1 .. n /\ n \in Nat /\ r.nextSeat \in Nat
      /\ \A i \in DOMAIN r.players : r.players[i] \in Player /\ r.players[i].seat \in Nat
  BY RoomFields
<1>3. DOMAIN w.players = 1 .. n + 1
  BY <1>1, RoomFields
<1>4. \A i \in DOMAIN r.players :
        /\ w.players[i].id = r.players[i].id /\ w.players[i].seat = r.players[i].seat
  BY <1>1, <1>2, PlayerReadiness
<1>5. w.players[n + 1].id = s /\ w.players[n + 1].seat = r.nextSeat
  BY <1>1 DEF Newcomer
<1>6. \A i \in DOMAIN w.players : i = n + 1 \/ i \in DOMAIN r.players
  BY <1>2, <1>3
<1>7. n + 1 \in DOMAIN w.players /\ w.players # <<>>
      /\ \A i \in DOMAIN r.players : i \in DOMAIN w.players
  BY <1>1, <1>2, <1>3
<1> HIDE DEF w, n
<1>8. \A i \in DOMAIN r.players : r.players[i].id # s /\ r.players[i].seat < r.nextSeat
  BY DEF In, WellListed
<1>9. \A i, j \in DOMAIN w.players :
        i # j => w.players[i].id # w.players[j].id /\ w.players[i].seat # w.players[j].seat
  BY <1>2, <1>4, <1>5, <1>6, <1>8 DEF WellListed
<1>10. ASSUME NEW i \in DOMAIN w.players
       PROVE  w.players[i].seat < w.nextSeat
  <2>1. CASE i = n + 1
    BY <1>1, <1>2, <1>5, <2>1
  <2>2. CASE i \in DOMAIN r.players
    <3>1. r.players[i].seat < r.nextSeat /\ r.players[i].seat \in Nat
      BY <1>2, <1>8, <2>2
    <3>2. r.players[i].seat < r.nextSeat + 1
      BY <1>2, <3>1
    <3> QED
      BY <1>1, <1>4, <2>2, <3>2
  <2> QED
    BY <1>6, <2>1, <2>2
<1>11. \A t : In(w, t) <=> In(r, t) \/ t = s
  BY <1>4, <1>5, <1>6, <1>7 DEF In
<1> QED
  BY <1>7, <1>9, <1>10, <1>11 DEF w, WellListed

LEMMA AssertedListed ==
  ASSUME NEW r \in Room, NEW k \in DOMAIN r.players, NEW b \in BOOLEAN
  PROVE  /\ WellListed(r) => WellListed(Asserted(r, k, b))
         /\ \A t : In(Asserted(r, k, b), t) <=> In(r, t)
<1> DEFINE w == Asserted(r, k, b)
<1>1. /\ w \in Room /\ DOMAIN w.players = DOMAIN r.players
      /\ \A i \in DOMAIN r.players :
           w.players[i] = IF i = k THEN [r.players[i] EXCEPT !.ready = b] ELSE r.players[i]
      /\ w.nextSeat = r.nextSeat
  BY AssertedProperties
<1>2. \A i \in DOMAIN r.players : r.players[i] \in Player
  BY RoomFields
<1>3. ASSUME NEW i \in DOMAIN r.players
      PROVE  w.players[i].id = r.players[i].id /\ w.players[i].seat = r.players[i].seat
  <2> HIDE DEF w
  <2>1. r.players[i] \in Player
    BY <1>2
  <2>2. /\ [r.players[i] EXCEPT !.ready = b].id = r.players[i].id
        /\ [r.players[i] EXCEPT !.ready = b].seat = r.players[i].seat
    BY <2>1, PlayerReadiness
  <2> QED
    BY <1>1, <2>2
<1>4. w.players # <<>>
  BY <1>1
<1> HIDE DEF w
<1> QED
  BY <1>1, <1>3, <1>4 DEF WellListed, In, w

LEMMA MergedListed ==
  ASSUME NEW r \in Room
  PROVE  /\ WellListed(r) => WellListed(Merged(r))
         /\ \A t : In(Merged(r), t) <=> In(r, t)
  BY MergedProperties DEF WellListed, In

LEMMA NewRoomListed ==
  ASSUME NEW s \in Socket, NEW rom \in Rom, NEW w \in BOOLEAN
  PROVE  /\ WellListed(NewRoom(s, rom, w))
         /\ \A t : In(NewRoom(s, rom, w), t) <=> t = s
<1> DEFINE r == NewRoom(s, rom, w)
<1>1. /\ r \in Room /\ Len(r.players) = 1
      /\ r.players[1] = Newcomer(s, rom, 0) /\ r.nextSeat = 1
  BY NewRoomProperties
<1>2. DOMAIN r.players = {1}
  BY <1>1, RoomFields
<1>3. r.players[1].id = s /\ r.players[1].seat = 0
  BY <1>1 DEF Newcomer
<1> HIDE DEF r
<1>4. r.players # <<>>
  BY <1>2
<1> QED
  BY <1>1, <1>2, <1>3, <1>4 DEF WellListed, In, r

-----------------------------------------------------------------------------
(* The inductive invariant.  MembershipCoherent is inductive with the types; *)
(* the agreement of the stamps needs it, because it is the attachment's room *)
(* code that ties a stamp to a roster.                                       *)

Shape ==
  /\ DOMAIN room \subseteq Code
  /\ room \in [DOMAIN room -> Room]
  /\ sock \in [Socket -> Attached]
  /\ alarm \in BOOLEAN

IInv == Shape /\ MembershipCoherent /\ SessionsAgree /\ StampsMutual

Live(s) == sock[s].link \in {"open", "closing"} /\ sock[s].session # NoSession

\* A step that stamps nobody: whoever has routing afterwards had the same
\* before, in the same room or out of it like the peers of that routing.
StampsNobody ==
  /\ \A s \in Socket : Live(s)' =>
       Live(s) /\ sock'[s].session = sock[s].session /\ sock'[s].code = sock[s].code
  /\ \A s \in Socket : sock[s].link # "new" => sock'[s].link # "new"
  /\ \A s \in Socket : sock'[s].link = "open" /\ sock[s].link # "new" =>
       /\ sock[s].link = "open"
       /\ sock[s].session # NoSession =>
            sock'[s].session = sock[s].session /\ sock'[s].code = sock[s].code
  /\ \A s \in Socket : Placed(s)' /\ Live(s)' => Placed(s)
  /\ \A s, t \in Socket :
       Live(s)' /\ sock'[t].link = "open" /\ sock[t].session # NoSession
         /\ sock[t].code = sock[s].code /\ (Placed(t) <=> Placed(s))
       => (Placed(t)' <=> Placed(s)')

LEMMA SockFields ==
  ASSUME Shape, NEW s \in Socket
  PROVE  /\ sock[s] = [link |-> sock[s].link, code |-> sock[s].code,
                       session |-> sock[s].session]
         /\ sock[s].link \in Link /\ sock[s].code \in Code \cup {NoCode}
         /\ sock[s].session \in Session
         /\ sock[s].session.idx \in Nat /\ sock[s].session.peers \in Seq(Socket)
  BY DEF Shape, Attached, Session

\* The members of a merge are sockets.
LEMMA PeersAreSockets ==
  ASSUME Shape, NEW s \in Socket
  PROVE  ToSet(sock[s].session.peers) \subseteq Socket
<1>1. sock[s].session.peers \in Seq(Socket)
  BY SockFields
<1>2. \A i \in DOMAIN sock[s].session.peers : sock[s].session.peers[i] \in Socket
  BY <1>1, LenProperties, ElementOfSeq
<1> QED
  BY <1>2 DEF ToSet

LEMMA NoStampKeepsSessions ==
  ASSUME SessionsAgree, StampsNobody
  PROVE  SessionsAgree'
<1> SUFFICES ASSUME NEW s \in Socket, NEW t \in Socket,
                    Placed(s)', Placed(t)', sock'[s].code = sock'[t].code,
                    sock'[s].link = "open", sock'[t].link = "open",
                    sock'[s].session # NoSession, sock'[t].session # NoSession
             PROVE  sock'[s].session.peers = sock'[t].session.peers
  BY DEF SessionsAgree
<1>1. Live(s)' /\ Live(t)'
  BY DEF Live
<1>2. /\ Live(s) /\ sock'[s].session = sock[s].session /\ sock'[s].code = sock[s].code
      /\ Live(t) /\ sock'[t].session = sock[t].session /\ sock'[t].code = sock[t].code
  BY <1>1 DEF StampsNobody
<1>3. Placed(s) /\ Placed(t)
  BY <1>1 DEF StampsNobody
<1>4. sock[s].link = "open" /\ sock[t].link = "open"
  BY <1>2 DEF StampsNobody, Live
<1> QED
  BY <1>2, <1>3, <1>4 DEF SessionsAgree, Live

LEMMA NoStampKeepsStamps ==
  ASSUME Shape, StampsMutual, StampsNobody
  PROVE  StampsMutual'
<1> SUFFICES ASSUME NEW s \in Socket, Live(s)'
             PROVE  /\ sock'[s].session.idx \in DOMAIN sock'[s].session.peers
                    /\ sock'[s].session.peers[sock'[s].session.idx] = s
                    /\ \A t \in ToSet(sock'[s].session.peers) :
                         /\ sock'[t].link # "new"
                         /\ sock'[t].link = "open" =>
                              /\ sock'[t].session.peers = sock'[s].session.peers
                              /\ sock'[t].code = sock'[s].code
                              /\ Placed(t)' <=> Placed(s)'
  BY DEF StampsMutual, Live
<1>1. Live(s) /\ sock'[s].session = sock[s].session /\ sock'[s].code = sock[s].code
  BY DEF StampsNobody
<1>2. /\ sock[s].session.idx \in DOMAIN sock[s].session.peers
      /\ sock[s].session.peers[sock[s].session.idx] = s
  BY <1>1 DEF StampsMutual, Live
<1>3. ASSUME NEW t \in ToSet(sock[s].session.peers)
      PROVE  /\ sock'[t].link # "new"
             /\ sock'[t].link = "open" =>
                  /\ sock'[t].session.peers = sock[s].session.peers
                  /\ sock'[t].code = sock[s].code
                  /\ Placed(t)' <=> Placed(s)'
  <2>1. t \in Socket
    BY PeersAreSockets
  <2>2. /\ sock[t].link # "new"
        /\ sock[t].link = "open" =>
             /\ sock[t].session.peers = sock[s].session.peers
             /\ sock[t].code = sock[s].code
             /\ Placed(t) <=> Placed(s)
    BY <1>1 DEF StampsMutual, Live
  <2>3. sock'[t].link # "new"
    BY <2>1, <2>2 DEF StampsNobody
  <2>4. ASSUME sock'[t].link = "open"
        PROVE  /\ sock'[t].session.peers = sock[s].session.peers
               /\ sock'[t].code = sock[s].code
               /\ Placed(t)' <=> Placed(s)'
    <3>1. sock[t].link = "open"
      BY <2>1, <2>2, <2>4 DEF StampsNobody
    <3>2. sock[t].session # NoSession
      <4>1. ToSet(sock[t].session.peers) # {}
        BY <2>2, <3>1
      <4>2. ToSet(NoSession.peers) = {}
        BY DEF NoSession, ToSet
      <4> QED
        BY <4>1, <4>2
    <3>3. sock'[t].session = sock[t].session /\ sock'[t].code = sock[t].code
      BY <2>1, <2>2, <2>4, <3>2 DEF StampsNobody
    <3>4. Placed(t)' <=> Placed(s)'
      BY <2>1, <2>2, <2>4, <3>1, <3>2 DEF StampsNobody
    <3> QED
      BY <2>2, <3>1, <3>3, <3>4
  <2> QED
    BY <2>3, <2>4
<1> QED
  BY <1>1, <1>2, <1>3

-----------------------------------------------------------------------------
(* The steps, one lemma for each kind *)

LEMMA DeleteFacts ==
  ASSUME NEW C
  PROVE  /\ DOMAIN Delete(C) = DOMAIN room \ C
         /\ \A d \in DOMAIN Delete(C) : Delete(C)[d] = room[d]
  BY DEF Delete

\* What Shape and MembershipCoherent say of one stored room and its members.
LEMMA StoredRoom ==
  ASSUME Shape, MembershipCoherent, NEW c \in DOMAIN room
  PROVE  /\ c \in Code /\ c # NoCode /\ room[c] \in Room /\ WellListed(room[c])
         /\ \A t : In(room[c], t) =>
              /\ t \in Socket /\ sock[t].code = c /\ sock[t].link \notin {"new", "broken"}
              /\ Placed(t)
<1>1. c \in Code /\ c # NoCode /\ room[c] \in Room /\ WellListed(room[c])
  BY NoCodeAssumption DEF Shape, MembershipCoherent
<1>2. \A t : In(room[c], t) => t \in Socket
  BY <1>1, RoomFields DEF In
<1> QED
  BY <1>1, <1>2 DEF MembershipCoherent, Placed

\* The attachments of the sockets a step leaves alone stay as they should be.
LEMMA OthersCoherent ==
  ASSUME MembershipCoherent, NEW s,
         \A t \in Socket \ {s} : sock'[t] = sock[t] /\ (Placed(t)' <=> Placed(t))
  PROVE  \A t \in Socket \ {s} : AttachmentCoherent(t)'
  BY DEF MembershipCoherent, AttachmentCoherent

\* Writing a record whose members, old and new, have coherent attachments.
LEMMA PutCoherent ==
  ASSUME IInv, NEW c \in Code, NEW r \in Room, WellListed(r), room' = Put(c, r),
         \A t \in Socket : In(r, t) =>
           sock'[t].code = c /\ sock'[t].link \notin {"new", "broken"},
         \A d \in DOMAIN room \ {c} : \A t \in Socket : In(room[d], t) =>
           sock'[t].code = sock[t].code /\ sock'[t].link \notin {"new", "broken"},
         \A t \in Socket : AttachmentCoherent(t)'
  PROVE  /\ MembershipCoherent'
         /\ DOMAIN room' \subseteq Code /\ room' \in [DOMAIN room' -> Room]
<1>1. /\ DOMAIN room' = DOMAIN room \cup {c} /\ room'[c] = r
      /\ \A d \in DOMAIN room : d # c => room'[d] = room[d]
  BY DEF Put
<1>2. DOMAIN room' \subseteq Code /\ room' \in [DOMAIN room' -> Room]
  <2>1. \A d \in DOMAIN room' : room'[d] \in Room
    BY <1>1 DEF IInv, Shape
  <2>2. room' = [d \in DOMAIN room' |-> room'[d]]
    BY DEF Put
  <2> QED
    BY <1>1, <2>1, <2>2 DEF IInv, Shape
<1>3. ASSUME NEW d \in DOMAIN room'
      PROVE  /\ WellListed(room'[d])
             /\ \A t \in Socket : In(room'[d], t) =>
                  sock'[t].code = d /\ sock'[t].link \notin {"new", "broken"}
  <2>1. CASE d = c
    BY <1>1, <2>1
  <2>2. CASE d # c
    <3>1. d \in DOMAIN room /\ room'[d] = room[d]
      BY <1>1, <2>2
    <3> QED
      BY <2>2, <3>1 DEF IInv, MembershipCoherent
  <2> QED
    BY <2>1, <2>2
<1> QED
  BY <1>2, <1>3 DEF MembershipCoherent

\* Taking records away, with attachments that stay coherent for the others.
LEMMA DeleteCoherent ==
  ASSUME IInv, NEW C, room' = Delete(C),
         \A d \in DOMAIN room \ C : \A t \in Socket : In(room[d], t) =>
           sock'[t].code = sock[t].code /\ sock'[t].link \notin {"new", "broken"},
         \A t \in Socket : AttachmentCoherent(t)'
  PROVE  /\ MembershipCoherent'
         /\ DOMAIN room' \subseteq Code /\ room' \in [DOMAIN room' -> Room]
<1>1. /\ DOMAIN room' = DOMAIN room \ C
      /\ \A d \in DOMAIN room' : room'[d] = room[d]
  BY DeleteFacts
<1>2. DOMAIN room' \subseteq Code /\ room' \in [DOMAIN room' -> Room]
  <2>1. \A d \in DOMAIN room' : room'[d] \in Room
    BY <1>1 DEF IInv, Shape
  <2>2. room' = [d \in DOMAIN room' |-> room'[d]]
    BY DEF Delete
  <2> QED
    BY <1>1, <2>1, <2>2 DEF IInv, Shape
<1> QED
  BY <1>1, <1>2 DEF IInv, MembershipCoherent

\* A merge: the room keeps its members, and every listed one is stamped.
LEMMA MergeStep ==
  ASSUME IInv, NEW c \in DOMAIN room, NEW r \in Room, WellListed(r),
         \A t : In(r, t) <=> In(room[c], t),
         room' = Put(c, Merged(r)), sock' = Stamped(c, r), alarm' = alarm
  PROVE  IInv'
<1>0. Shape /\ MembershipCoherent /\ c \in Code
  BY DEF IInv, Shape
<1>1. /\ Merged(r) \in Room /\ WellListed(Merged(r))
      /\ \A t : In(Merged(r), t) <=> In(room[c], t)
  BY MergedProperties, MergedListed
<1>2. \A t : In(r, t) => /\ t \in Socket /\ sock[t].code = c
                         /\ sock[t].link \notin {"new", "broken"}
  BY <1>0, StoredRoom
<1>3. ASSUME NEW t \in Socket, In(r, t), Speaking(t)
      PROVE  /\ sock'[t] = [link |-> sock[t].link, code |-> c,
                            session |-> [idx |-> Position(r, t), peers |-> Ids(r)]]
             /\ sock'[t].link = sock[t].link /\ sock'[t].code = c
             /\ sock'[t].session = [idx |-> Position(r, t), peers |-> Ids(r)]
             /\ sock'[t].session.peers = Ids(r)
             /\ sock'[t].session.idx = Position(r, t)
  <2>1. sock'[t] = [link |-> sock[t].link, code |-> c,
                    session |-> [idx |-> Position(r, t), peers |-> Ids(r)]]
    BY <1>3 DEF Stamped
  <2> QED
    BY <2>1
<1>4. ASSUME NEW t \in Socket, ~(In(r, t) /\ Speaking(t))
      PROVE  sock'[t] = sock[t]
  BY <1>4 DEF Stamped
<1>5. ASSUME NEW t \in Socket
      PROVE  sock'[t].link = sock[t].link /\ sock'[t].code = sock[t].code
  <2>1. CASE In(r, t) /\ Speaking(t)
    BY <1>2, <1>3, <2>1
  <2>2. CASE ~(In(r, t) /\ Speaking(t))
    BY <1>4, <2>2
  <2> QED
    BY <2>1, <2>2
<1>6. \A t \in Socket : Placed(t)' <=> Placed(t)
  <2>1. /\ DOMAIN room' = DOMAIN room /\ room'[c] = Merged(r)
        /\ \A d \in DOMAIN room : d # c => room'[d] = room[d]
    BY DEF Put
  <2> QED
    BY <1>1, <1>5, <2>1 DEF Placed
<1>7. MembershipCoherent' /\ DOMAIN room' \subseteq Code /\ room' \in [DOMAIN room' -> Room]
  <2>1. \A t \in Socket : In(Merged(r), t) =>
          sock'[t].code = c /\ sock'[t].link \notin {"new", "broken"}
    BY <1>1, <1>2, <1>5
  <2>2. \A d \in DOMAIN room \ {c} : \A t \in Socket : In(room[d], t) =>
          sock'[t].code = sock[t].code /\ sock'[t].link \notin {"new", "broken"}
    BY <1>0, <1>5, StoredRoom
  <2>3. ASSUME NEW t \in Socket
        PROVE  AttachmentCoherent(t)'
    <3>1. AttachmentCoherent(t)
      BY <1>0 DEF MembershipCoherent
    <3>2. CASE In(r, t) /\ Speaking(t)
      <4>1. Placed(t) /\ sock[t].link \notin {"new", "broken"}
        BY <1>0, <1>1, <1>2, <3>2, StoredRoom
      <4> QED
        BY <1>0, <1>3, <1>6, <3>2, <4>1, NoCodeAssumption DEF AttachmentCoherent
    <3>3. CASE ~(In(r, t) /\ Speaking(t))
      BY <1>4, <1>6, <3>1, <3>3 DEF AttachmentCoherent
    <3> QED
      BY <3>2, <3>3
  <2> QED
    BY <1>0, <1>1, <2>1, <2>2, <2>3, PutCoherent
<1>8. sock' \in [Socket -> Attached]
  <2>1. \A t \in Socket : In(r, t) => [idx |-> Position(r, t), peers |-> Ids(r)] \in Session
    BY RoomFields, IdsOfRoom DEF Session
  <2>2. \A t \in Socket : sock'[t] \in Attached
    <3> TAKE t \in Socket
    <3>1. CASE In(r, t) /\ Speaking(t)
      <4>1. /\ sock'[t] = [link |-> sock[t].link, code |-> c,
                           session |-> [idx |-> Position(r, t), peers |-> Ids(r)]]
            /\ [idx |-> Position(r, t), peers |-> Ids(r)] \in Session
        BY <1>3, <2>1, <3>1
      <4>2. sock[t].link \in Link /\ c \in Code \cup {NoCode}
        BY <1>0, SockFields
      <4> QED
        BY <4>1, <4>2 DEF Attached
    <3>2. CASE ~(In(r, t) /\ Speaking(t))
      BY <1>0, <1>4, <3>2 DEF Shape
    <3> QED
      BY <3>1, <3>2
  <2>3. sock' = [t \in Socket |-> sock'[t]]
    BY DEF Stamped
  <2> QED
    BY <2>2, <2>3
<1>9. SessionsAgree'
  <2> SUFFICES ASSUME NEW s \in Socket, NEW t \in Socket,
                      Placed(s)', Placed(t)', sock'[s].code = sock'[t].code,
                      sock'[s].link = "open", sock'[t].link = "open",
                      sock'[s].session # NoSession, sock'[t].session # NoSession
               PROVE  sock'[s].session.peers = sock'[t].session.peers
    BY DEF SessionsAgree
  <2>1. /\ Placed(s) /\ Placed(t) /\ sock[s].code = sock[t].code
        /\ sock[s].link = "open" /\ sock[t].link = "open"
    BY <1>5, <1>6
  <2>2. CASE sock[s].code = c
    <3>1. In(r, s) /\ In(r, t)
      BY <2>1, <2>2 DEF Placed
    <3> QED
      BY <1>3, <2>1, <3>1 DEF Speaking
  <2>3. CASE sock[s].code # c
    <3>1. sock'[s] = sock[s] /\ sock'[t] = sock[t]
      BY <1>2, <1>4, <2>1, <2>3
    <3> QED
      BY <2>1, <3>1 DEF IInv, SessionsAgree
  <2> QED
    BY <2>2, <2>3
<1>10. StampsMutual'
  <2> SUFFICES ASSUME NEW s \in Socket, Live(s)'
               PROVE  /\ sock'[s].session.idx \in DOMAIN sock'[s].session.peers
                      /\ sock'[s].session.peers[sock'[s].session.idx] = s
                      /\ \A t \in ToSet(sock'[s].session.peers) :
                           /\ sock'[t].link # "new"
                           /\ sock'[t].link = "open" =>
                                /\ sock'[t].session.peers = sock'[s].session.peers
                                /\ sock'[t].code = sock'[s].code
                                /\ Placed(t)' <=> Placed(s)'
    BY DEF StampsMutual, Live
  <2>1. CASE In(r, s) /\ Speaking(s)
    <3>1. sock'[s].session = [idx |-> Position(r, s), peers |-> Ids(r)] /\ sock'[s].code = c
      BY <1>3, <2>1
    <3>2. Position(r, s) \in DOMAIN Ids(r) /\ Ids(r)[Position(r, s)] = s
      BY <2>1, RoomFields, IdsOfRoom
    <3>3. ASSUME NEW t \in ToSet(Ids(r))
          PROVE  /\ sock'[t].link # "new"
                 /\ sock'[t].link = "open" =>
                      /\ sock'[t].session.peers = Ids(r)
                      /\ sock'[t].code = c
                      /\ Placed(t)' <=> Placed(s)'
      <4>1. In(r, t) /\ t \in Socket /\ sock[t].link \notin {"new", "broken"}
        BY <1>2, IdsOfRoom
      <4>2. sock'[t].link # "new" /\ (sock'[t].link = "open" => Speaking(t))
        BY <1>5, <4>1 DEF Speaking
      <4>3. Placed(t) /\ Placed(s)
        BY <1>0, <2>1, <4>1, StoredRoom
      <4> QED
        BY <1>3, <1>6, <4>1, <4>2, <4>3
    <3> QED
      BY <3>1, <3>2, <3>3
  <2>2. CASE ~(In(r, s) /\ Speaking(s))
    <3>1. sock'[s] = sock[s] /\ Live(s)
      BY <1>4, <2>2 DEF Live
    <3>2. ~In(r, s)
      BY <2>2, <3>1 DEF Live, Speaking
    <3>3. ASSUME NEW t \in ToSet(sock[s].session.peers)
          PROVE  /\ sock'[t].link # "new"
                 /\ sock'[t].link = "open" =>
                      /\ sock'[t].session.peers = sock[s].session.peers
                      /\ sock'[t].code = sock[s].code
                      /\ Placed(t)' <=> Placed(s)'
      <4>1. t \in Socket
        BY <1>0, PeersAreSockets
      <4>2. /\ sock[t].link # "new"
            /\ sock[t].link = "open" =>
                 /\ sock[t].session.peers = sock[s].session.peers
                 /\ sock[t].code = sock[s].code
                 /\ Placed(t) <=> Placed(s)
        BY <3>1 DEF IInv, StampsMutual, Live
      <4>3. ~(In(r, t) /\ sock[t].link = "open")
        <5>1. SUFFICES ASSUME In(r, t), sock[t].link = "open" PROVE FALSE
          OBVIOUS
        <5>2. Placed(t) /\ sock[t].code = c
          BY <1>0, <5>1, StoredRoom
        <5>3. Placed(s) /\ sock[s].code = c
          BY <4>2, <5>1, <5>2
        <5> QED
          BY <3>2, <5>3 DEF Placed
      <4>4. sock'[t].link = "open" => sock'[t] = sock[t]
        BY <1>4, <1>5, <4>1, <4>3
      <4> QED
        BY <1>5, <1>6, <4>1, <4>2, <4>4
    <3>4. /\ sock[s].session.idx \in DOMAIN sock[s].session.peers
          /\ sock[s].session.peers[sock[s].session.idx] = s
      BY <3>1 DEF IInv, StampsMutual, Live
    <3> QED
      BY <3>1, <3>3, <3>4
  <2> QED
    BY <2>1, <2>2
<1> QED
  BY <1>0, <1>7, <1>8, <1>9, <1>10 DEF IInv, Shape

LEMMA NoStampStep ==
  ASSUME IInv, Shape', MembershipCoherent', StampsNobody
  PROVE  IInv'
  BY NoStampKeepsSessions, NoStampKeepsStamps DEF IInv

\* One socket changes, and has no routing afterwards.
LEMMA OneSocketNoStamp ==
  ASSUME NEW s \in Socket,
         \A t \in Socket \ {s} : sock'[t] = sock[t] /\ (Placed(t)' <=> Placed(t)),
         ~Live(s)',
         sock'[s].link # "new",
         sock'[s].link = "open" =>
           sock[s].link \in {"new", "open"} /\ sock[s].session = NoSession
  PROVE  StampsNobody
<1>1. \A t \in Socket : Live(t)' => t # s
  OBVIOUS
<1>2. \A t \in Socket : Live(t)' =>
        Live(t) /\ sock'[t].session = sock[t].session /\ sock'[t].code = sock[t].code
  BY <1>1 DEF Live
<1>3. \A t \in Socket : sock[t].link # "new" => sock'[t].link # "new"
  OBVIOUS
<1>4. \A t \in Socket : sock'[t].link = "open" /\ sock[t].link # "new" =>
        /\ sock[t].link = "open"
        /\ sock[t].session # NoSession =>
             sock'[t].session = sock[t].session /\ sock'[t].code = sock[t].code
  OBVIOUS
<1>5. \A t \in Socket : Placed(t)' /\ Live(t)' => Placed(t)
  BY <1>1
<1>6. ASSUME NEW u \in Socket, NEW t \in Socket,
             Live(u)', sock'[t].link = "open", sock[t].session # NoSession,
             sock[t].code = sock[u].code, Placed(t) <=> Placed(u)
      PROVE  Placed(t)' <=> Placed(u)'
  <2>1. u # s /\ t # s
    BY <1>1, <1>6
  <2> QED
    BY <1>6, <2>1
<1> QED
  BY <1>2, <1>3, <1>4, <1>5, <1>6 DEF StampsNobody

LEMMA SameSocketsNoStamp ==
  ASSUME sock' = sock, \A t \in Socket : Placed(t)' <=> Placed(t)
  PROVE  StampsNobody
<1>1. \A t \in Socket : Live(t)' <=> Live(t)
  BY DEF Live
<1> QED
  BY <1>1 DEF StampsNobody, Live

\* One attachment is rewritten.
LEMMA SockExcept ==
  ASSUME Shape, NEW s \in Socket, NEW a \in Attached, sock' = [sock EXCEPT ![s] = a]
  PROVE  /\ sock' \in [Socket -> Attached] /\ sock'[s] = a
         /\ \A t \in Socket \ {s} : sock'[t] = sock[t]
  BY DEF Shape

LEMMA ConnectStep ==
  ASSUME IInv, NEW s \in Socket, Connect(s)
  PROVE  IInv'
<1>1. Shape /\ MembershipCoherent
  BY DEF IInv
<1>2. /\ sock' \in [Socket -> Attached] /\ room' = room /\ alarm' = alarm
      /\ sock'[s].link = "open" /\ sock'[s].code = sock[s].code
      /\ sock'[s].session = sock[s].session
      /\ \A t \in Socket \ {s} : sock'[t] = sock[t]
  BY <1>1 DEF Connect, Shape, Attached, Link
<1>3. sock[s].link = "new" /\ sock[s].code = NoCode /\ sock[s].session = NoSession
  BY <1>1 DEF Connect, MembershipCoherent, AttachmentCoherent
<1>4. Shape'
  BY <1>1, <1>2 DEF Shape
<1>5. \A t \in Socket \ {s} : Placed(t)' <=> Placed(t)
  BY <1>2 DEF Placed
<1>6. MembershipCoherent'
  <2>1. \A c \in DOMAIN room, t \in Socket : In(room[c], t) => t # s
    BY <1>1, <1>3, StoredRoom
  <2>2. AttachmentCoherent(s)'
    BY <1>2, <1>3 DEF AttachmentCoherent
  <2>3. \A t \in Socket \ {s} : AttachmentCoherent(t)'
    BY <1>1, <1>2, <1>5, OthersCoherent
  <2> QED
    BY <1>1, <1>2, <2>1, <2>2, <2>3 DEF MembershipCoherent
<1>7. StampsNobody
  BY <1>2, <1>3, <1>5, OneSocketNoStamp DEF Live
<1> QED
  BY <1>4, <1>6, <1>7, NoStampStep

LEMMA LoseSocketStep ==
  ASSUME IInv, NEW s \in Socket, LoseSocket(s)
  PROVE  IInv'
<1>1. Shape /\ MembershipCoherent
  BY DEF IInv
<1>2. /\ sock' \in [Socket -> Attached] /\ room' = room /\ alarm' = alarm
      /\ sock'[s].link = "gone" /\ sock'[s].code = sock[s].code
      /\ sock'[s].session = sock[s].session
      /\ \A t \in Socket \ {s} : sock'[t] = sock[t]
  BY <1>1 DEF LoseSocket, Shape, Attached, Link
<1>3. Shape'
  BY <1>1, <1>2 DEF Shape
<1>4. \A t \in Socket \ {s} : Placed(t)' <=> Placed(t)
  BY <1>2 DEF Placed
<1>5. MembershipCoherent'
  <2>1. AttachmentCoherent(s)'
    BY <1>1, <1>2 DEF AttachmentCoherent, MembershipCoherent
  <2>2. \A t \in Socket \ {s} : AttachmentCoherent(t)'
    BY <1>1, <1>2, <1>4, OthersCoherent
  <2>3. \A c \in DOMAIN room : \A t \in Socket : In(room[c], t) =>
          sock'[t].code = c /\ sock'[t].link \notin {"new", "broken"}
    BY <1>1, <1>2, StoredRoom
  <2> QED
    BY <1>1, <1>2, <2>1, <2>2, <2>3 DEF MembershipCoherent
<1>6. StampsNobody
  BY <1>2, <1>4, OneSocketNoStamp DEF Live
<1> QED
  BY <1>3, <1>5, <1>6, NoStampStep

\* The attachment a departure leaves behind.
LEMMA DetachedAttachment ==
  ASSUME Shape, NEW s \in Socket, NEW link \in {"closing", "broken", "gone"}
  PROVE  /\ Detached(s, link) \in Attached
         /\ Detached(s, link).link = link
         /\ link = "broken" => /\ Detached(s, link).code = sock[s].code
                               /\ Detached(s, link).session = sock[s].session
         /\ link # "broken" => /\ Detached(s, link).code = NoCode
                               /\ Detached(s, link).session = NoSession
<1>1. NoSession \in Session
  BY EmptySeq DEF Session, NoSession
<1>2. sock[s].code \in Code \cup {NoCode} /\ sock[s].session \in Session
  BY SockFields
<1> QED
  BY <1>1, <1>2 DEF Detached, Attached, Link

LEMMA DepartStep ==
  ASSUME IInv, NEW s \in Socket, NEW link \in {"closing", "broken", "gone"},
         link = "broken" => sock[s].code # NoCode, Depart(s, link)
  PROVE  IInv'
<1> DEFINE c == sock[s].code
           left == Without(room[c], Position(room[c], s))
<1>1. Shape /\ MembershipCoherent
  BY DEF IInv
<1>2. /\ Detached(s, link) \in Attached
      /\ Detached(s, link).link = link
      /\ link = "broken" => Detached(s, link).code = c
      /\ link # "broken" => /\ Detached(s, link).code = NoCode
                            /\ Detached(s, link).session = NoSession
  BY <1>1, DetachedAttachment
<1>3. sock' = [sock EXCEPT ![s] = Detached(s, link)] /\ alarm' = alarm
  BY DEF Depart
<1>4. /\ sock' \in [Socket -> Attached]
      /\ sock'[s].link = link /\ (link = "broken" => sock'[s].code = c)
      /\ link # "broken" => sock'[s].code = NoCode /\ sock'[s].session = NoSession
      /\ \A t \in Socket \ {s} : sock'[t] = sock[t]
  BY <1>1, <1>2, <1>3, SockExcept
<1>5. AttachmentCoherent(s)'
  BY <1>4 DEF AttachmentCoherent
<1>6. \A d \in DOMAIN room : \A t \in Socket : In(room[d], t) =>
        /\ sock[t].code = d /\ sock[t].link \notin {"new", "broken"}
        /\ t # s => sock'[t] = sock[t]
        /\ t = s => d = c
  BY <1>1, <1>4, StoredRoom
<1>7. ~Live(s)' /\ sock'[s].link \notin {"new", "open"}
  BY <1>4 DEF Live
<1>8. CASE ~Placed(s)
  <2>1. room' = room
    BY <1>8 DEF Depart
  <2>2. \A d \in DOMAIN room : ~In(room[d], s)
    BY <1>6, <1>8 DEF Placed
  <2>3. \A t \in Socket \ {s} : Placed(t)' <=> Placed(t)
    BY <1>4, <2>1 DEF Placed
  <2>4. MembershipCoherent'
    <3>1. \A t \in Socket \ {s} : AttachmentCoherent(t)'
      BY <1>1, <1>4, <2>3, OthersCoherent
    <3> QED
      BY <1>1, <1>5, <1>6, <2>1, <2>2, <3>1 DEF MembershipCoherent
  <2>5. StampsNobody
    BY <1>4, <1>7, <2>3, OneSocketNoStamp
  <2>6. Shape'
    BY <1>1, <1>3, <1>4, <2>1 DEF Shape
  <2> QED
    BY <2>4, <2>5, <2>6, NoStampStep
<1>9. CASE Placed(s)
  <2>1. /\ c \in DOMAIN room /\ c \in Code /\ room[c] \in Room /\ WellListed(room[c])
        /\ In(room[c], s)
    BY <1>1, <1>9, StoredRoom DEF Placed
  <2>2. /\ Position(room[c], s) \in DOMAIN room[c].players
        /\ room[c].players[Position(room[c], s)].id = s
    BY <2>1, RoomFields
  <2>3. /\ left \in Room
        /\ left.players # <<>> => WellListed(left)
        /\ \A t : In(left, t) <=> In(room[c], t) /\ t # s
    BY <2>1, <2>2, WithoutProperties, WithoutListed
  <2>4. CASE left.players = <<>>
    <3>1. room' = Delete({c})
      BY <1>9, <2>4 DEF Depart
    <3>2. \A t \in Socket : In(room[c], t) => t = s
      <4>1. \A t : ~In(left, t)
        BY <2>4 DEF In
      <4> QED
        BY <2>3, <4>1
    <3>3. \A t \in Socket \ {s} : Placed(t)' <=> Placed(t)
      <4>1. /\ DOMAIN room' = DOMAIN room \ {c}
            /\ \A d \in DOMAIN room' : room'[d] = room[d]
        BY <3>1, DeleteFacts
      <4> QED
        BY <1>4, <3>2, <4>1 DEF Placed
    <3>4. /\ MembershipCoherent'
          /\ DOMAIN room' \subseteq Code /\ room' \in [DOMAIN room' -> Room]
      <4>1. \A d \in DOMAIN room \ {c} : \A t \in Socket : In(room[d], t) =>
              sock'[t].code = sock[t].code /\ sock'[t].link \notin {"new", "broken"}
        BY <1>6
      <4>2. \A t \in Socket \ {s} : AttachmentCoherent(t)'
        BY <1>1, <1>4, <3>3, OthersCoherent
      <4> QED
        BY <1>5, <3>1, <4>1, <4>2, DeleteCoherent
    <3>5. StampsNobody
      BY <1>4, <1>7, <3>3, OneSocketNoStamp
    <3>6. Shape'
      BY <1>1, <1>3, <1>4, <3>4 DEF Shape
    <3> QED
      BY <3>4, <3>5, <3>6, NoStampStep
  <2>5. CASE left.players # <<>>
    <3>1. room' = Put(c, left)
      BY <1>9, <2>5 DEF Depart
    <3>2. \A t \in Socket \ {s} : Placed(t)' <=> Placed(t)
      <4>1. /\ DOMAIN room' = DOMAIN room /\ room'[c] = left
            /\ \A d \in DOMAIN room : d # c => room'[d] = room[d]
        BY <2>1, <3>1 DEF Put
      <4> HIDE DEF left
      <4> QED
        BY <1>4, <2>3, <4>1 DEF Placed
    <3>3. /\ MembershipCoherent'
          /\ DOMAIN room' \subseteq Code /\ room' \in [DOMAIN room' -> Room]
      <4>1. \A t \in Socket : In(left, t) =>
              sock'[t].code = c /\ sock'[t].link \notin {"new", "broken"}
        BY <1>6, <2>1, <2>3
      <4>2. \A d \in DOMAIN room \ {c} : \A t \in Socket : In(room[d], t) =>
              sock'[t].code = sock[t].code /\ sock'[t].link \notin {"new", "broken"}
        BY <1>6
      <4>3. \A t \in Socket \ {s} : AttachmentCoherent(t)'
        BY <1>1, <1>4, <3>2, OthersCoherent
      <4> QED
        BY <1>5, <2>1, <2>3, <2>5, <3>1, <4>1, <4>2, <4>3, PutCoherent
    <3>4. StampsNobody
      BY <1>4, <1>7, <3>2, OneSocketNoStamp
    <3>5. Shape'
      BY <1>1, <1>3, <1>4, <3>3 DEF Shape
    <3> QED
      BY <3>3, <3>4, <3>5, NoStampStep
  <2> QED
    BY <2>4, <2>5
<1> QED
  BY <1>8, <1>9

\* An unattached socket takes a seat: create and join.
LEMMA EntryStep ==
  ASSUME IInv, NEW s \in Socket, NEW c \in Code, NEW r \in Room,
         Speaking(s), Unattached(s), WellListed(r),
         \A t : In(r, t) <=> t = s \/ (c \in DOMAIN room /\ In(room[c], t)),
         room' = Put(c, r), sock' = [sock EXCEPT ![s].code = c], alarm' \in BOOLEAN
  PROVE  IInv'
<1>1. Shape /\ MembershipCoherent
  BY DEF IInv
<1>2. /\ sock' \in [Socket -> Attached]
      /\ sock'[s].link = sock[s].link /\ sock[s].link \in {"open", "closing"}
      /\ sock'[s].code = c /\ sock'[s].session = NoSession
      /\ \A t \in Socket \ {s} : sock'[t] = sock[t]
  <2>1. sock[s].link # "broken"
    BY <1>1 DEF Unattached, MembershipCoherent, AttachmentCoherent
  <2> QED
    BY <1>1, <2>1 DEF Shape, Attached, Unattached, Speaking
<1>3. \A d \in DOMAIN room : ~In(room[d], s)
  BY <1>1, StoredRoom DEF Unattached
<1>4. \A t \in Socket \ {s} : Placed(t)' <=> Placed(t)
  <2>1. /\ DOMAIN room' = DOMAIN room \cup {c} /\ room'[c] = r
        /\ \A d \in DOMAIN room : d # c => room'[d] = room[d]
    BY DEF Put
  <2> QED
    BY <1>2, <2>1 DEF Placed
<1>5. /\ MembershipCoherent'
      /\ DOMAIN room' \subseteq Code /\ room' \in [DOMAIN room' -> Room]
  <2>1. ASSUME NEW t \in Socket, In(r, t)
        PROVE  sock'[t].code = c /\ sock'[t].link \notin {"new", "broken"}
    <3>1. CASE t = s
      BY <1>2, <3>1
    <3>2. CASE t # s
      <4>1. c \in DOMAIN room /\ In(room[c], t)
        BY <2>1, <3>2
      <4> QED
        BY <1>1, <1>2, <3>2, <4>1, StoredRoom
    <3> QED
      BY <3>1, <3>2
  <2>2. \A d \in DOMAIN room \ {c} : \A t \in Socket : In(room[d], t) =>
          sock'[t].code = sock[t].code /\ sock'[t].link \notin {"new", "broken"}
    BY <1>1, <1>2, <1>3, StoredRoom
  <2>3. Placed(s)'
    BY <1>2 DEF Placed, Put
  <2>4. AttachmentCoherent(s)'
    BY <1>2, <2>3, NoCodeAssumption DEF AttachmentCoherent
  <2>5. \A t \in Socket \ {s} : AttachmentCoherent(t)'
    BY <1>1, <1>2, <1>4, OthersCoherent
  <2> QED
    BY <2>1, <2>2, <2>4, <2>5, PutCoherent
<1>6. StampsNobody
  BY <1>2, <1>4, OneSocketNoStamp DEF Live, Unattached
<1>7. Shape'
  BY <1>1, <1>2, <1>5 DEF Shape
<1> QED
  BY <1>5, <1>6, <1>7, NoStampStep

LEMMA CreateRoomStep ==
  ASSUME IInv, NEW s \in Socket, NEW c \in Code, NEW rom \in Rom, NEW w \in BOOLEAN,
         CreateRoom(s, c, rom, w)
  PROVE  IInv'
<1> DEFINE r == NewRoom(s, rom, w)
<1>1. r \in Room /\ WellListed(r) /\ \A t : In(r, t) <=> t = s
  BY NewRoomProperties, NewRoomListed
<1> HIDE DEF r
<1>2. /\ Speaking(s) /\ Unattached(s) /\ c \notin DOMAIN room
      /\ room' = Put(c, r) /\ sock' = [sock EXCEPT ![s].code = c] /\ alarm' \in BOOLEAN
  BY DEF CreateRoom, r
<1> QED
  BY <1>1, <1>2, EntryStep

LEMMA JoinRoomStep ==
  ASSUME IInv, NEW s \in Socket, NEW c \in Code, NEW rom \in Rom, JoinRoom(s, c, rom)
  PROVE  IInv'
<1> DEFINE r == Seated(room[c], s, rom)
<1>1. /\ Speaking(s) /\ Unattached(s) /\ c \in DOMAIN room
      /\ room' = Put(c, r) /\ sock' = [sock EXCEPT ![s].code = c] /\ alarm' = alarm
  BY DEF JoinRoom
<1>2. room[c] \in Room /\ WellListed(room[c]) /\ ~In(room[c], s)
  BY <1>1, StoredRoom DEF IInv, Unattached
<1>3. r \in Room /\ WellListed(r) /\ \A t : In(r, t) <=> In(room[c], t) \/ t = s
  BY <1>2, SeatedProperties, SeatedListed
<1> HIDE DEF r
<1>4. alarm' \in BOOLEAN
  BY <1>1 DEF IInv, Shape
<1> QED
  BY <1>1, <1>3, <1>4, EntryStep

LEMMA RefuseEntryStep ==
  ASSUME IInv, NEW s \in Socket, RefuseEntry(s)
  PROVE  IInv'
<1>1. Shape /\ MembershipCoherent /\ room' = room /\ alarm' = alarm
  BY DEF IInv, RefuseEntry, RefuseReentry, RefuseVersion, RefuseJoin
<1>2. CASE sock' = sock
  <2>1. Shape' /\ MembershipCoherent' /\ \A t \in Socket : Placed(t)' <=> Placed(t)
    BY <1>1, <1>2 DEF Shape, MembershipCoherent, AttachmentCoherent, Placed
  <2> QED
    BY <1>2, <2>1, SameSocketsNoStamp, NoStampStep
<1>3. CASE Unattached(s) /\ sock' = [sock EXCEPT ![s].link = "closing"]
  <2>1. /\ sock' \in [Socket -> Attached]
        /\ sock'[s].link = "closing" /\ sock'[s].code = sock[s].code
        /\ sock'[s].session = NoSession /\ sock[s].code = NoCode
        /\ \A t \in Socket \ {s} : sock'[t] = sock[t]
    BY <1>1, <1>3 DEF Shape, Attached, Unattached, Link
  <2>2. \A c \in DOMAIN room : ~In(room[c], s)
    BY <1>1, <2>1, StoredRoom
  <2>3. \A t \in Socket \ {s} : Placed(t)' <=> Placed(t)
    BY <1>1, <2>1 DEF Placed
  <2>4. Shape' /\ MembershipCoherent'
    <3>1. \A t \in Socket : AttachmentCoherent(t)'
      <4>1. AttachmentCoherent(s)'
        BY <2>1 DEF AttachmentCoherent
      <4> QED
        BY <1>1, <2>1, <2>3, <4>1, OthersCoherent
    <3> QED
      BY <1>1, <2>1, <2>2, <3>1 DEF Shape, MembershipCoherent
  <2>5. StampsNobody
    BY <2>1, <2>3, OneSocketNoStamp DEF Live
  <2> QED
    BY <2>4, <2>5, NoStampStep
<1> QED
  BY <1>2, <1>3 DEF RefuseEntry, RefuseReentry, RefuseVersion, RefuseJoin

\* A record is rewritten under the same members.
LEMMA SameMembersStep ==
  ASSUME IInv, NEW c \in DOMAIN room, NEW r \in Room, WellListed(r),
         \A t : In(r, t) <=> In(room[c], t),
         room' = Put(c, r), sock' = sock, alarm' = alarm
  PROVE  IInv'
<1>1. Shape /\ MembershipCoherent /\ c \in Code
  BY DEF IInv, Shape
<1>2. \A t \in Socket : Placed(t)' <=> Placed(t)
  <2>1. /\ DOMAIN room' = DOMAIN room /\ room'[c] = r
        /\ \A d \in DOMAIN room : d # c => room'[d] = room[d]
    BY DEF Put
  <2> QED
    BY <2>1 DEF Placed
<1>3. /\ MembershipCoherent'
      /\ DOMAIN room' \subseteq Code /\ room' \in [DOMAIN room' -> Room]
  <2>1. \A d \in DOMAIN room : \A t \in Socket : In(room[d], t) =>
          sock[t].code = d /\ sock[t].link \notin {"new", "broken"}
    BY <1>1, StoredRoom
  <2>2. \A t \in Socket : AttachmentCoherent(t)'
    BY <1>1, <1>2 DEF MembershipCoherent, AttachmentCoherent
  <2> QED
    BY <1>1, <2>1, <2>2, PutCoherent
<1>4. Shape'
  BY <1>1, <1>3 DEF Shape
<1> QED
  BY <1>2, <1>3, <1>4, SameSocketsNoStamp, NoStampStep

LEMMA SetReadyStep ==
  ASSUME IInv, NEW s \in Socket, NEW b \in BOOLEAN, SetReady(s, b)
  PROVE  IInv'
<1> DEFINE c == sock[s].code
           r == Asserted(room[c], Position(room[c], s), b)
<1>1. Shape /\ MembershipCoherent /\ Placed(s) /\ c \in DOMAIN room /\ In(room[c], s)
  BY DEF IInv, SetReady, Placed
<1>2. room[c] \in Room /\ WellListed(room[c])
      /\ Position(room[c], s) \in DOMAIN room[c].players
  BY <1>1, StoredRoom, RoomFields
<1>3. r \in Room /\ WellListed(r) /\ \A t : In(r, t) <=> In(room[c], t)
  BY <1>2, AssertedProperties, AssertedListed
<1>4. \/ room' = Put(c, Merged(r)) /\ sock' = Stamped(c, r) /\ alarm' = alarm
      \/ room' = Put(c, r) /\ sock' = sock /\ alarm' = alarm
  BY DEF SetReady
<1> HIDE DEF c, r
<1> QED
  BY <1>1, <1>3, <1>4, MergeStep, SameMembersStep

LEMMA StartRoomStep ==
  ASSUME IInv, NEW s \in Socket, StartRoom(s)
  PROVE  IInv'
<1> DEFINE c == sock[s].code
           r == room[c]
<1>1. Shape /\ MembershipCoherent /\ c \in DOMAIN room
  BY DEF IInv, StartRoom, Placed
<1>2. r \in Room /\ WellListed(r)
  BY <1>1, StoredRoom
<1>3. room' = Put(c, Merged(r)) /\ sock' = Stamped(c, r) /\ alarm' = alarm
  BY DEF StartRoom
<1> QED
  BY <1>1, <1>2, <1>3, MergeStep

LEMMA ExpireStep ==
  ASSUME IInv, NEW c \in Code, Expire(c)
  PROVE  IInv'
<1> DEFINE r == [room[c] EXCEPT !.expired = TRUE]
<1>1. Shape /\ MembershipCoherent /\ c \in DOMAIN room
  BY DEF IInv, Expire
<1>2. room[c] \in Room /\ WellListed(room[c])
  BY <1>1, StoredRoom
<1>3. r \in Room /\ r.players = room[c].players /\ r.nextSeat = room[c].nextSeat
  BY <1>2 DEF Room
<1>4. WellListed(r) /\ \A t : In(r, t) <=> In(room[c], t)
  BY <1>2, <1>3 DEF WellListed, In
<1>5. room' = Put(c, r) /\ sock' = sock /\ alarm' = alarm
  BY <1>1 DEF Expire, Put, Shape
<1> HIDE DEF r
<1> QED
  BY <1>1, <1>3, <1>4, <1>5, SameMembersStep

LEMMA KickPlayerStep ==
  ASSUME IInv, NEW s \in Socket, NEW seat \in Nat, NEW link \in {"closing", "broken"},
         KickPlayer(s, seat, link)
  PROVE  IInv'
<1> DEFINE c      == sock[s].code
           r      == room[c]
           target == CHOOSE i \in DOMAIN r.players : r.players[i].seat = seat
           k      == r.players[target].id
           left   == Without(r, target)
<1>1. /\ Shape /\ MembershipCoherent /\ Placed(s) /\ c \in DOMAIN room /\ c \in Code
      /\ In(r, s)
  BY DEF IInv, KickPlayer, Placed, Shape
<1>2. r \in Room /\ WellListed(r) /\ \A t : In(r, t) =>
        t \in Socket /\ sock[t].code = c /\ sock[t].link \notin {"new", "broken"}
  BY <1>1, StoredRoom
<1>3. target \in DOMAIN r.players
  BY DEF KickPlayer
<1>4. /\ target # 1 /\ Position(r, s) = 1
      /\ room' = Put(c, left) /\ alarm' = alarm
      /\ sock' = IF Speaking(k)
                 THEN [sock EXCEPT ![k] = Detached(k, link)] ELSE sock
  BY DEF KickPlayer
<1>5. /\ left \in Room /\ (left.players # <<>> => WellListed(left))
      /\ \A t : In(left, t) <=> In(r, t) /\ t # k
  BY <1>2, <1>3, WithoutProperties, WithoutListed
<1>6. In(r, k) /\ k \in Socket
  BY <1>2, <1>3 DEF In
<1>7. left.players # <<>>
  <2>1. s # k
    <3> HIDE DEF c, r, target
    <3>1. 1 \in DOMAIN r.players /\ r.players[1].id = s
      BY <1>1, <1>2, <1>4, RoomFields
    <3> QED
      BY <1>2, <1>3, <1>4, <3>1 DEF WellListed
  <2>2. In(left, s)
    BY <1>1, <1>5, <2>1
  <2> HIDE DEF left
  <2> QED
    BY <2>2 DEF In
<1>8. sock[k].code = c /\ c # NoCode /\ sock[k].link \in {"open", "closing", "gone"}
  BY <1>1, <1>2, <1>6, NoCodeAssumption, SockFields DEF Link
<1> HIDE DEF c, r, target, k, left
<1>9. /\ sock' \in [Socket -> Attached]
      /\ \A t \in Socket \ {k} : sock'[t] = sock[t]
      /\ \/ sock'[k].link = "closing" /\ sock'[k].code = NoCode
            /\ sock'[k].session = NoSession
         \/ sock'[k].link = "broken" /\ sock'[k].code = c
         \/ sock'[k] = sock[k] /\ sock[k].link = "gone"
  <2>1. CASE Speaking(k)
    <3>1. /\ Detached(k, link) \in Attached
          /\ Detached(k, link).link = link
          /\ link = "broken" => Detached(k, link).code = c
          /\ link # "broken" => /\ Detached(k, link).code = NoCode
                                /\ Detached(k, link).session = NoSession
      BY <1>1, <1>6, <1>8, DetachedAttachment
    <3>2. sock' = [sock EXCEPT ![k] = Detached(k, link)]
      BY <1>4, <2>1
    <3>3. /\ sock' \in [Socket -> Attached] /\ sock'[k] = Detached(k, link)
          /\ \A t \in Socket \ {k} : sock'[t] = sock[t]
      BY <1>1, <1>6, <3>1, <3>2, SockExcept
    <3> QED
      BY <3>1, <3>3
  <2>2. CASE ~Speaking(k)
    BY <1>1, <1>4, <1>8, <2>2 DEF Shape, Speaking
  <2> QED
    BY <2>1, <2>2
<1>10. \A t \in Socket \ {k} : Placed(t)' <=> Placed(t)
  <2>1. /\ DOMAIN room' = DOMAIN room /\ room'[c] = left
        /\ \A d \in DOMAIN room : d # c => room'[d] = room[d]
    BY <1>1, <1>4 DEF Put
  <2> QED
    BY <1>5, <1>9, <2>1 DEF Placed, r
<1>11. /\ MembershipCoherent'
       /\ DOMAIN room' \subseteq Code /\ room' \in [DOMAIN room' -> Room]
  <2>1. \A t \in Socket : In(left, t) =>
          sock'[t].code = c /\ sock'[t].link \notin {"new", "broken"}
    BY <1>2, <1>5, <1>9
  <2>2. \A d \in DOMAIN room \ {c} : \A t \in Socket : In(room[d], t) =>
          sock'[t].code = sock[t].code /\ sock'[t].link \notin {"new", "broken"}
    <3>1. \A d \in DOMAIN room : \A t \in Socket : In(room[d], t) =>
            sock[t].code = d /\ sock[t].link \notin {"new", "broken"}
      BY <1>1, StoredRoom
    <3> QED
      BY <1>8, <1>9, <3>1
  <2>3. \A t \in Socket \ {k} : AttachmentCoherent(t)'
    BY <1>1, <1>9, <1>10, OthersCoherent
  <2>4. ASSUME NEW t \in Socket, t = k
        PROVE  AttachmentCoherent(t)'
    <3>1. sock[t].code # NoCode
      BY <1>8, <2>4
    <3>2. /\ sock'[t].link \notin {"new", "open"}
          /\ sock'[t].link = "broken" => sock'[t].code # NoCode
          /\ sock'[t].code = NoCode => sock'[t].session = NoSession
      BY <1>8, <1>9, <2>4, <3>1
    <3> QED
      BY <3>2 DEF AttachmentCoherent
  <2>5. \A t \in Socket : AttachmentCoherent(t)'
    BY <2>3, <2>4
  <2>6. WellListed(left)
    BY <1>5, <1>7
  <2> QED
    BY <1>1, <1>4, <1>5, <2>1, <2>2, <2>5, <2>6, PutCoherent
<1>12. StampsNobody
  BY <1>6, <1>9, <1>10, OneSocketNoStamp DEF Live
<1>13. Shape'
  BY <1>1, <1>4, <1>9, <1>11 DEF Shape
<1> QED
  BY <1>11, <1>12, <1>13, NoStampStep

LEMMA SweepStep ==
  ASSUME IInv, Sweep
  PROVE  IInv'
<1> DEFINE dead == {c \in DOMAIN room : Abandoned(c) \/ room[c].expired}
<1>1. Shape /\ MembershipCoherent
  BY DEF IInv
<1>2. /\ room' = Delete(dead) /\ alarm' \in BOOLEAN
      /\ sock' = [t \in Socket |->
                    IF sock[t].link = "open" /\ \E c \in dead : In(room[c], t)
                    THEN [sock[t] EXCEPT !.link = "closing"] ELSE sock[t]]
  BY DEF Sweep
<1>3. dead \subseteq DOMAIN room
  OBVIOUS
<1> HIDE DEF dead
<1>4. ASSUME NEW t \in Socket
      PROVE  /\ sock'[t] \in Attached
             /\ sock'[t].code = sock[t].code /\ sock'[t].session = sock[t].session
             /\ \/ sock'[t].link = sock[t].link
                \/ sock[t].link = "open" /\ sock'[t].link = "closing"
             /\ sock'[t].link = "open" => \A c \in dead : ~In(room[c], t)
             /\ (\A c \in dead : ~In(room[c], t)) => sock'[t] = sock[t]
  <2>1. sock[t] \in Attached
    BY <1>1 DEF Shape
  <2>2. CASE sock[t].link = "open" /\ \E c \in dead : In(room[c], t)
    <3>1. sock'[t] = [sock[t] EXCEPT !.link = "closing"]
      BY <1>2, <2>2
    <3> QED
      BY <2>1, <2>2, <3>1 DEF Attached, Link
  <2>3. CASE ~(sock[t].link = "open" /\ \E c \in dead : In(room[c], t))
    <3>1. sock'[t] = sock[t]
      BY <1>2, <2>3
    <3> QED
      BY <2>1, <2>3, <3>1
  <2> QED
    BY <2>2, <2>3
<1>5. sock' \in [Socket -> Attached]
  BY <1>2, <1>4
<1>6. \A d \in DOMAIN room : \A t \in Socket : In(room[d], t) =>
        sock[t].code = d /\ sock[t].link \notin {"new", "broken"}
  BY <1>1, StoredRoom
<1>7. /\ DOMAIN room' = DOMAIN room \ dead
      /\ \A d \in DOMAIN room' : room'[d] = room[d]
  BY <1>2, DeleteFacts
<1>8. /\ MembershipCoherent'
      /\ DOMAIN room' \subseteq Code /\ room' \in [DOMAIN room' -> Room]
  <2>1. ASSUME NEW d \in DOMAIN room \ dead, NEW t \in Socket, In(room[d], t)
        PROVE  sock'[t].code = sock[t].code /\ sock'[t].link \notin {"new", "broken"}
    <3>1. \A c \in dead : ~In(room[c], t)
      BY <1>3, <1>6, <2>1
    <3> QED
      BY <1>4, <1>6, <2>1, <3>1
  <2>2. ASSUME NEW t \in Socket
        PROVE  AttachmentCoherent(t)'
    <3>1. AttachmentCoherent(t)
      BY <1>1 DEF MembershipCoherent
    <3>2. ASSUME sock'[t].link = "open", sock[t].code # NoCode
          PROVE  Placed(t)'
      <4>1. sock[t].link = "open" /\ Placed(t)
        BY <1>4, <3>1, <3>2 DEF AttachmentCoherent
      <4>2. sock[t].code \in DOMAIN room'
        BY <1>4, <1>7, <3>2, <4>1 DEF Placed
      <4> QED
        BY <1>4, <1>7, <4>1, <4>2 DEF Placed
    <3>3. sock'[t].link \in {"new", "broken"} => sock'[t].link = sock[t].link
      BY <1>4
    <3> QED
      BY <1>4, <3>1, <3>2, <3>3 DEF AttachmentCoherent
  <2> QED
    BY <1>2, <2>1, <2>2, DeleteCoherent
<1>9. StampsNobody
  <2>1. \A t \in Socket : Live(t)' =>
          Live(t) /\ sock'[t].session = sock[t].session /\ sock'[t].code = sock[t].code
    BY <1>4 DEF Live
  <2>2. \A t \in Socket : sock[t].link # "new" => sock'[t].link # "new"
    BY <1>4
  <2>3. \A t \in Socket : sock'[t].link = "open" /\ sock[t].link # "new" =>
          /\ sock[t].link = "open"
          /\ sock[t].session # NoSession =>
               sock'[t].session = sock[t].session /\ sock'[t].code = sock[t].code
    BY <1>4
  <2>4. \A t \in Socket : Placed(t)' => Placed(t)
    BY <1>4, <1>7 DEF Placed
  <2>5. ASSUME NEW s \in Socket, NEW t \in Socket,
               Live(s)', sock'[t].link = "open", sock[t].session # NoSession,
               sock[t].code = sock[s].code, Placed(t) <=> Placed(s)
        PROVE  Placed(t)' <=> Placed(s)'
    <3>1. CASE sock[t].code \in dead
      <4>1. ~Placed(t)
        BY <1>4, <2>5, <3>1 DEF Placed
      <4> QED
        BY <2>4, <2>5, <4>1
    <3>2. CASE sock[t].code \notin dead
      BY <1>4, <1>7, <2>5, <3>2 DEF Placed
    <3> QED
      BY <3>1, <3>2
  <2> QED
    BY <2>1, <2>2, <2>3, <2>4, <2>5 DEF StampsNobody
<1>10. Shape'
  BY <1>2, <1>5, <1>8 DEF Shape
<1> QED
  BY <1>8, <1>9, <1>10, NoStampStep

-----------------------------------------------------------------------------
(* The invariants *)

LEMMA InitIInv == Init => IInv
<1> SUFFICES ASSUME Init PROVE IInv
  OBVIOUS
<1>1. Shape
  BY EmptySeq DEF Init, Shape, Attached, Link, Session, NoSession
<1>2. MembershipCoherent
  BY DEF Init, MembershipCoherent, AttachmentCoherent, NoSession
<1>3. SessionsAgree
  BY DEF Init, SessionsAgree
<1>4. StampsMutual
  BY DEF Init, StampsMutual
<1> QED
  BY <1>1, <1>2, <1>3, <1>4 DEF IInv

\* Steps that touch neither a record nor an attachment.
LEMMA UnchangedStep ==
  ASSUME IInv, UNCHANGED <<room, sock, alarm>>
  PROVE  IInv'
<1>1. \A t \in Socket : Placed(t)' <=> Placed(t)
  BY DEF Placed
<1>2. Shape' /\ MembershipCoherent'
  BY <1>1 DEF IInv, Shape, MembershipCoherent, AttachmentCoherent
<1> QED
  BY <1>1, <1>2, SameSocketsNoStamp, NoStampStep

LEMMA SeatsAreNat ==
  ASSUME Shape
  PROVE  Seats \subseteq Nat
<1>1. \A c \in DOMAIN room : room[c].nextSeat \in Nat
  BY DEF Shape, Room
<1>2. \A c \in DOMAIN room : 0 .. room[c].nextSeat \subseteq Nat
  BY <1>1
<1> QED
  BY <1>2 DEF Seats

LEMMA StepIInv == IInv /\ [Next]_vars => IInv'
<1> SUFFICES ASSUME IInv, [Next]_vars PROVE IInv'
  OBVIOUS
<1>1. CASE UNCHANGED vars
  BY <1>1, UnchangedStep DEF vars
<1>2. ASSUME NEW s \in Socket, Environment(s) PROVE IInv'
  <2>1. CASE Connect(s)
    BY <2>1, ConnectStep
  <2>2. CASE CloseEvent(s)
    BY <2>2, DepartStep DEF CloseEvent
  <2>3. CASE \E link \in Exits(s) : ErrorEvent(s, link)
    BY <2>3, DepartStep DEF ErrorEvent, Exits
  <2>4. CASE LoseSocket(s)
    BY <2>4, LoseSocketStep
  <2> QED
    BY <1>2, <2>1, <2>2, <2>3, <2>4 DEF Environment
<1>3. ASSUME NEW s \in Socket, Entry(s) PROVE IInv'
  BY <1>3, CreateRoomStep, JoinRoomStep, RefuseEntryStep DEF Entry
<1>4. ASSUME NEW s \in Socket, Member(s) PROVE IInv'
  <2>1. CASE \E b \in BOOLEAN : SetReady(s, b)
    BY <2>1, SetReadyStep
  <2>2. CASE StartRoom(s)
    BY <2>2, StartRoomStep
  <2>3. CASE \E seat \in Seats, link \in {"closing", "broken"} : KickPlayer(s, seat, link)
    <3>1. Seats \subseteq Nat
      BY SeatsAreNat DEF IInv
    <3> QED
      BY <2>3, <3>1, KickPlayerStep
  <2>4. CASE \E link \in Exits(s) : Leave(s, link)
    BY <2>4, DepartStep DEF Leave, Exits
  <2>5. CASE \/ RefuseStart(s) \/ RefuseSignal(s) \/ IgnoreMessage(s)
             \/ \E to \in 1 .. WirelessSeats, p \in Payload : RelaySignal(s, to, p)
             \/ \E seat \in Seats : RefuseKick(s, seat)
    BY <2>5, UnchangedStep
    DEF RefuseStart, RefuseSignal, IgnoreMessage, RelaySignal, RefuseKick
  <2> QED
    BY <1>4, <2>1, <2>2, <2>3, <2>4, <2>5 DEF Member
<1>5. ASSUME NEW c \in Code, Expire(c) PROVE IInv'
  BY <1>5, ExpireStep
<1>6. CASE Sweep
  BY <1>6, SweepStep
<1> QED
  BY <1>1, <1>2, <1>3, <1>4, <1>5, <1>6 DEF Next

LEMMA InductiveInvariant == Spec => []IInv
<1> QED
  BY InitIInv, StepIInv, PTL DEF Spec

\* The two copies of the membership, the stored record and the attachments,
\* agree at every step: no socket sits in two rooms.
THEOREM MembershipHolds == Spec => []MembershipCoherent
<1>1. IInv => MembershipCoherent
  BY DEF IInv
<1> QED
  BY <1>1, InductiveInvariant, PTL

\* No two members of a room hold routings that disagree.
THEOREM SessionsHold == Spec => []SessionsAgree
<1>1. IInv => SessionsAgree
  BY DEF IInv
<1> QED
  BY <1>1, InductiveInvariant, PTL

\* Stamps are mutual among the connected sockets of a merge.
THEOREM StampsHold == Spec => []StampsMutual
<1>1. IInv => StampsMutual
  BY DEF IInv
<1> QED
  BY <1>1, InductiveInvariant, PTL

\* A relayed signal carries the index its receiver's own routing gives to the
\* sender, unless the sender's attachment outlived its membership.  The step
\* needs StampsMutual of the state it starts in.
THEOREM SignalsLand == Spec => SignalLandsInSession
<1> DEFINE Lands ==
      \A s, t \in Socket, to \in 1 .. WirelessSeats, p \in Payload :
        RelaySignal(s, to, p) /\ sock[s].link # "broken"
          /\ sent'[t] # <<>> /\ sock[t].session # NoSession =>
          \E i \in DOMAIN sock[t].session.peers :
            sock[t].session.peers[i] = s /\ sent'[t] = <<Signal(i, p)>>
<1>1. IInv => Lands
  <2> SUFFICES ASSUME IInv, NEW s \in Socket, NEW t \in Socket,
                      NEW to \in 1 .. WirelessSeats, NEW p \in Payload,
                      RelaySignal(s, to, p), sock[s].link # "broken",
                      sent'[t] # <<>>, sock[t].session # NoSession
               PROVE  \E i \in DOMAIN sock[t].session.peers :
                        sock[t].session.peers[i] = s /\ sent'[t] = <<Signal(i, p)>>
    OBVIOUS
  <2> DEFINE me == sock[s].session
  <2>1. Live(s)
    BY DEF RelaySignal, Speaking, Live
  <2>2. to \in DOMAIN me.peers /\ sent' = Reply(me.peers[to], <<Signal(me.idx, p)>>)
    <3>1. CASE to \in DOMAIN me.peers /\ to # me.idx
      BY <3>1 DEF RelaySignal
    <3>2. CASE ~(to \in DOMAIN me.peers /\ to # me.idx)
      BY <3>2 DEF RelaySignal, Nothing
    <3> QED
      BY <3>1, <3>2
  <2>3. t = me.peers[to] /\ sock[t].link = "open" /\ sent'[t] = <<Signal(me.idx, p)>>
    <3>1. sent'[t] = IF sock[t].link = "open"
                     THEN [Nothing EXCEPT ![me.peers[to]] = <<Signal(me.idx, p)>>][t]
                     ELSE <<>>
      BY <2>2 DEF Reply, Heard
    <3> QED
      BY <3>1 DEF Nothing
  <2>4. t \in ToSet(me.peers)
    BY <2>2, <2>3 DEF ToSet
  <2>5. /\ me.idx \in DOMAIN me.peers /\ me.peers[me.idx] = s
        /\ sock[t].session.peers = me.peers
    BY <2>1, <2>3, <2>4 DEF IInv, StampsMutual, Live
  <2> QED
    BY <2>3, <2>5
<1>2. IInv /\ [Next]_vars => [Lands]_vars
  BY <1>1
<1>3. Spec => [][Lands]_vars
  BY <1>2, InductiveInvariant, PTL DEF Spec
<1> QED
  BY <1>3 DEF SignalLandsInSession

-----------------------------------------------------------------------------
(* Types *)

Out == [Socket -> Seq(Message)]

SentOK == sent \in Out

LEMMA OneMessage ==
  ASSUME NEW m \in Message
  PROVE  <<m>> \in Seq(Message)
  OBVIOUS

LEMMA TwoParts ==
  ASSUME NEW a \in Seq(Message), NEW b \in Seq(Message)
  PROVE  a \o b \in Seq(Message)
  BY ConcatProperties

LEMMA NoMessages == <<>> \in Seq(Message) /\ Nothing \in Out
<1>1. <<>> \in Seq(Message)
  BY EmptySeq
<1> QED
  BY <1>1 DEF Nothing, Out

LEMMA HeardType ==
  ASSUME NEW out \in Out
  PROVE  Heard(out) \in Out
  BY NoMessages DEF Heard, Out

LEMMA ReplyType ==
  ASSUME NEW s, NEW msgs \in Seq(Message)
  PROVE  Reply(s, msgs) \in Out
<1>1. [Nothing EXCEPT ![s] = msgs] \in Out
  BY NoMessages DEF Out
<1> QED
  BY <1>1, HeardType DEF Reply

LEMMA SimpleMessages ==
  /\ Hello \in Message
  /\ \A kind \in ErrorKind : Error(kind) \in Message
  /\ \A c \in Code : Entered(c) \in Message
  /\ \A i \in Nat : PeerLeft(i) \in Message
  /\ \A i \in Nat, p \in Payload : Signal(i, p) \in Message
  BY DEF Hello, Error, Entered, PeerLeft, Signal, Message

LEMMA ErrorMessages ==
  \A kind \in ErrorKind : <<Error(kind)>> \in Seq(Message)
  BY SimpleMessages, OneMessage

LEMMA RosterForType ==
  ASSUME NEW r \in Room, NEW t
  PROVE  RosterFor(r, t) \in Seq(Message)
<1>1. CASE In(r, t)
  <2>1. Position(r, t) \in Nat /\ r.players \in Seq(Player) /\ r.wireless \in BOOLEAN
    BY <1>1, RoomFields
  <2>2. Roster(r, Position(r, t)) \in Message
    BY <2>1 DEF Roster, Message
  <2> QED
    BY <1>1, <2>2, OneMessage DEF RosterFor
<1>2. CASE ~In(r, t)
  BY <1>2, NoMessages DEF RosterFor
<1> QED
  BY <1>1, <1>2

LEMMA StartingForType ==
  ASSUME NEW r \in Room, NEW t
  PROVE  StartingFor(r, t) \in Seq(Message)
<1>1. CASE In(r, t)
  <2> DEFINE roms == [j \in DOMAIN r.players |-> r.players[j].rom]
  <2>1. Position(r, t) \in Nat
    BY <1>1, RoomFields
  <2>2. roms \in Seq(Rom)
    <3>1. roms \in [1 .. Len(r.players) -> Rom]
      BY RoomFields
    <3> QED
      BY <3>1, RoomFields, FunctionIsSeq
  <2>3. Starting(r, Position(r, t)) \in Message
    BY <2>1, <2>2 DEF Starting, Message
  <2> QED
    BY <1>1, <2>3, OneMessage DEF StartingFor
<1>2. CASE ~In(r, t)
  BY <1>2, NoMessages DEF StartingFor
<1> QED
  BY <1>1, <1>2

LEMMA PeerLeftForType ==
  ASSUME Shape, NEW s \in Socket, NEW t
  PROVE  PeerLeftFor(s, t) \in Seq(Message)
<1>1. <<PeerLeft(sock[s].session.idx)>> \in Seq(Message)
  BY SockFields, SimpleMessages, OneMessage
<1> QED
  BY <1>1, NoMessages DEF PeerLeftFor

LEMMA DepartSent ==
  ASSUME IInv, NEW s \in Socket, NEW link, Depart(s, link)
  PROVE  sent' \in Out
<1> DEFINE c == sock[s].code
           left == Without(room[c], Position(room[c], s))
<1>1. Shape /\ MembershipCoherent
  BY DEF IInv
<1>2. [t \in Socket |-> PeerLeftFor(s, t)] \in Out
  BY <1>1, PeerLeftForType DEF Out
<1>3. ASSUME Placed(s), left.players # <<>>
      PROVE  [t \in Socket |-> PeerLeftFor(s, t) \o RosterFor(left, t)] \in Out
  <2>1. room[c] \in Room /\ Position(room[c], s) \in DOMAIN room[c].players
    BY <1>1, <1>3, StoredRoom, RoomFields DEF Placed
  <2>2. left \in Room
    BY <2>1, WithoutProperties
  <2>3. \A t : PeerLeftFor(s, t) \o RosterFor(left, t) \in Seq(Message)
    BY <1>1, <2>2, PeerLeftForType, RosterForType, TwoParts
  <2> QED
    BY <2>3 DEF Out
<1>4. \/ sent' = Heard([t \in Socket |-> PeerLeftFor(s, t)])
      \/ /\ Placed(s) /\ left.players # <<>>
         /\ sent' = Heard([t \in Socket |-> PeerLeftFor(s, t) \o RosterFor(left, t)])
  BY DEF Depart
<1> HIDE DEF left
<1> QED
  BY <1>2, <1>3, <1>4, HeardType

LEMMA EntrySent ==
  ASSUME IInv, NEW s \in Socket, Entry(s)
  PROVE  sent' \in Out
<1>1. Shape /\ MembershipCoherent
  BY DEF IInv
<1>2. ASSUME NEW c \in Code, NEW rom \in Rom, NEW w \in BOOLEAN, CreateRoom(s, c, rom, w)
      PROVE  sent' \in Out
  <2>1. NewRoom(s, rom, w) \in Room
    BY NewRoomProperties
  <2>2. <<Entered(c)>> \o RosterFor(NewRoom(s, rom, w), s) \in Seq(Message)
    BY <2>1, SimpleMessages, OneMessage, RosterForType, TwoParts
  <2> QED
    BY <1>2, <2>2, ReplyType DEF CreateRoom
<1>3. ASSUME NEW c \in Code, NEW rom \in Rom, JoinRoom(s, c, rom)
      PROVE  sent' \in Out
  <2> DEFINE r == Seated(room[c], s, rom)
             out == [t \in Socket |->
                       (IF t = s THEN <<Entered(c)>> ELSE <<>>) \o RosterFor(r, t)]
  <2>1. room[c] \in Room
    BY <1>1, <1>3, StoredRoom DEF JoinRoom
  <2>2. r \in Room
    BY <2>1, SeatedProperties
  <2>3. sent' = Heard(out)
    BY <1>3 DEF JoinRoom
  <2> HIDE DEF r
  <2>4. ASSUME NEW t \in Socket
        PROVE  (IF t = s THEN <<Entered(c)>> ELSE <<>>) \o RosterFor(r, t) \in Seq(Message)
    <3>1. (IF t = s THEN <<Entered(c)>> ELSE <<>>) \in Seq(Message)
      BY SimpleMessages, OneMessage, NoMessages
    <3> QED
      BY <2>2, <3>1, RosterForType, TwoParts
  <2>5. out \in Out
    BY <2>4 DEF Out
  <2> HIDE DEF out
  <2> QED
    BY <2>3, <2>5, HeardType
<1>4. ASSUME RefuseEntry(s)
      PROVE  sent' \in Out
  <2>1. \A kind \in {"malformed", "versionMismatch", "roomNotFound", "roomFull"} :
          Reply(s, <<Error(kind)>>) \in Out
    BY ErrorMessages, ReplyType DEF ErrorKind
  <2>2. \/ sent' = Reply(s, <<Error("malformed")>>)
        \/ sent' = Reply(s, <<Error("versionMismatch")>>)
        \/ sent' = Reply(s, <<Error("roomNotFound")>>)
        \/ sent' = Reply(s, <<Error("roomFull")>>)
    BY <1>4 DEF RefuseEntry, RefuseReentry, RefuseVersion, RefuseJoin
  <2> QED
    BY <2>1, <2>2
<1> QED
  BY <1>2, <1>3, <1>4 DEF Entry

LEMMA SetReadySent ==
  ASSUME IInv, NEW s \in Socket, NEW b \in BOOLEAN, SetReady(s, b)
  PROVE  sent' \in Out
<1> DEFINE c == sock[s].code
           r == Asserted(room[c], Position(room[c], s), b)
<1>1. room[c] \in Room /\ Position(room[c], s) \in DOMAIN room[c].players
  BY StoredRoom, RoomFields DEF IInv, SetReady, Placed
<1>2. r \in Room
  BY <1>1, AssertedProperties
<1>3. \/ sent' = Heard([t \in Socket |-> RosterFor(r, t) \o StartingFor(r, t)])
      \/ sent' = Heard([t \in Socket |-> RosterFor(r, t)])
  BY DEF SetReady
<1> HIDE DEF r
<1>4. \A t : RosterFor(r, t) \in Seq(Message)
             /\ RosterFor(r, t) \o StartingFor(r, t) \in Seq(Message)
  BY <1>2, RosterForType, StartingForType, TwoParts
<1>5. /\ [t \in Socket |-> RosterFor(r, t) \o StartingFor(r, t)] \in Out
      /\ [t \in Socket |-> RosterFor(r, t)] \in Out
  BY <1>4 DEF Out
<1> QED
  BY <1>3, <1>5, HeardType

LEMMA KickPlayerSent ==
  ASSUME IInv, NEW s \in Socket, NEW seat \in Nat, NEW link, KickPlayer(s, seat, link)
  PROVE  sent' \in Out
<1> DEFINE c      == sock[s].code
           r      == room[c]
           target == CHOOSE i \in DOMAIN r.players : r.players[i].seat = seat
           k      == r.players[target].id
           left   == Without(r, target)
           told(t) == IF ~Speaking(k) THEN <<>>
                      ELSE IF t = k THEN <<Error("kicked")>>
                      ELSE PeerLeftFor(k, t)
           out    == [t \in Socket |-> told(t) \o RosterFor(left, t)]
<1>1. r \in Room /\ target \in DOMAIN r.players
  BY StoredRoom DEF IInv, KickPlayer, Placed
<1>2. left \in Room /\ k \in Socket
  BY <1>1, WithoutProperties, RoomFields
<1>3. sent' = Heard(out)
  BY DEF KickPlayer
<1> HIDE DEF left, k
<1>4. \A t : told(t) \in Seq(Message)
  <2>1. \A t : PeerLeftFor(k, t) \in Seq(Message)
    BY <1>2, PeerLeftForType DEF IInv
  <2>2. <<Error("kicked")>> \in Seq(Message) /\ <<>> \in Seq(Message)
    BY ErrorMessages, NoMessages DEF ErrorKind
  <2> QED
    BY <2>1, <2>2
<1> HIDE DEF told
<1>5. out \in Out
  BY <1>2, <1>4, RosterForType, TwoParts DEF Out
<1> HIDE DEF out
<1> QED
  BY <1>3, <1>5, HeardType

LEMMA MemberSent ==
  ASSUME IInv, NEW s \in Socket, Member(s)
  PROVE  sent' \in Out
<1>1. \A kind \in {"malformed", "notHost", "notEveryoneReady"} :
        Reply(s, <<Error(kind)>>) \in Out
  BY ErrorMessages, ReplyType DEF ErrorKind
<1>2. CASE RefuseStart(s) \/ RefuseSignal(s) \/ \E seat \in Seats : RefuseKick(s, seat)
  <2>1. \/ sent' = Reply(s, <<Error("malformed")>>)
        \/ sent' = Reply(s, <<Error("notHost")>>)
        \/ sent' = Reply(s, <<Error("notEveryoneReady")>>)
    <3>1. CASE RefuseStart(s)
      BY <3>1 DEF RefuseStart
    <3>2. CASE RefuseSignal(s)
      BY <3>2 DEF RefuseSignal
    <3>3. CASE \E seat \in Seats : RefuseKick(s, seat)
      BY <3>3 DEF RefuseKick
    <3> QED
      BY <1>2, <3>1, <3>2, <3>3
  <2> QED
    BY <1>1, <2>1
<1>3. CASE IgnoreMessage(s)
  BY <1>3, NoMessages DEF IgnoreMessage
<1>4. ASSUME NEW to \in 1 .. WirelessSeats, NEW p \in Payload, RelaySignal(s, to, p)
      PROVE  sent' \in Out
  <2>1. <<Signal(sock[s].session.idx, p)>> \in Seq(Message)
    BY SockFields, SimpleMessages, OneMessage DEF IInv
  <2> QED
    BY <1>4, <2>1, ReplyType, NoMessages DEF RelaySignal
<1>5. CASE StartRoom(s)
  <2> DEFINE r == room[sock[s].code]
  <2>1. r \in Room
    BY <1>5, StoredRoom DEF IInv, StartRoom, Placed
  <2>2. [t \in Socket |-> StartingFor(r, t)] \in Out
    BY <2>1, StartingForType DEF Out
  <2> QED
    BY <1>5, <2>2, HeardType DEF StartRoom
<1>6. CASE \E link \in Exits(s) : Leave(s, link)
  BY <1>6, DepartSent DEF Leave
<1>7. CASE \E seat \in Seats, link \in {"closing", "broken"} : KickPlayer(s, seat, link)
  <2>1. Seats \subseteq Nat
    BY SeatsAreNat DEF IInv
  <2> QED
    BY <1>7, <2>1, KickPlayerSent
<1>8. CASE \E b \in BOOLEAN : SetReady(s, b)
  BY <1>8, SetReadySent
<1> QED
  BY <1>2, <1>3, <1>4, <1>5, <1>6, <1>7, <1>8 DEF Member

\* The stored records, the attachments and the messages keep their shapes.
THEOREM TypesHold == Spec => []TypeOK
<1>1. Init => SentOK
  BY NoMessages DEF Init, SentOK
<1>2. IInv /\ SentOK /\ [Next]_vars => SentOK'
  <2> SUFFICES ASSUME IInv, SentOK, [Next]_vars PROVE sent' \in Out
    BY DEF SentOK, Out
  <2>1. CASE UNCHANGED vars
    BY <2>1 DEF vars, SentOK
  <2>2. ASSUME NEW s \in Socket, Environment(s) PROVE sent' \in Out
    <3>1. CASE Connect(s)
      <4>1. <<Hello>> \in Seq(Message)
        BY SimpleMessages, OneMessage
      <4> QED
        BY <3>1, <4>1, NoMessages DEF Connect, Out
    <3>2. CASE CloseEvent(s) \/ \E link \in Exits(s) : ErrorEvent(s, link)
      BY <3>2, DepartSent DEF CloseEvent, ErrorEvent
    <3>3. CASE LoseSocket(s)
      BY <3>3, NoMessages DEF LoseSocket
    <3> QED
      BY <2>2, <3>1, <3>2, <3>3 DEF Environment
  <2>3. ASSUME NEW s \in Socket, Entry(s) \/ Member(s) PROVE sent' \in Out
    BY <2>3, EntrySent, MemberSent
  <2>4. ASSUME NEW c \in Code, Expire(c) PROVE sent' \in Out
    BY <2>4, NoMessages DEF Expire
  <2>5. CASE Sweep
    BY <2>5, NoMessages DEF Sweep
  <2> QED
    BY <2>1, <2>2, <2>3, <2>4, <2>5 DEF Next
<1>3. Spec => []SentOK
  BY <1>1, <1>2, InductiveInvariant, PTL DEF Spec
<1>4. IInv /\ SentOK => TypeOK
  BY DEF IInv, Shape, SentOK, Out, TypeOK
<1> QED
  BY <1>3, <1>4, InductiveInvariant, PTL

=============================================================================
