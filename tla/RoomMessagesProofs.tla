------------------------- MODULE RoomMessagesProofs -------------------------
(***************************************************************************)
(* Proofs about what the signaling server sends: rosters, starts and       *)
(* departures reach whom they concern, for every set of sockets, codes,    *)
(* ROMs and payloads and for any capacity of a room.                       *)
(***************************************************************************)
EXTENDS RoomPromiseProofs

-----------------------------------------------------------------------------
(* The messages of a sequence, as a set *)

LEMMA NoneInNothing == ToSet(<<>>) = {} /\ \A t \in Socket : Nothing[t] = <<>>
  BY DEF ToSet, Nothing

LEMMA OneInOne ==
  ASSUME NEW m
  PROVE  ToSet(<<m>>) = {m}
  BY DEF ToSet

LEMMA BothInConcat ==
  ASSUME NEW a \in Seq(Message), NEW b \in Seq(Message)
  PROVE  ToSet(a \o b) = ToSet(a) \cup ToSet(b)
<1> DEFINE c == a \o b
           n == Len(a)
           l == Len(b)
<1>1. /\ n \in Nat /\ DOMAIN a = 1 .. n /\ l \in Nat /\ DOMAIN b = 1 .. l
      /\ c \in Seq(Message) /\ Len(c) = n + l
      /\ \A i \in 1 .. n + l : c[i] = IF i <= n THEN a[i] ELSE b[i - n]
  BY LenProperties, ConcatProperties
<1>2. DOMAIN c = 1 .. n + l
  BY <1>1, LenProperties
<1> HIDE DEF c, n, l
<1>3. \A i \in DOMAIN c : c[i] \in ToSet(a) \cup ToSet(b)
  <2> TAKE i \in DOMAIN c
  <2>1. CASE i <= n
    <3>1. i \in DOMAIN a /\ c[i] = a[i]
      BY <1>1, <1>2, <2>1
    <3> QED
      BY <3>1 DEF ToSet
  <2>2. CASE ~(i <= n)
    <3>1. i - n \in DOMAIN b /\ c[i] = b[i - n]
      BY <1>1, <1>2, <2>2
    <3> QED
      BY <3>1 DEF ToSet
  <2> QED
    BY <2>1, <2>2
<1>4. \A i \in DOMAIN a : \E j \in DOMAIN c : c[j] = a[i]
  <2> TAKE i \in DOMAIN a
  <2>1. i \in DOMAIN c /\ c[i] = a[i]
    BY <1>1, <1>2
  <2> QED
    BY <2>1
<1>5. \A i \in DOMAIN b : \E j \in DOMAIN c : c[j] = b[i]
  <2> TAKE i \in DOMAIN b
  <2>1. n + i \in DOMAIN c /\ c[n + i] = b[i]
    BY <1>1, <1>2
  <2> QED
    BY <2>1
<1>6. \A m : m \in ToSet(c) <=> m \in ToSet(a) \/ m \in ToSet(b)
  BY <1>3, <1>4, <1>5 DEF ToSet
<1> QED
  BY <1>6 DEF c

\* An open socket hears what is sent to it, a closed one nothing.
LEMMA HeardSet ==
  ASSUME NEW out, NEW t \in Socket
  PROVE  /\ sock[t].link = "open" => Heard(out)[t] = out[t]
         /\ sock[t].link # "open" => ToSet(Heard(out)[t]) = {}
  BY NoneInNothing DEF Heard

LEMMA ReplySet ==
  ASSUME NEW s, NEW m, NEW t \in Socket
  PROVE  ToSet(Reply(s, <<m>>)[t]) \subseteq {m}
<1>1. [Nothing EXCEPT ![s] = <<m>>][t] \in {<<m>>, <<>>}
  BY DEF Nothing
<1>2. Reply(s, <<m>>)[t] \in {<<m>>, <<>>}
  BY <1>1 DEF Reply, Heard
<1> QED
  BY <1>2, OneInOne, NoneInNothing

LEMMA RosterForSet ==
  ASSUME NEW r, NEW t
  PROVE  ToSet(RosterFor(r, t)) =
           IF In(r, t) THEN {Roster(r, Position(r, t))} ELSE {}
  BY OneInOne, NoneInNothing DEF RosterFor

LEMMA StartingForSet ==
  ASSUME NEW r, NEW t
  PROVE  ToSet(StartingFor(r, t)) =
           IF In(r, t) THEN {Starting(r, Position(r, t))} ELSE {}
  BY OneInOne, NoneInNothing DEF StartingFor

LEMMA PeerLeftForSet ==
  ASSUME NEW s, NEW t
  PROVE  ToSet(PeerLeftFor(s, t)) =
           IF t # s /\ t \in ToSet(sock[s].session.peers)
           THEN {PeerLeft(sock[s].session.idx)} ELSE {}
<1>1. (\E i \in DOMAIN sock[s].session.peers : sock[s].session.peers[i] = t)
      <=> t \in ToSet(sock[s].session.peers)
  BY DEF ToSet
<1> QED
  BY <1>1, OneInOne, NoneInNothing DEF PeerLeftFor

LEMMA MessageTypes ==
  /\ \A r, i : Roster(r, i).type = "roster"
  /\ \A r, i : Starting(r, i).type = "starting"
  /\ \A i : PeerLeft(i).type = "peerLeft" /\ PeerLeft(i).idx = i
  /\ \A i, p : Signal(i, p).type = "signal"
  /\ \A k : Error(k).type = "error"
  /\ \A c : Entered(c).type = "entered"
  /\ Hello.type = "hello"
  BY DEF Roster, Starting, PeerLeft, Signal, Error, Entered, Hello

-----------------------------------------------------------------------------
(* Starts *)

NoStarts == \A t \in Socket : \A m \in ToSet(sent'[t]) : m.type # "starting"

\* Room c, whose roster is now r's, is linked up: every connected member, and
\* nobody else, is sent the start of r.
LinksUp(c, r) ==
  /\ WellListed(r) /\ Unanimous(r)
  /\ r.wireless => room[c].lastMerge # Ids(r)
  /\ \A t : In(r, t) <=> In(room[c], t)
  /\ room' = Put(c, Merged(r)) /\ sock' = Stamped(c, r)
  /\ \A t \in Socket : sock[t].link = "open" /\ In(r, t) =>
       Starting(r, Position(r, t)) \in ToSet(sent'[t])
  /\ \A t \in Socket : \A m \in ToSet(sent'[t]) : m.type = "starting" =>
       sock[t].link = "open" /\ In(r, t) /\ m = Starting(r, Position(r, t))

\* What a wave of rosters and starts sends to one socket.
LEMMA WaveSet ==
  ASSUME NEW r \in Room, NEW t \in Socket
  PROVE  ToSet(RosterFor(r, t) \o StartingFor(r, t)) =
           ToSet(RosterFor(r, t)) \cup ToSet(StartingFor(r, t))
  BY RosterForType, StartingForType, BothInConcat

\* A bit that is set, not withdrawn, leaves the last merge as it stands.
LEMMA AssertedBit ==
  ASSUME NEW r \in Room, NEW k \in DOMAIN r.players, NEW b \in BOOLEAN
  PROVE  /\ Asserted(r, k, b).players[k].ready = b
         /\ b = TRUE => Asserted(r, k, b).lastMerge = r.lastMerge
<1> DEFINE w == Asserted(r, k, b)
           p == [r.players[k] EXCEPT !.ready = b]
<1>1. /\ w \in Room /\ DOMAIN w.players = DOMAIN r.players
      /\ \A i \in DOMAIN r.players :
           w.players[i] = IF i = k THEN [r.players[i] EXCEPT !.ready = b] ELSE r.players[i]
  BY AssertedProperties
<1>2. p.ready = b
  BY RoomFields, PlayerReadiness
<1>3. b = TRUE => w.lastMerge = r.lastMerge
  BY DEF Asserted, Room
<1> HIDE DEF w
<1>4. w.players[k] = p
  BY <1>1
<1> HIDE DEF p
<1> QED
  BY <1>2, <1>3, <1>4 DEF w

LEMMA ConvergedLinksUp ==
  ASSUME IInv, NEW s \in Socket, NEW b \in BOOLEAN, SetReady(s, b)
  PROVE  NoStarts \/ \E c \in DOMAIN room, r \in Room : LinksUp(c, r)
<1> DEFINE c == sock[s].code
           k == Position(room[c], s)
           r == Asserted(room[c], k, b)
           wave == [t \in Socket |-> RosterFor(r, t) \o StartingFor(r, t)]
           news == [t \in Socket |-> RosterFor(r, t)]
<1>1. /\ c \in DOMAIN room /\ room[c] \in Room /\ WellListed(room[c])
      /\ k \in DOMAIN room[c].players
  BY StoredRoom, RoomFields DEF IInv, SetReady, Placed
<1>2. \/ Converged(r) /\ room' = Put(c, Merged(r)) /\ sock' = Stamped(c, r)
                      /\ sent' = Heard(wave)
      \/ ~Converged(r) /\ sent' = Heard(news)
  BY DEF SetReady
<1> HIDE DEF c, k
<1>3. /\ r \in Room /\ WellListed(r) /\ \A t : In(r, t) <=> In(room[c], t)
      /\ DOMAIN r.players = DOMAIN room[c].players
  BY <1>1, AssertedProperties, AssertedListed
<1>4. /\ r.players[k].ready = b
      /\ b = TRUE => r.lastMerge = room[c].lastMerge
  BY <1>1, AssertedBit
<1> HIDE DEF r
<1>5. CASE Converged(r)
  <2>1. Unanimous(r) /\ r.lastMerge # Ids(r)
    BY <1>5 DEF Converged
  <2>2. b = TRUE
    BY <1>1, <1>3, <1>4, <2>1 DEF Unanimous, AllReady
  <2>3. \A t \in Socket : sock[t].link = "open" => sent'[t] = wave[t]
    BY <1>2, <1>5, HeardSet
  <2>4. \A t \in Socket : sock[t].link # "open" => ToSet(sent'[t]) = {}
    BY <1>2, <1>5, HeardSet
  <2>5. \A t \in Socket : ToSet(wave[t]) =
          IF In(r, t) THEN {Roster(r, Position(r, t)), Starting(r, Position(r, t))} ELSE {}
    BY <1>3, WaveSet, RosterForSet, StartingForSet
  <2> HIDE DEF wave
  <2>6. \A t \in Socket : sock[t].link = "open" /\ In(r, t) =>
          Starting(r, Position(r, t)) \in ToSet(sent'[t])
    BY <2>3, <2>5
  <2>7. ASSUME NEW t \in Socket, NEW m \in ToSet(sent'[t]), m.type = "starting"
        PROVE  sock[t].link = "open" /\ In(r, t) /\ m = Starting(r, Position(r, t))
    <3>1. sock[t].link = "open" /\ m \in ToSet(wave[t])
      BY <2>3, <2>4, <2>7
    <3>2. In(r, t) /\ m \in {Roster(r, Position(r, t)), Starting(r, Position(r, t))}
      BY <2>5, <3>1
    <3>3. Roster(r, Position(r, t)).type = "roster"
      BY MessageTypes
    <3> QED
      BY <2>7, <3>1, <3>2, <3>3
  <2>8. r.wireless => room[c].lastMerge # Ids(r)
    BY <1>4, <2>1, <2>2
  <2>9. LinksUp(c, r)
    BY <1>2, <1>3, <1>5, <2>1, <2>6, <2>7, <2>8 DEF LinksUp
  <2> QED
    BY <1>1, <1>3, <2>9
<1>6. CASE ~Converged(r)
  <2>1. \A t \in Socket : ToSet(news[t]) \subseteq {Roster(r, Position(r, t))}
    BY RosterForSet
  <2>2. sent' = Heard(news)
    BY <1>2, <1>6
  <2> HIDE DEF news
  <2>3. \A t \in Socket : ToSet(sent'[t]) \subseteq {Roster(r, Position(r, t))}
    BY <2>1, <2>2, HeardSet
  <2> QED
    BY <2>3, MessageTypes DEF NoStarts
<1> QED
  BY <1>5, <1>6

LEMMA StartLinksUp ==
  ASSUME IInv, NEW s \in Socket, StartRoom(s)
  PROVE  \E c \in DOMAIN room, r \in Room : LinksUp(c, r)
<1> DEFINE c == sock[s].code
           r == room[c]
           wave == [t \in Socket |-> StartingFor(r, t)]
<1>1. /\ c \in DOMAIN room /\ r \in Room /\ WellListed(r)
      /\ ~r.wireless /\ Unanimous(r)
      /\ room' = Put(c, Merged(r)) /\ sock' = Stamped(c, r)
      /\ sent' = Heard(wave)
  BY StoredRoom DEF IInv, StartRoom, Placed
<1>2. \A t \in Socket : ToSet(wave[t]) =
        IF In(r, t) THEN {Starting(r, Position(r, t))} ELSE {}
  BY StartingForSet
<1> HIDE DEF wave
<1>3. \A t \in Socket : ToSet(sent'[t]) =
        IF sock[t].link = "open" /\ In(r, t) THEN {Starting(r, Position(r, t))} ELSE {}
  BY <1>1, <1>2, HeardSet
<1> HIDE DEF c
<1>4. LinksUp(c, r)
  BY <1>1, <1>3 DEF LinksUp
<1> QED
  BY <1>1, <1>4

\* The kinds of message a step sends.
Says(kinds) == \A t \in Socket : \A m \in ToSet(sent'[t]) : m.type \in kinds

PlainKinds == {"hello", "entered", "roster", "error", "signal"}

\* The steps in which nobody leaves a room and none is linked up.
PlainStep(s) ==
  \/ Connect(s) \/ LoseSocket(s) \/ Entry(s)
  \/ RefuseStart(s) \/ RefuseSignal(s) \/ IgnoreMessage(s)
  \/ \E to \in 1 .. WirelessSeats, p \in Payload : RelaySignal(s, to, p)
  \/ \E seat \in Seats : RefuseKick(s, seat)

LEMMA PlainSays ==
  ASSUME IInv, NEW s \in Socket, PlainStep(s)
  PROVE  Says(PlainKinds)
<1>1. ASSUME NEW u, NEW kind, sent' = Reply(u, <<Error(kind)>>)
      PROVE  Says(PlainKinds)
  <2>1. \A t \in Socket : ToSet(sent'[t]) \subseteq {Error(kind)}
    BY <1>1, ReplySet
  <2> QED
    BY <2>1, MessageTypes DEF Says, PlainKinds
<1>2. ASSUME sent' = Nothing
      PROVE  Says(PlainKinds)
  BY <1>2, NoneInNothing DEF Says, PlainKinds
<1>3. ASSUME Connect(s)
      PROVE  Says(PlainKinds)
  <2>1. \A t \in Socket : sent'[t] \in {<<Hello>>, <<>>}
    BY <1>3 DEF Connect, Nothing
  <2>2. \A t \in Socket : ToSet(sent'[t]) \subseteq {Hello}
    BY <2>1, OneInOne, NoneInNothing
  <2> QED
    BY <2>2, MessageTypes DEF Says, PlainKinds
<1>4. ASSUME NEW c \in Code, NEW rom \in Rom, NEW w \in BOOLEAN,
             CreateRoom(s, c, rom, w)
      PROVE  Says(PlainKinds)
  <2> DEFINE r    == NewRoom(s, rom, w)
             msgs == <<Entered(c)>> \o RosterFor(r, s)
  <2>1. sent' = Reply(s, msgs)
    BY <1>4 DEF CreateRoom
  <2>2. ToSet(msgs) \subseteq {Entered(c), Roster(r, Position(r, s))}
    <3>1. r \in Room /\ <<Entered(c)>> \in Seq(Message)
      BY NewRoomProperties, SimpleMessages, OneMessage
    <3> HIDE DEF r
    <3>2. ToSet(msgs) = ToSet(<<Entered(c)>>) \cup ToSet(RosterFor(r, s))
      BY <3>1, RosterForType, BothInConcat
    <3> QED
      BY <3>2, OneInOne, RosterForSet
  <2> HIDE DEF r, msgs
  <2>3. ASSUME NEW t \in Socket
        PROVE  ToSet(sent'[t]) \subseteq ToSet(msgs)
    <3>1. sent'[t] \in {msgs, <<>>}
      BY <2>1 DEF Reply, Heard, Nothing
    <3> QED
      BY <3>1, NoneInNothing
  <2> QED
    BY <2>2, <2>3, MessageTypes DEF Says, PlainKinds
<1>5. ASSUME NEW c \in Code, NEW rom \in Rom, JoinRoom(s, c, rom)
      PROVE  Says(PlainKinds)
  <2> DEFINE r   == Seated(room[c], s, rom)
             hi(t) == IF t = s THEN <<Entered(c)>> ELSE <<>>
             out == [t \in Socket |-> hi(t) \o RosterFor(r, t)]
  <2>1. r \in Room /\ sent' = Heard(out)
    BY <1>5, StoredRoom, SeatedProperties DEF JoinRoom, IInv
  <2>2. \A t \in Socket : hi(t) \in Seq(Message) /\ ToSet(hi(t)) \subseteq {Entered(c)}
    BY SimpleMessages, OneMessage, NoMessages, OneInOne, NoneInNothing
  <2> HIDE DEF r, hi
  <2>3. \A t \in Socket : ToSet(out[t]) \subseteq {Entered(c), Roster(r, Position(r, t))}
    <3>1. \A t \in Socket : ToSet(out[t]) = ToSet(hi(t)) \cup ToSet(RosterFor(r, t))
      BY <2>1, <2>2, RosterForType, BothInConcat
    <3> QED
      BY <2>2, <3>1, RosterForSet
  <2> HIDE DEF out
  <2>4. \A t \in Socket : ToSet(sent'[t]) \subseteq {Entered(c), Roster(r, Position(r, t))}
    BY <2>1, <2>3, HeardSet
  <2> QED
    BY <2>4, MessageTypes DEF Says, PlainKinds
<1>6. ASSUME NEW to \in 1 .. WirelessSeats, NEW p \in Payload,
             RelaySignal(s, to, p)
      PROVE  Says(PlainKinds)
  <2> DEFINE me == sock[s].session
  <2>1. sent' = Nothing \/ sent' = Reply(me.peers[to], <<Signal(me.idx, p)>>)
    BY <1>6 DEF RelaySignal
  <2> HIDE DEF me
  <2>2. ASSUME sent' = Reply(me.peers[to], <<Signal(me.idx, p)>>)
        PROVE  Says(PlainKinds)
    <3>1. \A t \in Socket : ToSet(sent'[t]) \subseteq {Signal(me.idx, p)}
      BY <2>2, ReplySet
    <3> QED
      BY <3>1, MessageTypes DEF Says, PlainKinds
  <2> QED
    BY <1>2, <2>1, <2>2
<1>7. CASE RefuseEntry(s)
  BY <1>1, <1>7 DEF RefuseEntry, RefuseReentry, RefuseVersion, RefuseJoin
<1>8. CASE RefuseStart(s) \/ RefuseSignal(s) \/ \E seat \in Seats : RefuseKick(s, seat)
  BY <1>1, <1>8 DEF RefuseStart, RefuseSignal, RefuseKick
<1>9. CASE LoseSocket(s) \/ IgnoreMessage(s)
  BY <1>2, <1>9 DEF LoseSocket, IgnoreMessage
<1> QED
  BY <1>3, <1>4, <1>5, <1>6, <1>7, <1>8, <1>9 DEF PlainStep, Entry

\* Every step either starts nothing or links one room up.
LEMMA StartingSteps ==
  ASSUME IInv, Next
  PROVE  NoStarts \/ \E c \in DOMAIN room, r \in Room : LinksUp(c, r)
<1>1. ASSUME NEW s \in Socket, PlainStep(s)
      PROVE  NoStarts
  BY <1>1, PlainSays DEF Says, PlainKinds, NoStarts
<1>2. ASSUME sent' = Nothing
      PROVE  NoStarts
  BY <1>2, NoneInNothing DEF NoStarts
<1>3. ASSUME NEW s \in Socket, NEW link, Depart(s, link)
      PROVE  NoStarts
  <2> DEFINE c    == sock[s].code
             left == Without(room[c], Position(room[c], s))
             out  == [t \in Socket |-> PeerLeftFor(s, t)]
             both == [t \in Socket |-> PeerLeftFor(s, t) \o RosterFor(left, t)]
  <2>1. \/ sent' = Heard(out)
        \/ /\ Placed(s) /\ left.players # <<>>
           /\ sent' = Heard(both)
    BY <1>3 DEF Depart
  <2>2. \A t \in Socket : ToSet(out[t]) \subseteq {PeerLeft(sock[s].session.idx)}
    BY PeerLeftForSet
  <2>3. ASSUME Placed(s)
        PROVE  \A t \in Socket : ToSet(both[t]) \subseteq
                 {PeerLeft(sock[s].session.idx), Roster(left, Position(left, t))}
    <3>1. left \in Room
      BY <2>3, StoredRoom, RoomFields, WithoutProperties DEF IInv, Placed
    <3> HIDE DEF left
    <3>2. \A t \in Socket : ToSet(both[t]) =
            ToSet(PeerLeftFor(s, t)) \cup ToSet(RosterFor(left, t))
      BY <3>1, PeerLeftForType, RosterForType, BothInConcat DEF IInv
    <3> QED
      BY <3>2, PeerLeftForSet, RosterForSet
  <2> HIDE DEF left, out, both
  <2>4. ASSUME NEW t \in Socket
        PROVE  ToSet(sent'[t]) \subseteq
                 {PeerLeft(sock[s].session.idx), Roster(left, Position(left, t))}
    <3>1. CASE sent' = Heard(out)
      BY <2>2, <3>1, HeardSet
    <3>2. CASE Placed(s) /\ sent' = Heard(both)
      <4>1. ToSet(both[t]) \subseteq
              {PeerLeft(sock[s].session.idx), Roster(left, Position(left, t))}
        BY <2>3, <3>2
      <4> QED
        BY <3>2, <4>1, HeardSet
    <3> QED
      BY <2>1, <3>1, <3>2
  <2> QED
    BY <2>4, MessageTypes DEF NoStarts
<1>4. ASSUME NEW s \in Socket, NEW seat \in Seats, NEW link, KickPlayer(s, seat, link)
      PROVE  NoStarts
  <2> DEFINE r      == room[sock[s].code]
             target == CHOOSE i \in DOMAIN r.players : r.players[i].seat = seat
             k      == r.players[target].id
             left   == Without(r, target)
             told(t) == IF ~Speaking(k) THEN <<>>
                        ELSE IF t = k THEN <<Error("kicked")>>
                        ELSE PeerLeftFor(k, t)
             out    == [t \in Socket |-> told(t) \o RosterFor(left, t)]
  <2>1. r \in Room /\ target \in DOMAIN r.players
    BY <1>4, StoredRoom DEF IInv, KickPlayer, Placed
  <2>2. left \in Room /\ k \in Socket
    BY <2>1, WithoutProperties, RoomFields
  <2>3. sent' = Heard(out)
    BY <1>4 DEF KickPlayer
  <2> HIDE DEF left, k
  <2>4. \A t \in Socket : told(t) \in {<<>>, <<Error("kicked")>>, PeerLeftFor(k, t)}
    OBVIOUS
  <2> HIDE DEF told
  <2>5. ASSUME NEW t \in Socket
        PROVE  /\ told(t) \in Seq(Message)
               /\ ToSet(told(t)) \subseteq
                    {Error("kicked"), PeerLeft(sock[k].session.idx)}
    <3>1. <<Error("kicked")>> \in Seq(Message) /\ <<>> \in Seq(Message)
      BY ErrorMessages, NoMessages DEF ErrorKind
    <3>2. PeerLeftFor(k, t) \in Seq(Message)
      BY <2>2, PeerLeftForType DEF IInv
    <3>3. /\ ToSet(<<Error("kicked")>>) = {Error("kicked")} /\ ToSet(<<>>) = {}
          /\ ToSet(PeerLeftFor(k, t)) \subseteq {PeerLeft(sock[k].session.idx)}
      BY <2>2, PeerLeftForSet, OneInOne, NoneInNothing
    <3>4. CASE told(t) = <<>>
      BY <3>1, <3>3, <3>4
    <3>5. CASE told(t) = <<Error("kicked")>>
      BY <3>1, <3>3, <3>5
    <3>6. CASE told(t) = PeerLeftFor(k, t)
      BY <3>2, <3>3, <3>6
    <3> QED
      BY <2>4, <3>4, <3>5, <3>6
  <2>6. \A t \in Socket : ToSet(out[t]) \subseteq
          {Error("kicked"), PeerLeft(sock[k].session.idx), Roster(left, Position(left, t))}
    <3>1. \A t \in Socket : ToSet(out[t]) = ToSet(told(t)) \cup ToSet(RosterFor(left, t))
      BY <2>2, <2>5, RosterForType, BothInConcat
    <3> QED
      BY <2>5, <3>1, RosterForSet
  <2> HIDE DEF out
  <2>7. \A t \in Socket : ToSet(sent'[t]) \subseteq
          {Error("kicked"), PeerLeft(sock[k].session.idx), Roster(left, Position(left, t))}
    BY <2>3, <2>6, HeardSet
  <2> QED
    BY <2>7, MessageTypes DEF NoStarts
<1>5. ASSUME NEW s \in Socket, Environment(s) \/ Entry(s)
      PROVE  NoStarts
  BY <1>1, <1>3, <1>5 DEF Environment, CloseEvent, ErrorEvent, PlainStep
<1>6. ASSUME NEW s \in Socket, Member(s)
      PROVE  NoStarts \/ \E c \in DOMAIN room, r \in Room : LinksUp(c, r)
  BY <1>1, <1>3, <1>4, <1>6, ConvergedLinksUp, StartLinksUp DEF Member, Leave, PlainStep
<1>7. ASSUME Sweep \/ \E c \in Code : Expire(c)
      PROVE  NoStarts
  BY <1>2, <1>7 DEF Sweep, Expire
<1> QED
  BY <1>5, <1>6, <1>7 DEF Next

-----------------------------------------------------------------------------
(* What a start says *)

\* Who is sent a start is a connected member with the stamp of its merge.
LEMMA StartedIsStamped ==
  ASSUME NEW c, NEW r \in Room, LinksUp(c, r), NEW t \in Socket,
         sock[t].link = "open", In(r, t)
  PROVE  /\ sock'[t].code = c /\ sock'[t].session.idx = Position(r, t)
         /\ sock'[t].session.peers = Ids(r)
<1>1. sock'[t] = [link |-> sock[t].link, code |-> c,
                  session |-> [idx |-> Position(r, t), peers |-> Ids(r)]]
  BY DEF LinksUp, Stamped, Speaking
<1> QED
  BY <1>1

LEMMA LinkedRoom ==
  ASSUME NEW c, NEW r \in Room, LinksUp(c, r)
  PROVE  /\ room'[c].players = r.players /\ room'[c].wireless = r.wireless
         /\ Unanimous(room'[c]) /\ Ids(room'[c]) = Ids(r)
<1>1. room'[c] = Merged(r)
  BY PutFacts DEF LinksUp
<1>2. room'[c].players = r.players /\ room'[c].wireless = r.wireless
  BY <1>1, MergedProperties
<1> QED
  BY <1>2 DEF LinksUp, Unanimous, AllReady, Ids

\* A Starting goes out by the consent of all, and a wireless room is not sent
\* through a merge that stands already.
THEOREM MergesHavePoint == Spec => NoPointlessMerge
<1> DEFINE Pointed ==
      \A t \in Socket : \A m \in ToSet(sent'[t]) :
        m.type = "starting" =>
          LET c == sock'[t].code IN
          /\ Unanimous(room'[c])
          /\ room'[c].wireless => room[c].lastMerge # Ids(room'[c])
<1>1. IInv /\ [Next]_vars => [Pointed]_vars
  <2> SUFFICES ASSUME IInv, Next, NEW t \in Socket, NEW m \in ToSet(sent'[t]),
                      m.type = "starting", NEW c, c = sock'[t].code
               PROVE  /\ Unanimous(room'[c])
                      /\ room'[c].wireless => room[c].lastMerge # Ids(room'[c])
    OBVIOUS
  <2>1. PICK d \in DOMAIN room, r \in Room : LinksUp(d, r)
    BY StartingSteps DEF NoStarts
  <2>2. c = d
    BY <2>1, StartedIsStamped DEF LinksUp
  <2> QED
    BY <2>1, <2>2, LinkedRoom DEF LinksUp
<1>2. Spec => [][Pointed]_vars
  BY <1>1, InductiveInvariant, PTL DEF Spec
<1> QED
  BY <1>2 DEF NoPointlessMerge

\* A Starting announces the routing in force when it is sent, member by
\* member, and every connected peer of it hears the same start.
THEOREM StartsMatch == Spec => StartingMatchesRouting
<1> DEFINE Matched(t, m) ==
             LET peers == sock'[t].session.peers
                 ps    == room'[sock'[t].code].players IN
             /\ m.idx = sock'[t].session.idx
             /\ Len(m.roms) = Len(peers)
             /\ \A i \in DOMAIN peers :
                  /\ peers[i] = ps[i].id /\ m.roms[i] = ps[i].rom
                  /\ sock'[peers[i]].link = "open" =>
                       \E n \in ToSet(sent'[peers[i]]) :
                         n.type = "starting" /\ n.roms = m.roms /\ n.idx = i
           Matching ==
             \A t \in Socket : \A m \in ToSet(sent'[t]) :
               m.type = "starting" => Matched(t, m)
<1>1. IInv /\ [Next]_vars => [Matching]_vars
  <2> HIDE DEF Matched
  <2> SUFFICES ASSUME IInv, Next, NEW t \in Socket, NEW m \in ToSet(sent'[t]),
                      m.type = "starting"
               PROVE  Matched(t, m)
    OBVIOUS
  <2> SUFFICES ASSUME NEW peers, peers = sock'[t].session.peers,
                      NEW ps, ps = room'[sock'[t].code].players
               PROVE  /\ m.idx = sock'[t].session.idx
                      /\ Len(m.roms) = Len(peers)
                      /\ \A i \in DOMAIN peers :
                           /\ peers[i] = ps[i].id /\ m.roms[i] = ps[i].rom
                           /\ sock'[peers[i]].link = "open" =>
                                \E n \in ToSet(sent'[peers[i]]) :
                                  n.type = "starting" /\ n.roms = m.roms /\ n.idx = i
    BY DEF Matched
  <2>1. PICK c \in DOMAIN room, r \in Room : LinksUp(c, r)
    BY StartingSteps DEF NoStarts
  <2>2. sock[t].link = "open" /\ In(r, t) /\ m = Starting(r, Position(r, t))
    BY <2>1 DEF LinksUp
  <2>3. /\ sock'[t].code = c /\ sock'[t].session.idx = Position(r, t)
        /\ peers = Ids(r)
    BY <2>1, <2>2, StartedIsStamped
  <2>4. ps = r.players
    BY <2>1, <2>3, LinkedRoom
  <2>5. \A i : /\ Starting(r, i).type = "starting" /\ Starting(r, i).idx = i
               /\ Starting(r, i).roms = [j \in DOMAIN r.players |-> r.players[j].rom]
    BY DEF Starting
  <2>6. /\ DOMAIN peers = DOMAIN r.players /\ peers \in Seq(Socket)
        /\ \A i \in DOMAIN r.players : peers[i] = r.players[i].id
    BY <2>3, IdsOfRoom
  <2>7. m.roms = [j \in DOMAIN r.players |-> r.players[j].rom]
    BY <2>2 DEF Starting
  <2>8. Len(m.roms) = Len(peers)
    <3>1. m.roms \in [1 .. Len(r.players) -> Rom] /\ Len(r.players) \in Nat
      BY <2>7, RoomFields
    <3>2. Len(m.roms) = Len(r.players)
      BY <3>1, FunctionIsSeq
    <3>3. Len(peers) = Len(r.players)
      BY <2>6, <3>1, RoomFields, LenProperties
    <3> QED
      BY <3>2, <3>3
  <2>9. ASSUME NEW i \in DOMAIN peers, sock'[peers[i]].link = "open"
        PROVE  \E n \in ToSet(sent'[peers[i]]) :
                 n.type = "starting" /\ n.roms = m.roms /\ n.idx = i
    <3> DEFINE u == r.players[i].id
    <3>1. /\ peers[i] = u /\ u \in Socket /\ In(r, u) /\ i \in DOMAIN r.players
          /\ Position(r, u) = i
      BY <2>1, <2>6, RoomFields, PositionIsUnique DEF In, LinksUp
    <3> HIDE DEF u
    <3>2. sock[u].link = "open"
      <4>1. sock'[u] = sock[u] \/ sock'[u].link = sock[u].link
        BY <2>1, <3>1 DEF LinksUp, Stamped
      <4> QED
        BY <2>9, <3>1, <4>1
    <3>3. Starting(r, i) \in ToSet(sent'[u])
      BY <2>1, <3>1, <3>2 DEF LinksUp
    <3> QED
      BY <2>2, <2>5, <3>1, <3>3
  <2>10. \A i \in DOMAIN peers : peers[i] = ps[i].id /\ m.roms[i] = ps[i].rom
    BY <2>4, <2>6, <2>7
  <2>11. m.idx = sock'[t].session.idx
    BY <2>2, <2>3, <2>5
  <2> QED
    BY <2>8, <2>9, <2>10, <2>11
<1>2. Spec => [][Matching]_vars
  BY <1>1, InductiveInvariant, PTL DEF Spec
<1> QED
  BY <1>2 DEF StartingMatchesRouting

-----------------------------------------------------------------------------
(* Rosters *)

AnnouncedNow ==
  \A c \in DOMAIN room' :
    (c \notin DOMAIN room \/ room'[c].players # room[c].players) =>
      \A i \in DOMAIN room'[c].players :
        LET t == room'[c].players[i].id IN
        sock'[t].link = "open" => Rosters(sent'[t]) = {Roster(room'[c], i)}

\* A roster is the only one in what it is sent with.
LEMMA OneRoster ==
  ASSUME NEW a \in Seq(Message), \A m \in ToSet(a) : m.type # "roster",
         NEW r \in Room, NEW t, In(r, t)
  PROVE  /\ Rosters(a \o RosterFor(r, t)) = {Roster(r, Position(r, t))}
         /\ Rosters(RosterFor(r, t) \o a) = {Roster(r, Position(r, t))}
         /\ Rosters(RosterFor(r, t)) = {Roster(r, Position(r, t))}
<1> DEFINE b == RosterFor(r, t)
           m == Roster(r, Position(r, t))
<1>1. b \in Seq(Message) /\ ToSet(b) = {m} /\ m.type = "roster"
  BY RosterForType, RosterForSet, MessageTypes
<1> HIDE DEF b, m
<1>2. ToSet(a \o b) = ToSet(a) \cup {m} /\ ToSet(b \o a) = ToSet(a) \cup {m}
  BY <1>1, BothInConcat
<1>3. Rosters(a \o b) = {m} /\ Rosters(b \o a) = {m} /\ Rosters(b) = {m}
  BY <1>1, <1>2 DEF Rosters
<1> QED
  BY <1>3 DEF b, m

\* A connected member after a step was connected before it.
LEMMA OpenMembers ==
  ASSUME IInv, [Next]_vars, NEW c \in DOMAIN room', NEW t \in Socket,
         In(room'[c], t), sock'[t].link = "open"
  PROVE  sock[t].link = "open"
<1>1. IInv'
  BY StepIInv
<1>2. sock'[t].code = c /\ c \in Code /\ c # NoCode
  BY <1>1, NoCodeAssumption DEF IInv, Shape, MembershipCoherent
<1>3. CASE Steady
  BY <1>2, <1>3 DEF Steady
<1>4. ASSUME NEW d, NEW r, sock' = Stamped(d, r)
      PROVE  sock[t].link = "open"
  <2>1. sock'[t] = sock[t] \/ sock'[t].link = sock[t].link
    BY <1>4 DEF Stamped
  <2> QED
    BY <2>1
<1>5. Steady \/ Converging \/ LinkingUp
  BY RecordSteps DEF RecordStep
<1> QED
  BY <1>3, <1>4, <1>5 DEF Converging, LinkingUp

\* Writing one record and sending its roster to its members.
LEMMA WrittenIsAnnounced ==
  ASSUME IInv, [Next]_vars, NEW c, NEW r, NEW q \in Room, room' = Put(c, q),
         q.players = r.players, q.wireless = r.wireless,
         \A t \in Socket : sock[t].link = "open" /\ sock'[t].link = "open" /\ In(r, t) =>
           Rosters(sent'[t]) = {Roster(r, Position(r, t))}
  PROVE  AnnouncedNow
<1> SUFFICES ASSUME NEW d \in DOMAIN room',
                    d \notin DOMAIN room \/ room'[d].players # room[d].players,
                    NEW i \in DOMAIN room'[d].players,
                    sock'[room'[d].players[i].id].link = "open"
             PROVE  Rosters(sent'[room'[d].players[i].id]) = {Roster(room'[d], i)}
  BY DEF AnnouncedNow
<1> DEFINE t == room'[d].players[i].id
<1>0. sock'[t].link = "open"
  OBVIOUS
<1>1. d = c /\ room'[d] = q
  <2>1. /\ DOMAIN room' = DOMAIN room \cup {c} /\ room'[c] = q
        /\ \A e \in DOMAIN room : e # c => room'[e] = room[e]
    BY PutFacts
  <2> QED
    BY <2>1
<1>2. WellListed(q)
  BY <1>1, StepIInv DEF IInv, MembershipCoherent
<1>3. t \in Socket /\ In(q, t) /\ Position(q, t) = i
  BY <1>1, <1>2, RoomFields, PositionIsUnique DEF In
<1> HIDE DEF t
<1>4. In(r, t) /\ Position(r, t) = i
  BY <1>3 DEF In, Position
<1>5. sock[t].link = "open"
  BY <1>0, <1>1, <1>3, OpenMembers
<1>6. Rosters(sent'[t]) = {Roster(r, i)}
  BY <1>0, <1>3, <1>4, <1>5
<1>7. Roster(q, i) = Roster(r, i)
  BY DEF Roster
<1> QED
  BY <1>1, <1>6, <1>7 DEF t

LEMMA CreateAnnounces ==
  ASSUME IInv, [Next]_vars, NEW s \in Socket, NEW c \in Code, NEW rom \in Rom,
         NEW w \in BOOLEAN, CreateRoom(s, c, rom, w)
  PROVE  AnnouncedNow
<1> DEFINE r    == NewRoom(s, rom, w)
           msgs == <<Entered(c)>> \o RosterFor(r, s)
<1>1. r \in Room /\ \A t : In(r, t) <=> t = s
  BY NewRoomProperties, NewRoomListed
<1>2. room' = Put(c, r) /\ sent' = Reply(s, msgs)
  BY DEF CreateRoom
<1>3. <<Entered(c)>> \in Seq(Message) /\ \A m \in ToSet(<<Entered(c)>>) : m.type # "roster"
  BY SimpleMessages, OneMessage, OneInOne, MessageTypes
<1> HIDE DEF r
<1>4. Rosters(msgs) = {Roster(r, Position(r, s))}
  BY <1>1, <1>3, OneRoster
<1> HIDE DEF msgs
<1>5. sock[s].link = "open" => sent'[s] = msgs
  BY <1>2 DEF Reply, Heard, Nothing
<1> QED
  BY <1>1, <1>2, <1>4, <1>5, WrittenIsAnnounced

LEMMA JoinAnnounces ==
  ASSUME IInv, [Next]_vars, NEW s \in Socket, NEW c \in Code, NEW rom \in Rom,
         JoinRoom(s, c, rom)
  PROVE  AnnouncedNow
<1> DEFINE r     == Seated(room[c], s, rom)
           hi(t) == IF t = s THEN <<Entered(c)>> ELSE <<>>
           out   == [t \in Socket |-> hi(t) \o RosterFor(r, t)]
<1>1. r \in Room /\ room' = Put(c, r) /\ sent' = Heard(out)
  BY StoredRoom, SeatedProperties DEF JoinRoom, IInv
<1>2. \A t \in Socket : hi(t) \in Seq(Message) /\ ToSet(hi(t)) \subseteq {Entered(c)}
  BY SimpleMessages, OneMessage, NoMessages, OneInOne, NoneInNothing
<1> HIDE DEF r, hi
<1>3. ASSUME NEW t \in Socket, In(r, t)
      PROVE  Rosters(out[t]) = {Roster(r, Position(r, t))}
  <2>1. hi(t) \in Seq(Message) /\ \A m \in ToSet(hi(t)) : m.type # "roster"
    BY <1>2, MessageTypes
  <2>2. Rosters(hi(t) \o RosterFor(r, t)) = {Roster(r, Position(r, t))}
    BY <1>1, <1>3, <2>1, OneRoster
  <2> QED
    BY <2>2
<1> HIDE DEF out
<1>4. \A t \in Socket : sock[t].link = "open" => sent'[t] = out[t]
  BY <1>1, HeardSet
<1> QED
  BY <1>1, <1>3, <1>4, WrittenIsAnnounced

LEMMA DepartAnnounces ==
  ASSUME IInv, [Next]_vars, NEW s \in Socket, NEW link, Depart(s, link)
  PROVE  AnnouncedNow
<1> DEFINE c    == sock[s].code
           left == Without(room[c], Position(room[c], s))
           out  == [t \in Socket |-> PeerLeftFor(s, t) \o RosterFor(left, t)]
<1>1. CASE ~Placed(s)
  BY <1>1 DEF Depart, AnnouncedNow
<1>2. CASE Placed(s) /\ left.players = <<>>
  <2>1. room' = Delete({c})
    BY <1>2 DEF Depart
  <2> QED
    <3> HIDE DEF c
    <3>1. \A d \in DOMAIN room' :
            d \in DOMAIN room /\ room'[d].players = room[d].players
      BY <2>1, DeleteFacts
    <3> QED
      BY <3>1 DEF AnnouncedNow
<1>3. CASE Placed(s) /\ left.players # <<>>
  <2>1. left \in Room
    BY <1>3, StoredRoom, RoomFields, WithoutProperties DEF IInv, Placed
  <2>2. room' = Put(c, left) /\ sent' = Heard(out)
    BY <1>3 DEF Depart
  <2> HIDE DEF left, c
  <2>3. ASSUME NEW t \in Socket, In(left, t)
        PROVE  Rosters(out[t]) = {Roster(left, Position(left, t))}
    <3>1. PeerLeftFor(s, t) \in Seq(Message)
      BY PeerLeftForType DEF IInv
    <3>2. \A m \in ToSet(PeerLeftFor(s, t)) : m.type # "roster"
      BY PeerLeftForSet, MessageTypes
    <3>3. Rosters(PeerLeftFor(s, t) \o RosterFor(left, t)) = {Roster(left, Position(left, t))}
      BY <2>1, <2>3, <3>1, <3>2, OneRoster
    <3> QED
      BY <3>3
  <2> HIDE DEF out
  <2>4. \A t \in Socket : sock[t].link = "open" => sent'[t] = out[t]
    BY <2>2, HeardSet
  <2> QED
    BY <2>1, <2>2, <2>3, <2>4, WrittenIsAnnounced
<1> QED
  BY <1>1, <1>2, <1>3

LEMMA SetReadyAnnounces ==
  ASSUME IInv, [Next]_vars, NEW s \in Socket, NEW b \in BOOLEAN, SetReady(s, b)
  PROVE  AnnouncedNow
<1> DEFINE c    == sock[s].code
           k    == Position(room[c], s)
           r    == Asserted(room[c], k, b)
           wave == [t \in Socket |-> RosterFor(r, t) \o StartingFor(r, t)]
           news == [t \in Socket |-> RosterFor(r, t)]
<1>1. room[c] \in Room /\ k \in DOMAIN room[c].players
  BY StoredRoom, RoomFields DEF IInv, SetReady, Placed
<1>2. \/ room' = Put(c, Merged(r)) /\ sent' = Heard(wave)
      \/ room' = Put(c, r) /\ sent' = Heard(news)
  BY DEF SetReady
<1> HIDE DEF c, k
<1>3. r \in Room
  BY <1>1, AssertedProperties
<1> HIDE DEF r
<1>4. /\ Merged(r) \in Room /\ Merged(r).players = r.players
      /\ Merged(r).wireless = r.wireless
  BY <1>3, MergedProperties
<1>5. ASSUME NEW t \in Socket, In(r, t)
      PROVE  /\ Rosters(wave[t]) = {Roster(r, Position(r, t))}
             /\ Rosters(news[t]) = {Roster(r, Position(r, t))}
  <2>1. StartingFor(r, t) \in Seq(Message)
        /\ \A m \in ToSet(StartingFor(r, t)) : m.type # "roster"
    BY <1>3, StartingForType, StartingForSet, MessageTypes
  <2>2. /\ Rosters(RosterFor(r, t) \o StartingFor(r, t)) = {Roster(r, Position(r, t))}
        /\ Rosters(RosterFor(r, t)) = {Roster(r, Position(r, t))}
    BY <1>3, <1>5, <2>1, OneRoster
  <2> QED
    BY <2>2
<1> HIDE DEF wave, news
<1>6. CASE room' = Put(c, Merged(r)) /\ sent' = Heard(wave)
  <2>1. \A t \in Socket : sock[t].link = "open" => sent'[t] = wave[t]
    BY <1>6, HeardSet
  <2> QED
    BY <1>4, <1>5, <1>6, <2>1, WrittenIsAnnounced
<1>7. CASE room' = Put(c, r) /\ sent' = Heard(news)
  <2>1. \A t \in Socket : sock[t].link = "open" => sent'[t] = news[t]
    BY <1>7, HeardSet
  <2> QED
    BY <1>3, <1>5, <1>7, <2>1, WrittenIsAnnounced
<1> QED
  BY <1>2, <1>6, <1>7

LEMMA KickAnnounces ==
  ASSUME IInv, [Next]_vars, NEW s \in Socket, NEW seat \in Seats, NEW link,
         KickPlayer(s, seat, link)
  PROVE  AnnouncedNow
<1> DEFINE c      == sock[s].code
           r      == room[c]
           target == CHOOSE i \in DOMAIN r.players : r.players[i].seat = seat
           k      == r.players[target].id
           left   == Without(r, target)
           told(t) == IF ~Speaking(k) THEN <<>>
                      ELSE IF t = k THEN <<Error("kicked")>>
                      ELSE PeerLeftFor(k, t)
           out    == [t \in Socket |-> told(t) \o RosterFor(left, t)]
<1>1. r \in Room /\ target \in DOMAIN r.players
  BY StoredRoom DEF IInv, KickPlayer, Placed
<1>2. left \in Room /\ k \in Socket
  BY <1>1, WithoutProperties, RoomFields
<1>3. room' = Put(c, left) /\ sent' = Heard(out)
  BY DEF KickPlayer
<1> HIDE DEF left, k, c
<1>4. \A t \in Socket : told(t) \in {<<>>, <<Error("kicked")>>, PeerLeftFor(k, t)}
  OBVIOUS
<1> HIDE DEF told
<1>5. ASSUME NEW t \in Socket, In(left, t)
      PROVE  Rosters(out[t]) = {Roster(left, Position(left, t))}
  <2>1. \A x \in {<<>>, <<Error("kicked")>>, PeerLeftFor(k, t)} :
          x \in Seq(Message) /\ \A m \in ToSet(x) : m.type # "roster"
    <3>1. <<>> \in Seq(Message) /\ ToSet(<<>>) = {}
      BY NoMessages, NoneInNothing
    <3>2. <<Error("kicked")>> \in Seq(Message)
          /\ ToSet(<<Error("kicked")>>) = {Error("kicked")}
      BY ErrorMessages, OneInOne DEF ErrorKind
    <3>3. PeerLeftFor(k, t) \in Seq(Message)
          /\ ToSet(PeerLeftFor(k, t)) \subseteq {PeerLeft(sock[k].session.idx)}
      BY <1>2, PeerLeftForType, PeerLeftForSet DEF IInv
    <3> QED
      BY <3>1, <3>2, <3>3, MessageTypes
  <2>2. told(t) \in Seq(Message) /\ \A m \in ToSet(told(t)) : m.type # "roster"
    BY <1>4, <2>1
  <2>3. Rosters(told(t) \o RosterFor(left, t)) = {Roster(left, Position(left, t))}
    BY <1>2, <1>5, <2>2, OneRoster
  <2> QED
    BY <2>3
<1> HIDE DEF out
<1>6. \A t \in Socket : sock[t].link = "open" => sent'[t] = out[t]
  BY <1>3, HeardSet
<1> QED
  BY <1>2, <1>3, <1>5, <1>6, WrittenIsAnnounced

\* Every other step leaves the rosters alone.
LEMMA SamePlayersAnnounce ==
  ASSUME \A c \in DOMAIN room' : c \in DOMAIN room /\ room'[c].players = room[c].players
  PROVE  AnnouncedNow
  BY DEF AnnouncedNow

LEMMA AnnouncedStep ==
  ASSUME IInv, Next
  PROVE  AnnouncedNow
<1>1. ASSUME room' = room PROVE AnnouncedNow
  BY <1>1, SamePlayersAnnounce
<1>2. ASSUME NEW s \in Socket, Environment(s) PROVE AnnouncedNow
  BY <1>1, <1>2, DepartAnnounces
     DEF Environment, Connect, LoseSocket, CloseEvent, ErrorEvent
<1>3. ASSUME NEW s \in Socket, Entry(s) PROVE AnnouncedNow
  <2>1. CASE RefuseEntry(s)
    BY <1>1, <2>1 DEF RefuseEntry, RefuseReentry, RefuseVersion, RefuseJoin
  <2> QED
    BY <1>3, <2>1, CreateAnnounces, JoinAnnounces DEF Entry
<1>4. ASSUME NEW s \in Socket, Member(s) PROVE AnnouncedNow
  <2>1. CASE StartRoom(s)
    <3> DEFINE c == sock[s].code
               q == Merged(room[c])
    <3>1. c \in DOMAIN room /\ room[c] \in Room /\ room' = Put(c, q)
      BY <2>1, StoredRoom DEF StartRoom, Placed, IInv
    <3>2. q.players = room[c].players
      BY <3>1, MergedProperties
    <3> HIDE DEF c, q
    <3>3. /\ DOMAIN room' = DOMAIN room \cup {c} /\ room'[c] = q
          /\ \A d \in DOMAIN room : d # c => room'[d] = room[d]
      BY <3>1, PutFacts
    <3>4. \A d \in DOMAIN room' : d \in DOMAIN room /\ room'[d].players = room[d].players
      BY <3>1, <3>2, <3>3
    <3> QED
      BY <3>4, SamePlayersAnnounce
  <2>2. CASE \E link \in Exits(s) : Leave(s, link)
    BY <2>2, DepartAnnounces DEF Leave
  <2>3. CASE \/ RefuseStart(s) \/ RefuseSignal(s) \/ IgnoreMessage(s)
             \/ \E to \in 1 .. WirelessSeats, p \in Payload : RelaySignal(s, to, p)
             \/ \E seat \in Seats : RefuseKick(s, seat)
    BY <1>1, <2>3 DEF RefuseStart, RefuseSignal, IgnoreMessage, RelaySignal, RefuseKick
  <2> QED
    BY <1>4, <2>1, <2>2, <2>3, SetReadyAnnounces, KickAnnounces DEF Member
<1>5. ASSUME NEW c \in Code, Expire(c) PROVE AnnouncedNow
  <2>1. c \in DOMAIN room /\ room[c] \in Room
        /\ room' = [room EXCEPT ![c].expired = TRUE]
    BY <1>5, StoredRoom DEF Expire, IInv
  <2>2. \A d \in DOMAIN room' : d \in DOMAIN room /\ room'[d].players = room[d].players
    BY <2>1 DEF Room
  <2> QED
    BY <2>2, SamePlayersAnnounce
<1>6. CASE Sweep
  <2>1. PICK C : room' = Delete(C)
    BY <1>6 DEF Sweep
  <2> QED
    BY <2>1, DeleteFacts, SamePlayersAnnounce
<1> QED
  BY <1>2, <1>3, <1>4, <1>5, <1>6 DEF Next

\* No connected member is left with an old roster: whatever changes the
\* players of a room sends each of them the new one, with its own index.
THEOREM RostersReach == Spec => EveryChangeAnnounced
<1>1. IInv /\ [Next]_vars => [AnnouncedNow]_vars
  BY AnnouncedStep
<1>2. Spec => [][AnnouncedNow]_vars
  BY <1>1, InductiveInvariant, PTL DEF Spec
<1> QED
  BY <1>2 DEF EveryChangeAnnounced, AnnouncedNow

-----------------------------------------------------------------------------
(* Departures.  A departure is announced by the leaver's own routing and   *)
(* looked up in the hearer's: that both are of one merge is StampsMutual,  *)
(* and that an index means one member in it is PeersDistinct.  A socket    *)
(* whose attachment could not be cleared is out of every room, so what it  *)
(* says again is an echo.                                                  *)

PeersDistinct ==
  \A t \in Socket : sock[t].link = "open" =>
    \A i, j \in DOMAIN sock[t].session.peers :
      sock[t].session.peers[i] = sock[t].session.peers[j] => i = j

DInv == IInv /\ PeersDistinct

\* A merge stamps one well-listed roster on the members of one room.
Stamping ==
  \E c \in DOMAIN room, r \in Room :
    /\ WellListed(r) /\ \A t : In(r, t) <=> In(room[c], t)
    /\ sock' = Stamped(c, r)

LEMMA MergesStamp ==
  ASSUME IInv, Converging \/ LinkingUp
  PROVE  Stamping
<1>1. CASE Converging
  <2>1. PICK c \in DOMAIN room :
          \E k \in DOMAIN room[c].players, b \in BOOLEAN :
            sock' = Stamped(c, Asserted(room[c], k, b))
    BY <1>1 DEF Converging
  <2>2. PICK k \in DOMAIN room[c].players, b \in BOOLEAN :
          sock' = Stamped(c, Asserted(room[c], k, b))
    BY <2>1
  <2>3. room[c] \in Room /\ WellListed(room[c])
    BY StoredRoom DEF IInv
  <2>4. /\ Asserted(room[c], k, b) \in Room /\ WellListed(Asserted(room[c], k, b))
        /\ \A t : In(Asserted(room[c], k, b), t) <=> In(room[c], t)
    BY <2>3, AssertedProperties, AssertedListed
  <2> QED
    BY <2>2, <2>4 DEF Stamping
<1>2. CASE LinkingUp
  <2>1. PICK c \in DOMAIN room : sock' = Stamped(c, room[c])
    BY <1>2 DEF LinkingUp
  <2>2. room[c] \in Room /\ WellListed(room[c])
    BY StoredRoom DEF IInv
  <2> QED
    BY <2>1, <2>2 DEF Stamping
<1> QED
  BY <1>1, <1>2

\* What a merge makes of one socket.
LEMMA StampedSocket ==
  ASSUME NEW c, NEW r \in Room, sock' = Stamped(c, r), NEW t \in Socket
  PROVE  \/ sock'[t] = sock[t]
         \/ /\ In(r, t) /\ Speaking(t)
            /\ sock'[t].link = sock[t].link
            /\ sock'[t].session.peers = Ids(r) /\ sock'[t].session # NoSession
<1>1. CASE In(r, t) /\ Speaking(t)
  <2>1. sock'[t] = [link |-> sock[t].link, code |-> c,
                    session |-> [idx |-> Position(r, t), peers |-> Ids(r)]]
    BY <1>1 DEF Stamped
  <2>2. Ids(r) # <<>>
    BY <1>1, IdsOfRoom DEF In
  <2> QED
    BY <1>1, <2>1, <2>2 DEF NoSession
<1>2. CASE ~(In(r, t) /\ Speaking(t))
  BY <1>2 DEF Stamped
<1> QED
  BY <1>1, <1>2

\* Where a connected socket's routing comes from, but for a merge.
LEMMA SteadySocket ==
  ASSUME IInv, IInv', Steady, NEW t \in Socket, sock'[t].link = "open",
         sock'[t].session.peers # <<>>
  PROVE  sock[t].link = "open" /\ sock'[t].session = sock[t].session
<1>1. sock[t].link # "new"
  <2>1. ASSUME sock[t].link = "new" PROVE FALSE
    <3>1. sock'[t].session = NoSession
      BY <2>1 DEF Steady, IInv, MembershipCoherent, AttachmentCoherent
    <3> QED
      BY <3>1 DEF NoSession
  <2> QED
    BY <2>1
<1> QED
  BY <1>1 DEF Steady

LEMMA DistinctStep ==
  ASSUME IInv, IInv', PeersDistinct, RecordStep
  PROVE  PeersDistinct'
<1> SUFFICES ASSUME NEW t \in Socket, sock'[t].link = "open",
                    NEW i \in DOMAIN sock'[t].session.peers,
                    NEW j \in DOMAIN sock'[t].session.peers,
                    sock'[t].session.peers[i] = sock'[t].session.peers[j]
             PROVE  i = j
  BY DEF PeersDistinct
<1>1. CASE Steady
  <2>1. sock'[t].session.peers # <<>>
    BY EmptySeq
  <2>2. sock[t].link = "open" /\ sock'[t].session = sock[t].session
    BY <1>1, <2>1, SteadySocket
  <2> QED
    BY <2>2 DEF PeersDistinct
<1>2. CASE Stamping
  <2>1. PICK c \in DOMAIN room, r \in Room : WellListed(r) /\ sock' = Stamped(c, r)
    BY <1>2 DEF Stamping
  <2>2. CASE sock'[t] = sock[t]
    BY <2>2 DEF PeersDistinct
  <2>3. CASE sock'[t].session.peers = Ids(r)
    BY <2>1, <2>3, IdsOfRoom DEF WellListed
  <2> QED
    BY <2>1, <2>2, <2>3, StampedSocket
<1> QED
  BY <1>1, <1>2, MergesStamp DEF RecordStep

LEMMA PlainRouting ==
  ASSUME IInv, NEW s \in Socket, PlainStep(s)
  PROVE  \A t \in Socket : /\ sock'[t].session = sock[t].session
                           /\ sock'[t].link = "broken" => sock[t].link = "broken"
<1>1. \/ sock' = sock
      \/ \E link \in {"open", "closing", "gone"} : sock' = [sock EXCEPT ![s].link = link]
      \/ \E c \in Code : sock' = [sock EXCEPT ![s].code = c]
  <2>1. CASE Connect(s)
    BY <2>1 DEF Connect
  <2>2. CASE LoseSocket(s)
    BY <2>2 DEF LoseSocket
  <2>3. CASE \E c \in Code, rom \in Rom, w \in BOOLEAN : CreateRoom(s, c, rom, w)
    BY <2>3 DEF CreateRoom
  <2>4. CASE \E c \in Code, rom \in Rom : JoinRoom(s, c, rom)
    BY <2>4 DEF JoinRoom
  <2>5. CASE RefuseEntry(s)
    BY <2>5 DEF RefuseEntry, RefuseReentry, RefuseVersion, RefuseJoin
  <2>6. CASE \/ RefuseStart(s) \/ RefuseSignal(s) \/ IgnoreMessage(s)
             \/ \E to \in 1 .. WirelessSeats, p \in Payload : RelaySignal(s, to, p)
             \/ \E seat \in Seats : RefuseKick(s, seat)
    BY <2>6 DEF RefuseStart, RefuseSignal, IgnoreMessage, RelaySignal, RefuseKick
  <2> QED
    BY <2>1, <2>2, <2>3, <2>4, <2>5, <2>6 DEF PlainStep, Entry
<1> QED
  BY <1>1 DEF IInv, Shape, Attached

\* The socket s drops out of its merge, with its attachment cleared or not;
\* nobody else's attachment changes.
Drops(s) ==
  /\ Speaking(s)
  /\ \A t \in Socket \ {s} : sock'[t] = sock[t]
  /\ sock'[s].session = NoSession \/ sock'[s].link = "broken"
  /\ sock[s].link = "broken" => room' = room

\* Whom a step tells of a departure: the peers of s, by its own routing.
Tells(s) ==
  \A t \in Socket : sock[t].link = "open" =>
    \A i : PeerLeft(i) \in ToSet(sent'[t])
             <=> t # s /\ t \in ToSet(sock[s].session.peers) /\ i = sock[s].session.idx

\* A departure in what is sent with other messages.
LEMMA OneDeparture ==
  ASSUME NEW s, NEW t, NEW i,
         NEW M, \A m \in M : m.type # "peerLeft"
  PROVE  PeerLeft(i) \in ToSet(PeerLeftFor(s, t)) \cup M
           <=> t # s /\ t \in ToSet(sock[s].session.peers) /\ i = sock[s].session.idx
<1>1. PeerLeft(i) \notin M
  BY MessageTypes
<1>2. PeerLeft(i) = PeerLeft(sock[s].session.idx) <=> i = sock[s].session.idx
  BY MessageTypes
<1> QED
  BY <1>1, <1>2, PeerLeftForSet

\* What a socket leaves its room with has no routing or is "broken".
LEMMA DetachedDrops ==
  ASSUME IInv, NEW s \in Socket, NEW link, sock' = [sock EXCEPT ![s] = Detached(s, link)]
  PROVE  /\ \A t \in Socket \ {s} : sock'[t] = sock[t]
         /\ sock'[s].session = NoSession \/ sock'[s].link = "broken"
<1>1. Detached(s, link).session = NoSession \/ Detached(s, link).link = "broken"
  BY DEF Detached
<1>2. sock'[s] = Detached(s, link) /\ \A t \in Socket \ {s} : sock'[t] = sock[t]
  BY DEF IInv, Shape
<1> QED
  BY <1>1, <1>2

\* A socket whose attachment could not be cleared is in no room.
LEMMA BrokenIsOut ==
  ASSUME IInv, NEW s \in Socket, sock[s].link = "broken"
  PROVE  ~Placed(s)
  BY StoredRoom DEF IInv, Placed

LEMMA DepartTells ==
  ASSUME IInv, NEW s \in Socket, NEW link, Depart(s, link), Speaking(s)
  PROVE  Drops(s) /\ Tells(s)
<1>1. Drops(s)
  BY DetachedDrops, BrokenIsOut DEF Depart, Drops
<1> DEFINE c    == sock[s].code
           left == Without(room[c], Position(room[c], s))
           out  == [t \in Socket |-> PeerLeftFor(s, t)]
           both == [t \in Socket |-> PeerLeftFor(s, t) \o RosterFor(left, t)]
<1>2. \/ sent' = Heard(out)
      \/ /\ Placed(s) /\ left.players # <<>>
         /\ sent' = Heard(both)
  BY DEF Depart
<1>3. Placed(s) => left \in Room
  BY StoredRoom, RoomFields, WithoutProperties DEF IInv, Placed
<1> HIDE DEF left, c
<1>4. ASSUME NEW t \in Socket, sock[t].link = "open", NEW i
      PROVE  PeerLeft(i) \in ToSet(sent'[t])
               <=> t # s /\ t \in ToSet(sock[s].session.peers) /\ i = sock[s].session.idx
  <2>1. CASE sent' = Heard(out)
    <3>1. sent'[t] = PeerLeftFor(s, t)
      BY <1>4, <2>1, HeardSet
    <3> DEFINE none == {}
    <3>2. /\ ToSet(sent'[t]) = ToSet(PeerLeftFor(s, t)) \cup none
          /\ \A m \in none : m.type # "peerLeft"
      BY <3>1
    <3> HIDE DEF none
    <3> QED
      BY <3>2, OneDeparture
  <2>2. CASE Placed(s) /\ sent' = Heard(both)
    <3>1. sent'[t] = PeerLeftFor(s, t) \o RosterFor(left, t)
      BY <1>4, <2>2, HeardSet
    <3>2. ToSet(sent'[t]) = ToSet(PeerLeftFor(s, t)) \cup ToSet(RosterFor(left, t))
      BY <1>3, <2>2, <3>1, PeerLeftForType, RosterForType, BothInConcat DEF IInv
    <3>3. \A m \in ToSet(RosterFor(left, t)) : m.type # "peerLeft"
      BY RosterForSet, MessageTypes
    <3> QED
      BY <3>2, <3>3, OneDeparture
  <2> QED
    BY <1>2, <2>1, <2>2
<1> QED
  BY <1>1, <1>4 DEF Tells

\* A step that only sends other messages, and after which every routing that
\* was there is there, of a socket that is no more detached than before.
Keeps ==
  /\ \A t \in Socket : \A m \in ToSet(sent'[t]) : m.type # "peerLeft"
  /\ \A t \in Socket : /\ sock[t].session # NoSession => sock'[t].session # NoSession
                       /\ sock'[t].link = "broken" => sock[t].link = "broken"

LEMMA KickTells ==
  ASSUME IInv, NEW s \in Socket, NEW seat \in Seats, NEW link, KickPlayer(s, seat, link)
  PROVE  Keeps \/ \E k \in Socket : Drops(k) /\ Tells(k)
<1> DEFINE c      == sock[s].code
           r      == room[c]
           target == CHOOSE i \in DOMAIN r.players : r.players[i].seat = seat
           k      == r.players[target].id
           left   == Without(r, target)
           told(t) == IF ~Speaking(k) THEN <<>>
                      ELSE IF t = k THEN <<Error("kicked")>>
                      ELSE PeerLeftFor(k, t)
           out    == [t \in Socket |-> told(t) \o RosterFor(left, t)]
<1>1. r \in Room /\ target \in DOMAIN r.players /\ c \in DOMAIN room
  BY StoredRoom DEF IInv, KickPlayer, Placed
<1>2. left \in Room /\ k \in Socket /\ sock[k].link # "broken"
  <2>1. In(r, k)
    BY <1>1 DEF In
  <2> QED
    BY <1>1, <2>1, WithoutProperties, StoredRoom DEF IInv
<1>3. /\ sent' = Heard(out)
      /\ sock' = IF Speaking(k) THEN [sock EXCEPT ![k] = Detached(k, link)] ELSE sock
  BY DEF KickPlayer
<1> HIDE DEF left, k, c
<1>4. \A t \in Socket : \A m \in ToSet(RosterFor(left, t)) : m.type # "peerLeft"
  BY RosterForSet, MessageTypes
<1>5. CASE ~Speaking(k)
  <2>1. ASSUME NEW t \in Socket
        PROVE  ToSet(out[t]) = ToSet(RosterFor(left, t))
    <3>1. out[t] = <<>> \o RosterFor(left, t)
      BY <1>5
    <3> HIDE DEF out
    <3> QED
      BY <1>2, <3>1, NoMessages, NoneInNothing, RosterForType, BothInConcat
  <2> HIDE DEF out
  <2>2. \A t \in Socket : \A m \in ToSet(sent'[t]) : m.type # "peerLeft"
    BY <1>3, <1>4, <2>1, HeardSet
  <2> QED
    BY <1>3, <1>5, <2>2 DEF Keeps
<1>6. CASE Speaking(k)
  <2>1. ASSUME NEW t \in Socket, sock[t].link = "open", NEW i
        PROVE  PeerLeft(i) \in ToSet(sent'[t])
                 <=> t # k /\ t \in ToSet(sock[k].session.peers) /\ i = sock[k].session.idx
    <3>1. CASE t = k
      <4>1. out[t] = <<Error("kicked")>> \o RosterFor(left, t)
        BY <1>6, <3>1
      <4> HIDE DEF out
      <4>2. sent'[t] = <<Error("kicked")>> \o RosterFor(left, t)
        BY <1>3, <2>1, <4>1, HeardSet
      <4>3. ToSet(sent'[t]) = {Error("kicked")} \cup ToSet(RosterFor(left, t))
        BY <1>2, <4>2, ErrorMessages, OneInOne, RosterForType, BothInConcat DEF ErrorKind
      <4> QED
        BY <1>4, <3>1, <4>3, MessageTypes
    <3>2. CASE t # k
      <4>1. out[t] = PeerLeftFor(k, t) \o RosterFor(left, t)
        BY <1>6, <3>2
      <4> HIDE DEF out
      <4>2. sent'[t] = PeerLeftFor(k, t) \o RosterFor(left, t)
        BY <1>3, <2>1, <4>1, HeardSet
      <4>3. ToSet(sent'[t]) = ToSet(PeerLeftFor(k, t)) \cup ToSet(RosterFor(left, t))
        BY <1>2, <4>2, PeerLeftForType, RosterForType, BothInConcat DEF IInv
      <4> QED
        BY <1>4, <4>3, OneDeparture
    <3> QED
      BY <3>1, <3>2
  <2>2. Drops(k)
    BY <1>2, <1>3, <1>6, DetachedDrops DEF Drops
  <2> QED
    BY <1>2, <2>1, <2>2 DEF Tells
<1> QED
  BY <1>5, <1>6

LEMMA MergeSays ==
  ASSUME IInv, NEW s \in Socket,
         StartRoom(s) \/ \E b \in BOOLEAN : SetReady(s, b)
  PROVE  \A t \in Socket : \A m \in ToSet(sent'[t]) : m.type # "peerLeft"
<1> DEFINE Clean(out) == \A t \in Socket : \A m \in ToSet(out[t]) : m.type # "peerLeft"
<1>1. ASSUME NEW out, sent' = Heard(out), Clean(out)
      PROVE  Clean(sent')
  BY <1>1, HeardSet
<1>2. ASSUME NEW r \in Room
      PROVE  /\ Clean([t \in Socket |-> RosterFor(r, t)])
             /\ Clean([t \in Socket |-> StartingFor(r, t)])
             /\ Clean([t \in Socket |-> RosterFor(r, t) \o StartingFor(r, t)])
  <2>1. ASSUME NEW t \in Socket
        PROVE  /\ \A m \in ToSet(RosterFor(r, t)) : m.type # "peerLeft"
               /\ \A m \in ToSet(StartingFor(r, t)) : m.type # "peerLeft"
               /\ \A m \in ToSet(RosterFor(r, t) \o StartingFor(r, t)) : m.type # "peerLeft"
    BY WaveSet, RosterForSet, StartingForSet, MessageTypes
  <2> QED
    BY <2>1
<1> HIDE DEF Clean
<1>3. CASE StartRoom(s)
  <2>1. room[sock[s].code] \in Room
    BY <1>3, StoredRoom DEF StartRoom, Placed, IInv
  <2>2. sent' = Heard([t \in Socket |-> StartingFor(room[sock[s].code], t)])
    BY <1>3 DEF StartRoom
  <2>3. Clean(sent')
    BY <1>1, <1>2, <2>1, <2>2
  <2> QED
    BY <2>3 DEF Clean
<1>4. ASSUME NEW b \in BOOLEAN, SetReady(s, b)
      PROVE  Clean(sent')
  <2> DEFINE c == sock[s].code
             k == Position(room[c], s)
             r == Asserted(room[c], k, b)
  <2>1. room[c] \in Room /\ k \in DOMAIN room[c].players
    BY <1>4, StoredRoom, RoomFields DEF IInv, SetReady, Placed
  <2>2. \/ sent' = Heard([t \in Socket |-> RosterFor(r, t) \o StartingFor(r, t)])
        \/ sent' = Heard([t \in Socket |-> RosterFor(r, t)])
    BY <1>4 DEF SetReady
  <2> HIDE DEF c, k
  <2>3. r \in Room
    BY <2>1, AssertedProperties
  <2> HIDE DEF r
  <2> QED
    BY <1>1, <1>2, <2>2, <2>3
<1> QED
  BY <1>3, <1>4 DEF Clean

\* A merge leaves the attachments alone or stamps the members of one room.
LEMMA MergeStamps ==
  ASSUME IInv, NEW s \in Socket,
         StartRoom(s) \/ \E b \in BOOLEAN : SetReady(s, b)
  PROVE  sock' = sock \/ \E c \in DOMAIN room, r \in Room : sock' = Stamped(c, r)
<1>1. ASSUME NEW b \in BOOLEAN, SetReady(s, b)
      PROVE  sock' = sock \/ \E c \in DOMAIN room, r \in Room : sock' = Stamped(c, r)
  <2> DEFINE c == sock[s].code
             k == Position(room[c], s)
             r == Asserted(room[c], k, b)
  <2>1. c \in DOMAIN room /\ room[c] \in Room /\ k \in DOMAIN room[c].players
    BY <1>1, StoredRoom, RoomFields DEF IInv, SetReady, Placed
  <2>2. sock' = sock \/ sock' = Stamped(c, r)
    BY <1>1 DEF SetReady
  <2> HIDE DEF c, k
  <2>3. r \in Room
    BY <2>1, AssertedProperties
  <2> HIDE DEF r
  <2> QED
    BY <2>1, <2>2, <2>3
<1>2. CASE StartRoom(s)
  <2>1. PICK c \in DOMAIN room, r \in Room : LinksUp(c, r)
    BY <1>2, StartLinksUp
  <2> QED
    BY <2>1 DEF LinksUp
<1> QED
  BY <1>1, <1>2

\* The steps by what they do to routings.
LEMMA RoutingSteps ==
  ASSUME IInv, Next
  PROVE  Keeps \/ \E s \in Socket : Drops(s) /\ Tells(s)
<1>1. ASSUME NEW s \in Socket, PlainStep(s)
      PROVE  Keeps
  <2>1. \A t \in Socket : \A m \in ToSet(sent'[t]) : m.type # "peerLeft"
    BY <1>1, PlainSays DEF Says, PlainKinds
  <2> QED
    BY <1>1, <2>1, PlainRouting DEF Keeps
<1>2. ASSUME NEW s \in Socket, StartRoom(s) \/ \E b \in BOOLEAN : SetReady(s, b)
      PROVE  Keeps
  <2>1. \A t \in Socket : \A m \in ToSet(sent'[t]) : m.type # "peerLeft"
    BY <1>2, MergeSays
  <2>2. \A t \in Socket : /\ sock[t].session # NoSession => sock'[t].session # NoSession
                          /\ sock'[t].link = "broken" => sock[t].link = "broken"
    <3>1. CASE sock' = sock
      BY <3>1
    <3>2. ASSUME NEW c, NEW r \in Room, sock' = Stamped(c, r)
          PROVE  \A t \in Socket :
                   /\ sock[t].session # NoSession => sock'[t].session # NoSession
                   /\ sock'[t].link = "broken" => sock[t].link = "broken"
      BY <3>2, StampedSocket
    <3> QED
      BY <1>2, <3>1, <3>2, MergeStamps
  <2> QED
    BY <2>1, <2>2 DEF Keeps
<1>3. ASSUME NEW c \in Code, Expire(c)
      PROVE  Keeps
  <2>1. sock' = sock /\ sent' = Nothing
    BY <1>3 DEF Expire
  <2> QED
    BY <2>1, NoneInNothing DEF Keeps
<1>4. CASE Sweep
  <2>1. sent' = Nothing
    BY <1>4 DEF Sweep
  <2>2. ASSUME NEW t \in Socket
        PROVE  /\ sock'[t].session = sock[t].session
               /\ sock'[t].link = "broken" => sock[t].link = "broken"
    <3>1. sock[t] \in Attached
      BY DEF IInv, Shape
    <3>2. sock'[t] = sock[t] \/ sock'[t] = [sock[t] EXCEPT !.link = "closing"]
      BY <1>4 DEF Sweep
    <3> QED
      BY <3>1, <3>2 DEF Attached
  <2> QED
    BY <2>1, <2>2, NoneInNothing DEF Keeps
<1>5. ASSUME NEW s \in Socket, Environment(s) \/ Entry(s)
      PROVE  PlainStep(s) \/ (Speaking(s) /\ \E link : Depart(s, link))
  BY <1>5 DEF Environment, CloseEvent, ErrorEvent, PlainStep
<1>6. ASSUME NEW s \in Socket, Member(s)
      PROVE  \/ PlainStep(s) \/ (Speaking(s) /\ \E link : Depart(s, link))
             \/ StartRoom(s) \/ (\E b \in BOOLEAN : SetReady(s, b))
             \/ \E seat \in Seats, link \in {"closing", "broken"} : KickPlayer(s, seat, link)
  BY <1>6 DEF Member, Leave, PlainStep
<1> QED
  BY <1>1, <1>2, <1>3, <1>4, <1>5, <1>6, DepartTells, KickTells DEF Next

LEMMA InitDInv == Init => DInv
<1> SUFFICES ASSUME Init PROVE DInv
  OBVIOUS
<1>1. \A t \in Socket : sock[t].link = "new"
  BY DEF Init
<1> QED
  BY <1>1, InitIInv DEF DInv, PeersDistinct

LEMMA StepDInv == DInv /\ [Next]_vars => DInv'
<1> SUFFICES ASSUME DInv, [Next]_vars PROVE DInv'
  OBVIOUS
<1>1. IInv /\ IInv' /\ RecordStep
  BY StepIInv, RecordSteps DEF DInv
<1> QED
  BY <1>1, DistinctStep DEF DInv

LEMMA DeparturesInvariant == Spec => []DInv
  BY InitDInv, StepDInv, PTL DEF Spec

AnnouncedDepartures ==
  \A t \in Socket :
    sock[t].link = "open" /\ sock[t].session # NoSession
      /\ sock'[t].session = sock[t].session =>
      \A i \in DOMAIN sock[t].session.peers \ {sock[t].session.idx} :
        LET departs == Departs(sock[t].session.peers[i], sock[t].session.peers)
            heard   == PeerLeft(i) \in ToSet(sent'[t])
        IN (departs => heard) /\ (heard => departs \/ Echo(t, i))

\* Who departs from a merge loses its routing or is newly "broken".
LEMMA DepartsFrom ==
  ASSUME NEW s, NEW peers, peers # <<>>, Departs(s, peers)
  PROVE  /\ sock[s].link # "broken" /\ sock[s].session # NoSession
         /\ sock'[s].session = NoSession \/ sock'[s].link = "broken"
  BY DEF Departs, NoSession

LEMMA KeepsAnnounces ==
  ASSUME IInv, Keeps
  PROVE  AnnouncedDepartures
<1> SUFFICES ASSUME NEW t \in Socket, NEW i \in DOMAIN sock[t].session.peers
             PROVE  /\ PeerLeft(i) \notin ToSet(sent'[t])
                    /\ ~Departs(sock[t].session.peers[i], sock[t].session.peers)
  BY DEF AnnouncedDepartures
<1>1. PeerLeft(i) \notin ToSet(sent'[t])
  BY MessageTypes DEF Keeps
<1>2. sock[t].session.peers[i] \in Socket /\ sock[t].session.peers # <<>>
  BY PeersAreSockets, EmptySeq DEF ToSet, IInv
<1> QED
  BY <1>1, <1>2, DepartsFrom DEF Keeps

LEMMA DropAnnounces ==
  ASSUME DInv, NEW k \in Socket, Drops(k), Tells(k)
  PROVE  AnnouncedDepartures
<1> SUFFICES ASSUME NEW t \in Socket, sock[t].link = "open", sock[t].session # NoSession,
                    NEW peers, peers = sock[t].session.peers,
                    NEW i \in DOMAIN peers \ {sock[t].session.idx}
             PROVE  /\ Departs(peers[i], peers) => PeerLeft(i) \in ToSet(sent'[t])
                    /\ PeerLeft(i) \in ToSet(sent'[t]) =>
                         Departs(peers[i], peers) \/ Echo(t, i)
  BY DEF AnnouncedDepartures
<1>1. IInv /\ peers[i] \in Socket /\ peers # <<>>
  BY PeersAreSockets, EmptySeq DEF ToSet, DInv, IInv
<1>2. /\ sock[t].session.idx \in DOMAIN peers /\ peers[sock[t].session.idx] = t
      /\ t \in ToSet(peers)
  BY <1>1 DEF IInv, StampsMutual, ToSet
<1>3. \A j \in DOMAIN peers : peers[j] = peers[i] => j = i
  BY DEF DInv, PeersDistinct
<1>4. PeerLeft(i) \in ToSet(sent'[t])
        <=> t # k /\ t \in ToSet(sock[k].session.peers) /\ i = sock[k].session.idx
  BY DEF Tells
<1>5. ASSUME Departs(peers[i], peers)
      PROVE  PeerLeft(i) \in ToSet(sent'[t])
  <2>1. peers[i] = k
    BY <1>1, <1>5, DepartsFrom DEF Drops
  <2>2. sock[k].link \in {"open", "closing"} /\ sock[k].session.peers = peers
    BY <1>5, <2>1 DEF Departs, Drops, Speaking
  <2>3. /\ sock[k].session.idx \in DOMAIN peers /\ peers[sock[k].session.idx] = k
    BY <1>1, <2>2 DEF IInv, StampsMutual, NoSession
  <2>4. i = sock[k].session.idx /\ t # k
    BY <1>2, <1>3, <2>1, <2>3
  <2> QED
    BY <1>2, <1>4, <2>2, <2>4
<1>6. ASSUME PeerLeft(i) \in ToSet(sent'[t])
      PROVE  Departs(peers[i], peers) \/ Echo(t, i)
  <2>1. t # k /\ t \in ToSet(sock[k].session.peers) /\ i = sock[k].session.idx
    BY <1>4, <1>6
  <2>2. CASE sock[k].link = "broken"
    BY <2>1, <2>2 DEF Drops, Echo
  <2>3. CASE sock[k].link # "broken"
    <3>1. sock[k].link \in {"open", "closing"} /\ sock[k].session # NoSession
      BY <2>1, <2>3, NoneInNothing DEF Drops, Speaking, NoSession
    <3>2. peers = sock[k].session.peers /\ peers[i] = k
      BY <1>1, <2>1, <3>1 DEF IInv, StampsMutual
    <3> QED
      BY <2>3, <3>2 DEF Departs, Drops
  <2> QED
    BY <2>2, <2>3
<1> QED
  BY <1>5, <1>6

\* A member that drops out of a merge is announced to the others of that
\* merge under the index they know it by, and nobody else is, but for the
\* second word of a socket whose attachment could not be cleared.
THEOREM DeparturesReach == Spec => DepartureAnnounced
<1>1. DInv /\ [Next]_vars => [AnnouncedDepartures]_vars
  <2> SUFFICES ASSUME DInv, Next PROVE AnnouncedDepartures
    OBVIOUS
  <2>1. IInv
    BY DEF DInv
  <2> QED
    BY <2>1, RoutingSteps, KeepsAnnounces, DropAnnounces
<1>2. Spec => [][AnnouncedDepartures]_vars
  BY <1>1, DeparturesInvariant, PTL DEF Spec
<1> QED
  BY <1>2 DEF DepartureAnnounced, AnnouncedDepartures

=============================================================================
