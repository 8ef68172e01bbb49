-------------------------- MODULE RoomClientsProofs --------------------------
(***************************************************************************)
(* Proofs about the rooms server with its clients: whatever lobby tasks,   *)
(* drain tasks, machines and users do, for any number of clients, any ROMs *)
(* and libraries, and any number of failures and presses.                  *)
(***************************************************************************)
EXTENDS RoomClients, RoomMessagesProofs, WellFoundedInduction, NaturalsInduction

-----------------------------------------------------------------------------
(* Queues *)

UpMessage ==
  [type : {"setReady"}, ready : BOOLEAN] \cup [type : {"kick"}, seat : Nat]
  \cup [type : {"start", "create", "join", "leave", "close"}]

CommandMessage ==
  [type : {"setReady"}, ready : BOOLEAN] \cup [type : {"kick"}, seat : Nat]
  \cup [type : {"start", "boot", "dropped", "leave"}]

RosterMessage ==
  [type : {"roster"}, players : Seq(Player), idx : Nat, wireless : BOOLEAN]

\* What a mesh build sets aside.
StrayMessage ==
  RosterMessage \cup [type : {"starting"}, idx : Nat, roms : Seq(Rom)]
  \cup [type : {"error"}, kind : ErrorKind]

NewsMessage ==
  StrayMessage \cup [type : {"peerLeft"}, idx : Nat]
  \cup [type : {"entered"}, code : Code] \cup [type : {"closed"}]

EventMessage ==
  RosterMessage \cup [type : {"sessionReady"}, roms : Seq(Rom)]
  \cup [type : {"joined", "error", "starting", "mergeFailed", "fatal", "kicked"}]

LEMMA QueueSteps ==
  ASSUME NEW S, NEW queue \in [Socket -> Seq(S)], NEW s \in Socket
  PROVE  /\ \A m \in S : Post(queue, s, m) \in [Socket -> Seq(S)]
         /\ \A q \in Seq(S) : [queue EXCEPT ![s] = q] \in [Socket -> Seq(S)]
         /\ queue[s] # <<>> =>
              /\ Take(queue, s) \in [Socket -> Seq(S)]
              /\ Head(queue[s]) \in S /\ Tail(queue[s]) \in Seq(S)
<1>1. queue[s] \in Seq(S)
  OBVIOUS
<1>2. \A m \in S : Append(queue[s], m) \in Seq(S)
  BY <1>1, AppendProperties
<1>3. queue[s] # <<>> => Head(queue[s]) \in S /\ Tail(queue[s]) \in Seq(S)
  BY <1>1, HeadTailProperties
<1> QED
  BY <1>2, <1>3 DEF Post, Take

LEMMA ConcatType ==
  ASSUME NEW S, NEW a \in Seq(S), NEW b \in Seq(S)
  PROVE  a \o b \in Seq(S)
  BY ConcatProperties

LEMMA OneType ==
  ASSUME NEW S, NEW m \in S
  PROVE  <<m>> \in Seq(S) /\ <<>> \in Seq(S)
  OBVIOUS

LEMMA KindsOf ==
  ASSUME NEW S, NEW q \in Seq(S)
  PROVE  Kinds(q) \subseteq {m.type : m \in S}
<1>1. \A i \in DOMAIN q : q[i] \in S
  BY LenProperties, ElementOfSeq
<1> QED
  BY <1>1 DEF Kinds

LEMMA KindsWithin ==
  ASSUME NEW S, NEW K, \A m \in S : m.type \in K, NEW q \in Seq(S)
  PROVE  Kinds(q) \subseteq K
<1>1. Kinds(q) \subseteq {m.type : m \in S}
  BY KindsOf
<1> QED
  BY <1>1

\* The messages that clients make.
LEMMA PlainMessages ==
  /\ \A kind \in {"start", "create", "join", "leave", "close"} : Plain(kind) \in UpMessage
  /\ \A kind \in {"start", "boot", "dropped", "leave"} : Plain(kind) \in CommandMessage
  /\ \A kind \in {"joined", "error", "starting", "mergeFailed", "fatal", "kicked"} :
       Plain(kind) \in EventMessage
  /\ \A b \in BOOLEAN : Ready(b) \in UpMessage /\ Ready(b) \in CommandMessage
  /\ \A seat \in Nat : Kick(seat) \in CommandMessage
  /\ Closed \in NewsMessage
  BY DEF Plain, Ready, Kick, Closed, UpMessage, CommandMessage, EventMessage, NewsMessage

\* What a client asks goes up as it is; a roster is shown as it came.
LEMMA Forwarded ==
  /\ \A m \in CommandMessage : m.type \in Asks => m \in UpMessage
  /\ \A m \in NewsMessage : m.type = "roster" => m \in RosterMessage
  /\ \A m \in EventMessage : m.type = "roster" => m \in RosterMessage
  /\ \A m \in EventMessage : m.type = "sessionReady" => m.roms \in Seq(Rom)
  /\ \A m \in NewsMessage : m.type = "starting" => m.roms \in Seq(Rom)
  /\ \A m \in NewsMessage : m.type \in {"roster", "starting", "error"} => m \in StrayMessage
  /\ RosterMessage \subseteq EventMessage /\ StrayMessage \subseteq NewsMessage
  BY DEF CommandMessage, UpMessage, Asks, NewsMessage, StrayMessage, RosterMessage,
         EventMessage

-----------------------------------------------------------------------------
(* What the server tells a client *)

SpokenKinds == {"entered", "roster", "starting", "peerLeft", "error"}

\* Nothing but these is said, and a roster is of the hearer's room as it is
\* now, with the hearer's place in it.
Tidings ==
  \A t \in Socket : \A m \in ToSet(sent'[t]) :
    /\ m.type \in SpokenKinds
    /\ m.type = "roster" =>
         /\ Placed(t)'
         /\ m = Roster(room'[sock'[t].code], Position(room'[sock'[t].code], t))

\* A socket is sent the roster r if it is in it, and what is no roster.
TellsRoster(r) ==
  \A t \in Socket : \A m \in ToSet(sent'[t]) :
    /\ m.type \in SpokenKinds
    /\ m.type = "roster" => In(r, t) /\ m = Roster(r, Position(r, t))

LEMMA NothingIsTold ==
  ASSUME sent' = Nothing
  PROVE  Tidings
  BY NoneInNothing DEF Tidings

LEMMA ErrorIsTold ==
  ASSUME NEW u, NEW kind, sent' = Reply(u, <<Error(kind)>>)
  PROVE  Tidings
<1>1. \A t \in Socket : ToSet(sent'[t]) \subseteq {Error(kind)}
  BY ReplySet
<1> QED
  BY <1>1, MessageTypes DEF Tidings, SpokenKinds

\* Who is told the roster of the record that was written is told the truth.
LEMMA WrittenIsTold ==
  ASSUME IInv', NEW c, NEW r, NEW q \in Room, room' = Put(c, q),
         q.players = r.players, q.wireless = r.wireless, TellsRoster(r)
  PROVE  Tidings
<1> SUFFICES ASSUME NEW t \in Socket, NEW m \in ToSet(sent'[t]), m.type = "roster"
             PROVE  Placed(t)' /\ m = Roster(room'[sock'[t].code],
                                             Position(room'[sock'[t].code], t))
  BY DEF Tidings, TellsRoster
<1>1. In(r, t) /\ m = Roster(r, Position(r, t))
  BY DEF TellsRoster
<1>2. c \in DOMAIN room' /\ room'[c] = q
  BY DEF Put
<1>3. In(q, t) /\ Roster(q, Position(q, t)) = Roster(r, Position(r, t))
  BY <1>1 DEF In, Position, Roster
<1>4. sock'[t].code = c
  BY <1>2, <1>3 DEF IInv, MembershipCoherent
<1> QED
  BY <1>1, <1>2, <1>3, <1>4 DEF Placed

\* The parts of what is sent in a room.
LEMMA PartsTell ==
  ASSUME NEW r \in Room, NEW t \in Socket, NEW a \in Seq(Message),
         \A m \in ToSet(a) : m.type \in SpokenKinds \ {"roster"}
  PROVE  /\ \A m \in ToSet(a \o RosterFor(r, t)) :
              /\ m.type \in SpokenKinds
              /\ m.type = "roster" => In(r, t) /\ m = Roster(r, Position(r, t))
         /\ \A m \in ToSet(RosterFor(r, t) \o a) :
              /\ m.type \in SpokenKinds
              /\ m.type = "roster" => In(r, t) /\ m = Roster(r, Position(r, t))
<1>1. /\ ToSet(a \o RosterFor(r, t)) = ToSet(a) \cup ToSet(RosterFor(r, t))
      /\ ToSet(RosterFor(r, t) \o a) = ToSet(a) \cup ToSet(RosterFor(r, t))
  BY RosterForType, BothInConcat
<1>2. \A m \in ToSet(RosterFor(r, t)) :
        m.type = "roster" /\ In(r, t) /\ m = Roster(r, Position(r, t))
  BY RosterForSet, MessageTypes
<1> QED
  BY <1>1, <1>2 DEF SpokenKinds

LEMMA CreateTells ==
  ASSUME IInv', NEW s \in Socket, NEW c \in Code, NEW rom \in Rom,
         NEW w \in BOOLEAN, CreateRoom(s, c, rom, w)
  PROVE  Tidings
<1> DEFINE r    == NewRoom(s, rom, w)
           msgs == <<Entered(c)>> \o RosterFor(r, s)
<1>1. r \in Room /\ \A t : In(r, t) <=> t = s
  BY NewRoomProperties, NewRoomListed
<1>2. room' = Put(c, r) /\ sent' = Reply(s, msgs)
  BY DEF CreateRoom
<1>3. <<Entered(c)>> \in Seq(Message)
      /\ \A m \in ToSet(<<Entered(c)>>) : m.type \in SpokenKinds \ {"roster"}
  BY SimpleMessages, OneMessage, OneInOne, MessageTypes DEF SpokenKinds
<1> HIDE DEF r
<1>4. \A m \in ToSet(msgs) :
        /\ m.type \in SpokenKinds
        /\ m.type = "roster" => In(r, s) /\ m = Roster(r, Position(r, s))
  BY <1>1, <1>3, PartsTell
<1> HIDE DEF msgs
<1>5. \A t \in Socket : sent'[t] = <<>> \/ (t = s /\ sent'[t] = msgs)
  BY <1>2 DEF Reply, Heard, Nothing
<1>6. TellsRoster(r)
  BY <1>4, <1>5, NoneInNothing DEF TellsRoster
<1> QED
  BY <1>1, <1>2, <1>6, WrittenIsTold

LEMMA JoinTells ==
  ASSUME IInv, IInv', NEW s \in Socket, NEW c \in Code, NEW rom \in Rom,
         JoinRoom(s, c, rom)
  PROVE  Tidings
<1> DEFINE r     == Seated(room[c], s, rom)
           hi(t) == IF t = s THEN <<Entered(c)>> ELSE <<>>
           out   == [t \in Socket |-> hi(t) \o RosterFor(r, t)]
<1>1. r \in Room /\ room' = Put(c, r) /\ sent' = Heard(out)
  BY StoredRoom, SeatedProperties DEF JoinRoom, IInv
<1>2. \A t \in Socket : hi(t) \in Seq(Message)
        /\ \A m \in ToSet(hi(t)) : m.type \in SpokenKinds \ {"roster"}
  <2>1. \A t \in Socket : hi(t) \in Seq(Message) /\ ToSet(hi(t)) \subseteq {Entered(c)}
    BY SimpleMessages, OneMessage, NoMessages, OneInOne, NoneInNothing
  <2> HIDE DEF hi
  <2> QED
    BY <2>1, MessageTypes DEF SpokenKinds
<1> HIDE DEF r, hi
<1>3. \A t \in Socket : \A m \in ToSet(out[t]) :
        /\ m.type \in SpokenKinds
        /\ m.type = "roster" => In(r, t) /\ m = Roster(r, Position(r, t))
  BY <1>1, <1>2, PartsTell
<1> HIDE DEF out
<1>4. TellsRoster(r)
  BY <1>1, <1>3, HeardSet DEF TellsRoster
<1> QED
  BY <1>1, <1>4, WrittenIsTold

LEMMA DepartureTells ==
  ASSUME IInv, IInv', NEW s \in Socket, NEW link, Depart(s, link)
  PROVE  Tidings
<1> DEFINE c    == sock[s].code
           left == Without(room[c], Position(room[c], s))
           bye  == [t \in Socket |-> PeerLeftFor(s, t)]
           out  == [t \in Socket |-> PeerLeftFor(s, t) \o RosterFor(left, t)]
<1>1. \A t \in Socket : PeerLeftFor(s, t) \in Seq(Message)
        /\ \A m \in ToSet(PeerLeftFor(s, t)) : m.type \in SpokenKinds \ {"roster"}
  <2>1. \A t \in Socket :
          ToSet(PeerLeftFor(s, t)) \subseteq {PeerLeft(sock[s].session.idx)}
    BY PeerLeftForSet
  <2>2. \A t \in Socket : PeerLeftFor(s, t) \in Seq(Message)
    BY PeerLeftForType DEF IInv
  <2> QED
    BY <2>1, <2>2, MessageTypes DEF SpokenKinds
<1>2. CASE sent' = Heard(bye)
  <2>1. \A t \in Socket : \A m \in ToSet(bye[t]) : m.type \in SpokenKinds \ {"roster"}
    BY <1>1
  <2> HIDE DEF bye
  <2> QED
    BY <1>2, <2>1, HeardSet DEF Tidings
<1>3. CASE Placed(s) /\ room' = Put(c, left) /\ sent' = Heard(out)
  <2>1. left \in Room
    BY <1>3, StoredRoom, RoomFields, WithoutProperties DEF IInv, Placed
  <2> HIDE DEF left, c
  <2>2. \A t \in Socket : \A m \in ToSet(out[t]) :
          /\ m.type \in SpokenKinds
          /\ m.type = "roster" => In(left, t) /\ m = Roster(left, Position(left, t))
    BY <1>1, <2>1, PartsTell
  <2> HIDE DEF out
  <2>3. TellsRoster(left)
    BY <1>3, <2>2, HeardSet DEF TellsRoster
  <2> QED
    BY <1>3, <2>1, <2>3, WrittenIsTold
<1> QED
  BY <1>2, <1>3 DEF Depart

LEMMA ReadyTells ==
  ASSUME IInv, IInv', NEW s \in Socket, NEW b \in BOOLEAN, SetReady(s, b)
  PROVE  Tidings
<1> DEFINE c    == sock[s].code
           k    == Position(room[c], s)
           r    == Asserted(room[c], k, b)
           wave == [t \in Socket |-> RosterFor(r, t) \o StartingFor(r, t)]
           news == [t \in Socket |-> RosterFor(r, t)]
<1>1. room[c] \in Room /\ k \in DOMAIN room[c].players
  BY StoredRoom, RoomFields DEF IInv, SetReady, Placed
<1>2. \/ room' = Put(c, Merged(r)) /\ sent' = Heard(wave)
      \/ room' = Put(c, r) /\ sent' = Heard(news)
  BY DEF SetReady
<1> HIDE DEF c, k
<1>3. r \in Room
  BY <1>1, AssertedProperties
<1> HIDE DEF r
<1>4. /\ Merged(r) \in Room /\ Merged(r).players = r.players
      /\ Merged(r).wireless = r.wireless
  BY <1>3, MergedProperties
<1>5. ASSUME NEW t \in Socket
      PROVE  /\ \A m \in ToSet(wave[t]) :
                  /\ m.type \in SpokenKinds
                  /\ m.type = "roster" => In(r, t) /\ m = Roster(r, Position(r, t))
             /\ \A m \in ToSet(news[t]) :
                  /\ m.type \in SpokenKinds
                  /\ m.type = "roster" => In(r, t) /\ m = Roster(r, Position(r, t))
  <2>1. StartingFor(r, t) \in Seq(Message)
        /\ \A m \in ToSet(StartingFor(r, t)) : m.type \in SpokenKinds \ {"roster"}
    BY <1>3, StartingForType, StartingForSet, MessageTypes DEF SpokenKinds
  <2>2. \A m \in ToSet(RosterFor(r, t)) :
          /\ m.type \in SpokenKinds
          /\ m.type = "roster" => In(r, t) /\ m = Roster(r, Position(r, t))
    BY RosterForSet, MessageTypes DEF SpokenKinds
  <2> QED
    BY <1>3, <2>1, <2>2, PartsTell
<1> HIDE DEF wave, news
<1>6. TellsRoster(r)
  BY <1>2, <1>5, HeardSet DEF TellsRoster
<1> QED
  BY <1>2, <1>3, <1>4, <1>6, WrittenIsTold

LEMMA StartTells ==
  ASSUME IInv, NEW s \in Socket, StartRoom(s)
  PROVE  Tidings
<1> DEFINE r    == room[sock[s].code]
           wave == [t \in Socket |-> StartingFor(r, t)]
<1>1. sent' = Heard(wave)
  BY DEF StartRoom
<1>2. \A t \in Socket : \A m \in ToSet(wave[t]) : m.type = "starting"
  BY StartingForSet, MessageTypes
<1> HIDE DEF wave
<1> QED
  BY <1>1, <1>2, HeardSet DEF Tidings, SpokenKinds

LEMMA KickTellsAll ==
  ASSUME IInv, IInv', NEW s \in Socket, NEW seat \in Nat, NEW link,
         KickPlayer(s, seat, link)
  PROVE  Tidings
<1> DEFINE c      == sock[s].code
           r      == room[c]
           target == CHOOSE i \in DOMAIN r.players : r.players[i].seat = seat
           k      == r.players[target].id
           left   == Without(r, target)
           told(t) == IF ~Speaking(k) THEN <<>>
                      ELSE IF t = k THEN <<Error("kicked")>>
                      ELSE PeerLeftFor(k, t)
           out    == [t \in Socket |-> told(t) \o RosterFor(left, t)]
<1>1. r \in Room /\ target \in DOMAIN r.players
  BY StoredRoom DEF IInv, KickPlayer, Placed
<1>2. left \in Room /\ k \in Socket
  BY <1>1, WithoutProperties, RoomFields
<1>3. room' = Put(c, left) /\ sent' = Heard(out)
  BY DEF KickPlayer
<1> HIDE DEF left, k, c
<1>4. \A t \in Socket : told(t) \in {<<>>, <<Error("kicked")>>, PeerLeftFor(k, t)}
  OBVIOUS
<1> HIDE DEF told
<1>5. ASSUME NEW t \in Socket
      PROVE  \A m \in ToSet(out[t]) :
               /\ m.type \in SpokenKinds
               /\ m.type = "roster" => In(left, t) /\ m = Roster(left, Position(left, t))
  <2>1. \A x \in {<<>>, <<Error("kicked")>>, PeerLeftFor(k, t)} :
          x \in Seq(Message) /\ \A m \in ToSet(x) : m.type \in SpokenKinds \ {"roster"}
    <3>1. <<>> \in Seq(Message) /\ ToSet(<<>>) = {}
      BY NoMessages, NoneInNothing
    <3>2. <<Error("kicked")>> \in Seq(Message)
          /\ ToSet(<<Error("kicked")>>) = {Error("kicked")}
      BY ErrorMessages, OneInOne DEF ErrorKind
    <3>3. PeerLeftFor(k, t) \in Seq(Message)
          /\ ToSet(PeerLeftFor(k, t)) \subseteq {PeerLeft(sock[k].session.idx)}
      BY <1>2, PeerLeftForType, PeerLeftForSet DEF IInv
    <3>4. /\ \A m \in ToSet(<<Error("kicked")>>) : m.type = "error"
          /\ \A m \in ToSet(PeerLeftFor(k, t)) : m.type = "peerLeft"
      BY <3>2, <3>3, MessageTypes
    <3> QED
      BY <3>1, <3>2, <3>3, <3>4 DEF SpokenKinds
  <2>2. told(t) \in Seq(Message) /\ \A m \in ToSet(told(t)) : m.type \in SpokenKinds \ {"roster"}
    BY <1>4, <2>1
  <2> QED
    BY <1>2, <2>2, PartsTell
<1> HIDE DEF out
<1>6. TellsRoster(left)
  BY <1>3, <1>5, HeardSet DEF TellsRoster
<1> QED
  BY <1>2, <1>3, <1>6, WrittenIsTold

-----------------------------------------------------------------------------
(* The types of the composition *)

TaskType ==
  [phase : {"off", "idle", "mesh", "boot", "exchange", "pause", "done"},
   stray : Seq(StrayMessage), dance : BOOLEAN, roms : Seq(Rom), lost : BOOLEAN]

PanelType ==
  [here : BOOLEAN, code : BOOLEAN, players : Seq(Player), me : Nat, starting : BOOLEAN]

MachineType ==
  [kind : {"local", "netplay", "none"}, paused : BOOLEAN, unplug : BOOLEAN,
   game : {"own", "other", "none"}]

Budgeted == upsets \in 0 .. MaxUpsets /\ presses \in 0 .. MaxPresses

ClientTypes ==
  /\ peripheral \in [Socket -> BOOLEAN]
  /\ up \in [Socket -> Seq(UpMessage)]
  /\ down \in [Socket -> Seq(NewsMessage)]
  /\ lobby \in [Socket -> TaskType]
  /\ cmds \in [Socket -> Seq(CommandMessage)]
  /\ events \in [Socket -> Seq(EventMessage)]
  /\ drain \in [Socket -> {"loop", "unplugging", "reading", "over"}]
  /\ ui \in [Socket -> PanelType]
  /\ machine \in [Socket -> MachineType]
  /\ Budgeted

\* A panel that was left shows nothing, and so does one whose drain is over.
PanelsClear ==
  \A s \in Socket : ~ui[s].here \/ drain[s] = "over" => ui[s] = NoUi

\* The whole invariant: the server's, what it last said, and the clients'.
CInv ==
  /\ IInv /\ SentOK
  /\ ClientTypes /\ PanelsClear /\ OverMeansRunning

-----------------------------------------------------------------------------
(* The server's part of a step *)

\* The server makes a step of its own, or none.
ServerMoves == Next /\ IInv' /\ sent' \in Out /\ Tidings

LEMMA HeldSeats ==
  ASSUME IInv, NEW s \in Socket, Placed(s), NEW i \in DOMAIN room[sock[s].code].players
  PROVE  room[sock[s].code].players[i].seat \in Seats
<1> DEFINE c == sock[s].code
<1>1. c \in DOMAIN room /\ room[c] \in Room
  BY StoredRoom DEF Placed, IInv
<1>2. /\ room[c].players[i].seat < room[c].nextSeat
      /\ room[c].players[i].seat \in Nat /\ room[c].nextSeat \in Nat
  BY <1>1, RoomFields DEF IInv, MembershipCoherent, WellListed
<1>3. room[c].players[i].seat \in 0 .. room[c].nextSeat
  BY <1>2
<1> QED
  BY <1>1, <1>3 DEF Seats

\* A refusal of a kick is the same for every seat that is refused.
LEMMA RefusalIsStep ==
  ASSUME IInv, NEW s \in Socket, NEW seat, RefuseKick(s, seat)
  PROVE  Next
<1> DEFINE c == sock[s].code
           n == room[c].nextSeat
<1>1. c \in DOMAIN room /\ room[c] \in Room
  BY StoredRoom DEF RefuseKick, Placed, IInv
<1>2. /\ n \in Nat
      /\ \A i \in DOMAIN room[c].players :
           room[c].players[i].seat \in Nat /\ room[c].players[i].seat < n
  BY <1>1, RoomFields DEF IInv, MembershipCoherent, WellListed
<1>3. n \in Seats
  BY <1>1, <1>2 DEF Seats
<1>4. ~\E i \in DOMAIN room[c].players \ {1} : room[c].players[i].seat = n
  BY <1>2
<1>5. RefuseKick(s, n)
  BY <1>4 DEF RefuseKick
<1> QED
  BY <1>3, <1>5 DEF Next, Member

LEMMA ServerStep ==
  ASSUME IInv, ClientTypes, NEW s \in Socket, ServerHandles(s)
  PROVE  ServerMoves \/ ServerIdle
<1> DEFINE m == Head(up[s])
<1>1. m \in UpMessage
  BY QueueSteps DEF ServerHandles, ClientTypes
<1>2. /\ m.type = "setReady" => m.ready \in BOOLEAN
      /\ m.type = "kick" => m.seat \in Nat
  BY <1>1 DEF UpMessage
<1>3. Entering(s, m) \/ Asking(s, m) \/ Going(s, m) \/ Unheard(s, m)
  BY DEF ServerHandles
<1> HIDE DEF m
<1>4. ASSUME Next, IInv' => Tidings, Entry(s) \/ Member(s) \/ Environment(s),
             sent' \in Out
      PROVE  ServerMoves
  <2>1. IInv'
    BY <1>4, StepIInv
  <2> QED
    BY <1>4, <2>1 DEF ServerMoves
<1>5. CASE Entering(s, m)
  <2>1. OwnRom[s] \in Rom /\ peripheral[s] \in BOOLEAN
    BY LibraryAssumption DEF ClientTypes
  <2>2. ASSUME NEW c \in Code, CreateRoom(s, c, OwnRom[s], peripheral[s])
        PROVE  ServerMoves
    <3>1. Entry(s) /\ Next
      BY <2>1, <2>2 DEF Entry, Next
    <3> QED
      BY <1>4, <2>1, <2>2, <3>1, EntrySent, CreateTells
  <2>3. ASSUME NEW c \in Code, JoinRoom(s, c, OwnRom[s])
        PROVE  ServerMoves
    <3>1. Entry(s) /\ Next
      BY <2>1, <2>3 DEF Entry, Next
    <3> QED
      BY <1>4, <2>1, <2>3, <3>1, EntrySent, JoinTells
  <2>4. ASSUME NEW c \in Code, RefuseJoin(s, c)
        PROVE  ServerMoves
    <3>1. Entry(s) /\ Next
      BY <2>4 DEF Entry, RefuseEntry, Next
    <3>2. Tidings
      BY <2>4, ErrorIsTold DEF RefuseJoin
    <3> QED
      BY <1>4, <3>1, <3>2, EntrySent
  <2> QED
    BY <1>5, <2>2, <2>3, <2>4 DEF Entering
<1>6. CASE Asking(s, m)
  <2>1. ASSUME m.type = "setReady", SetReady(s, m.ready)
        PROVE  ServerMoves
    <3>1. Member(s) /\ Next
      BY <1>2, <2>1 DEF Member, Next
    <3> QED
      BY <1>2, <1>4, <2>1, <3>1, MemberSent, ReadyTells
  <2>2. CASE StartRoom(s)
    <3>1. Member(s) /\ Next
      BY <2>2 DEF Member, Next
    <3> QED
      BY <1>4, <2>2, <3>1, MemberSent, StartTells
  <2>3. CASE RefuseStart(s)
    <3>1. Member(s) /\ Next
      BY <2>3 DEF Member, Next
    <3>2. Tidings
      BY <2>3, ErrorIsTold DEF RefuseStart
    <3> QED
      BY <1>4, <3>1, <3>2, MemberSent
  <2>4. ASSUME m.type = "kick", KickPlayer(s, m.seat, "closing")
        PROVE  ServerMoves
    <3>1. m.seat \in Seats
      BY <2>4, HeldSeats DEF KickPlayer
    <3>2. Member(s) /\ Next
      BY <2>4, <3>1 DEF Member, Next
    <3> QED
      BY <1>2, <1>4, <2>4, <3>2, MemberSent, KickTellsAll
  <2>5. ASSUME m.type = "kick", RefuseKick(s, m.seat)
        PROVE  ServerMoves
    <3>1. Next
      BY <2>5, RefusalIsStep
    <3>2. sent' = Reply(s, <<Error("notHost")>>) \/ sent' = Reply(s, <<Error("malformed")>>)
      BY <2>5 DEF RefuseKick
    <3>3. Tidings
      BY <3>2, ErrorIsTold
    <3>4. sent' \in Out
      BY <3>2, ErrorMessages, ReplyType DEF ErrorKind
    <3>5. IInv'
      BY <3>1, StepIInv
    <3> QED
      BY <3>1, <3>3, <3>4, <3>5 DEF ServerMoves
  <2>6. CASE IgnoreMessage(s)
    <3>1. Member(s) /\ Next
      BY <2>6 DEF Member, Next
    <3>2. Tidings
      BY <2>6, NothingIsTold DEF IgnoreMessage
    <3> QED
      BY <1>4, <3>1, <3>2, MemberSent
  <2> QED
    BY <1>6, <2>1, <2>2, <2>3, <2>4, <2>5, <2>6 DEF Asking
<1>7. CASE Going(s, m)
  <2>1. ASSUME NEW link, Depart(s, link), Leave(s, "closing") \/ CloseEvent(s)
        PROVE  ServerMoves
    <3>1. Next
      BY <2>1 DEF Next, Member, Environment, Exits
    <3>2. sent' \in Out
      BY <2>1, DepartSent
    <3>3. IInv'
      BY <3>1, StepIInv
    <3>4. Tidings
      BY <2>1, <3>3, DepartureTells
    <3> QED
      BY <3>1, <3>2, <3>3, <3>4 DEF ServerMoves
  <2> QED
    BY <1>7, <2>1 DEF Going, Leave, CloseEvent
<1>8. CASE Unheard(s, m)
  BY <1>8 DEF Unheard
<1> QED
  BY <1>3, <1>5, <1>6, <1>7, <1>8

LEMMA BreakStep ==
  ASSUME IInv, NEW s \in Socket, ErrorEvent(s, "closing") \/ LoseSocket(s)
  PROVE  ServerMoves
<1>1. Next
  BY DEF Next, Environment, Exits
<1>2. IInv'
  BY <1>1, StepIInv
<1>3. CASE ErrorEvent(s, "closing")
  BY <1>1, <1>2, <1>3, DepartSent, DepartureTells DEF ErrorEvent, ServerMoves
<1>4. CASE LoseSocket(s)
  <2>1. sent' = Nothing
    BY <1>4 DEF LoseSocket
  <2> QED
    BY <1>1, <1>2, <2>1, NothingIsTold, NoMessages DEF ServerMoves
<1> QED
  BY <1>3, <1>4

\* A connection that opens is greeted, and no roster is sent.
LEMMA ConnectStepIs ==
  ASSUME IInv, NEW s \in Socket, Connect(s)
  PROVE  /\ Next /\ IInv' /\ sent' \in Out
         /\ \A t \in Socket : News(t) = <<>>
<1>1. Next
  BY DEF Next, Environment
<1>2. IInv'
  BY <1>1, StepIInv
<1>3. sent' = [Nothing EXCEPT ![s] = <<Hello>>]
  BY DEF Connect
<1>4. <<Hello>> \in Seq(Message)
  BY SimpleMessages, OneMessage
<1>5. sent' \in Out
  BY <1>3, <1>4, NoMessages DEF Out
<1>6. \A t \in Socket : sent'[t] \in {<<Hello>>, <<>>}
  BY <1>3 DEF Nothing
<1> QED
  BY <1>1, <1>2, <1>5, <1>6 DEF News

-----------------------------------------------------------------------------
(* Types, step by step *)

\* What is said to a client is what it may find in flight.
LEMMA NewsType ==
  ASSUME sent' \in Out, Tidings, NEW t \in Socket
  PROVE  News(t) \in Seq(NewsMessage) /\ News(t) = sent'[t]
<1>1. sent'[t] \in Seq(Message) /\ sent'[t] \in Seq(ToSet(sent'[t]))
  <2>1. sent'[t] \in Seq(Message)
    BY DEF Out
  <2>2. /\ Len(sent'[t]) \in Nat /\ DOMAIN sent'[t] = 1 .. Len(sent'[t])
    BY <2>1, LenProperties
  <2> QED
    BY <2>1, <2>2, IsASeq, LenProperties DEF ToSet
<1>2. ToSet(sent'[t]) \subseteq NewsMessage
  <2>1. ToSet(sent'[t]) \subseteq Message
    <3>1. \A i \in DOMAIN sent'[t] : sent'[t][i] \in Message
      BY <1>1, LenProperties, ElementOfSeq
    <3> QED
      BY <3>1 DEF ToSet
  <2> QED
    BY <2>1 DEF Tidings, SpokenKinds, Message, NewsMessage, StrayMessage, RosterMessage
<1>3. sent'[t] \in Seq(NewsMessage)
  BY <1>1, <1>2, SeqMonotonic
<1>4. sent'[t] # <<Hello>>
  <2>1. ASSUME sent'[t] = <<Hello>> PROVE FALSE
    <3>1. Hello \in ToSet(sent'[t])
      BY <2>1, OneInOne
    <3> QED
      BY <3>1, MessageTypes DEF Tidings, SpokenKinds
  <2> QED
    BY <2>1
<1> QED
  BY <1>3, <1>4 DEF News

LEMMA FlowType ==
  ASSUME down \in [Socket -> Seq(NewsMessage)], Flow,
         \A t \in Socket : News(t) \in Seq(NewsMessage)
  PROVE  down' \in [Socket -> Seq(NewsMessage)]
<1> DEFINE end(t) == IF Ended(t) THEN <<Closed>> ELSE <<>>
           more(t) == down[t] \o News(t) \o end(t)
<1>1. \A t \in Socket : end(t) \in Seq(NewsMessage)
  BY PlainMessages, OneType
<1> HIDE DEF end
<1>2. \A t \in Socket : more(t) \in Seq(NewsMessage)
  BY <1>1, ConcatType
<1>3. down' = [t \in Socket |-> IF lobby[t].phase = "done" THEN <<>> ELSE more(t)]
  BY DEF Flow, end
<1> HIDE DEF more
<1>4. <<>> \in Seq(NewsMessage)
  BY PlainMessages, OneType
<1> QED
  BY <1>2, <1>3, <1>4

\* Every step of the composition is a step of the server or leaves it as it is.
LEMMA ServerPart ==
  ASSUME IInv, SentOK, ServerMoves \/ ServerIdle
  PROVE  IInv' /\ SentOK'
<1>1. CASE ServerMoves
  BY <1>1 DEF ServerMoves, SentOK
<1>2. CASE ServerIdle
  BY <1>2, UnchangedStep, NoMessages DEF ServerIdle, SentOK
<1> QED
  BY <1>1, <1>2

LEMMA BudgetKept ==
  ASSUME Budgeted, \/ Calm
                   \/ \E kind \in UpsetKind : Upset(kind)
                   \/ UNCHANGED <<upsets, presses>>
  PROVE  Budgeted'
<1>1. CASE \E kind \in UpsetKind : Upset(kind)
  <2>1. upsets < MaxUpsets /\ upsets' = upsets + 1 /\ presses' = presses
    BY <1>1 DEF Upset
  <2> QED
    BY <2>1, BoundsAssumption DEF Budgeted
<1>2. CASE UNCHANGED <<upsets, presses>>
  BY <1>2 DEF Budgeted
<1> QED
  BY <1>1, <1>2 DEF Calm

LEMMA EmitType ==
  ASSUME events \in [Socket -> Seq(EventMessage)], NEW s \in Socket, NEW e \in EventMessage
  PROVE  Emit(s, e) \in [Socket -> Seq(EventMessage)]
  BY QueueSteps DEF Emit

LEMMA CommandType ==
  ASSUME cmds \in [Socket -> Seq(CommandMessage)], NEW s \in Socket,
         NEW m \in CommandMessage
  PROVE  Command(s, m) \in [Socket -> Seq(CommandMessage)]
  BY QueueSteps DEF Command

\* A task that enters another phase of its life.
LEMMA PhaseTyped ==
  ASSUME ClientTypes, NEW s \in Socket,
         NEW phase \in {"off", "idle", "mesh", "boot", "exchange", "pause", "done"},
         lobby' = [lobby EXCEPT ![s].phase = phase]
  PROVE  lobby' \in [Socket -> TaskType]
<1>1. lobby \in [Socket -> TaskType]
  BY DEF ClientTypes
<1>2. [lobby[s] EXCEPT !.phase = phase] \in TaskType
  BY <1>1 DEF TaskType
<1>3. lobby' = [lobby EXCEPT ![s] = [lobby[s] EXCEPT !.phase = phase]]
  OBVIOUS
<1> QED
  BY <1>1, <1>2, <1>3

\* The end of the task, with or without a farewell.
LEMMA ReturnsType ==
  ASSUME ClientTypes, NEW s \in Socket, NEW goodbye \in Seq(UpMessage), Returns(s, goodbye)
  PROVE  /\ lobby' \in [Socket -> TaskType] /\ up' \in [Socket -> Seq(UpMessage)]
         /\ down' \in [Socket -> Seq(NewsMessage)]
         /\ cmds' \in [Socket -> Seq(CommandMessage)]
<1>1. <<Plain("close")>> \in Seq(UpMessage)
  BY PlainMessages, OneType
<1>2. up[s] \o goodbye \o <<Plain("close")>> \in Seq(UpMessage)
  BY <1>1, ConcatType DEF ClientTypes
<1>3. Task("done") \in TaskType
  <2>1. <<>> \in Seq(StrayMessage) /\ <<>> \in Seq(Rom)
    BY EmptySeq
  <2> QED
    BY <2>1 DEF Task, TaskType
<1>4. <<>> \in Seq(NewsMessage) /\ <<>> \in Seq(CommandMessage)
  BY EmptySeq
<1> QED
  BY <1>2, <1>3, <1>4 DEF Returns, ClientTypes

\* Hearing a message of the server.
LEMMA HearsType ==
  ASSUME ClientTypes, NEW s \in Socket, NEW m \in NewsMessage, NEW after \in TaskType,
         NEW rest \in Seq(NewsMessage), Hears(s, m, after, rest)
  PROVE  /\ lobby' \in [Socket -> TaskType] /\ up' \in [Socket -> Seq(UpMessage)]
         /\ down' \in [Socket -> Seq(NewsMessage)]
         /\ cmds' \in [Socket -> Seq(CommandMessage)]
         /\ events' \in [Socket -> Seq(EventMessage)]
<1> DEFINE Live2(e, next) == /\ events' = e
                             /\ lobby' = [lobby EXCEPT ![s] = next]
                             /\ down' = [down EXCEPT ![s] = rest]
                             /\ UNCHANGED <<up, cmds>>
           meshing == [after EXCEPT !.phase = "mesh", !.roms = m.roms, !.lost = FALSE,
                                    !.dance = FALSE]
<1>1. /\ Plain("joined") \in EventMessage /\ Plain("error") \in EventMessage
      /\ Plain("starting") \in EventMessage /\ Plain("fatal") \in EventMessage
      /\ Plain("kicked") \in EventMessage
  BY PlainMessages
<1>2. \/ \E e \in EventMessage : Live2(Emit(s, e), after)
      \/ Live2(events, after)
      \/ m.type = "starting" /\ Live2(Emit(s, Plain("starting")), meshing)
      \/ Dies(s, "fatal") \/ Dies(s, "kicked")
  <2>1. m.type = "roster" => m \in EventMessage
    BY Forwarded
  <2> HIDE DEF meshing
  <2> QED
    BY <1>1, <2>1 DEF Hears, meshing
<1>3. ASSUME NEW e \in [Socket -> Seq(EventMessage)], NEW next \in TaskType, Live2(e, next)
      PROVE  /\ lobby' \in [Socket -> TaskType] /\ up' \in [Socket -> Seq(UpMessage)]
             /\ down' \in [Socket -> Seq(NewsMessage)]
             /\ cmds' \in [Socket -> Seq(CommandMessage)]
             /\ events' \in [Socket -> Seq(EventMessage)]
  BY <1>3 DEF ClientTypes
<1>4. \A e \in EventMessage : Emit(s, e) \in [Socket -> Seq(EventMessage)]
  BY EmitType DEF ClientTypes
<1>5. m.type = "starting" => meshing \in TaskType
  BY Forwarded DEF TaskType
<1>6. ASSUME NEW why \in {"fatal", "kicked"}, Dies(s, why)
      PROVE  /\ lobby' \in [Socket -> TaskType] /\ up' \in [Socket -> Seq(UpMessage)]
             /\ down' \in [Socket -> Seq(NewsMessage)]
             /\ cmds' \in [Socket -> Seq(CommandMessage)]
             /\ events' \in [Socket -> Seq(EventMessage)]
  BY <1>1, <1>4, <1>6, EmptySeq, ReturnsType DEF Dies
<1>7. events \in [Socket -> Seq(EventMessage)]
  BY DEF ClientTypes
<1> HIDE DEF Live2, meshing
<1> QED
  BY <1>1, <1>2, <1>3, <1>4, <1>5, <1>6, <1>7

LEMMA PlayerRests ==
  ASSUME PanelsClear, OverMeansRunning, UNCHANGED <<drain, ui, machine>>
  PROVE  PanelsClear' /\ OverMeansRunning'
  BY DEF PanelsClear, OverMeansRunning, Frozen

LEMMA HandlesHolds ==
  ASSUME CInv, NEW s \in Socket, ServerHandles(s)
  PROVE  CInv'
<1>1. ServerMoves \/ ServerIdle
  BY ServerStep DEF CInv
<1>2. \A t \in Socket : News(t) \in Seq(NewsMessage)
  <2>1. CASE ServerMoves
    BY <2>1, NewsType DEF ServerMoves
  <2>2. CASE ServerIdle
    <3>1. \A t \in Socket : News(t) = <<>>
      BY <2>2, NoneInNothing DEF News, ServerIdle
    <3> QED
      BY <3>1, EmptySeq
  <2> QED
    BY <1>1, <2>1, <2>2
<1>3. down' \in [Socket -> Seq(NewsMessage)]
  BY <1>2, FlowType DEF ServerHandles, CInv, ClientTypes
<1>4. up' \in [Socket -> Seq(UpMessage)]
  BY QueueSteps DEF ServerHandles, CInv, ClientTypes
<1>5. UNCHANGED <<lobby, cmds, events, drain, ui, machine, peripheral, upsets, presses>>
  BY DEF ServerHandles, tasks, player, budget
<1>6. ClientTypes'
  BY <1>3, <1>4, <1>5 DEF CInv, ClientTypes, Budgeted
<1> QED
  BY <1>1, <1>5, <1>6, ServerPart, PlayerRests DEF CInv

LEMMA DisconnectHolds ==
  ASSUME CInv, NEW s \in Socket, Disconnect(s)
  PROVE  CInv'
<1>1. ServerMoves
  BY BreakStep DEF CInv, Disconnect
<1>2. \A t \in Socket : News(t) \in Seq(NewsMessage)
  BY <1>1, NewsType DEF ServerMoves
<1>3. down' \in [Socket -> Seq(NewsMessage)]
  BY <1>2, FlowType DEF Disconnect, CInv, ClientTypes
<1>4. up' \in [Socket -> Seq(UpMessage)]
  BY EmptySeq DEF Disconnect, CInv, ClientTypes
<1>5. UNCHANGED <<lobby, cmds, events, drain, ui, machine, peripheral>>
  BY DEF Disconnect, tasks, player
<1>6. Budgeted'
  BY BudgetKept DEF Disconnect, UpsetKind, CInv, ClientTypes
<1>7. ClientTypes'
  BY <1>3, <1>4, <1>5, <1>6 DEF CInv, ClientTypes
<1> QED
  BY <1>1, <1>5, <1>7, ServerPart, PlayerRests DEF CInv

\* Who opens a room comes from the picker with a panel of its own.
LEMMA OpenRoomHolds ==
  ASSUME CInv, NEW s \in Socket, NEW kind \in {"create", "join"}, OpenRoom(s, Plain(kind))
  PROVE  CInv'
<1>1. /\ IInv' /\ sent' \in Out
      /\ \A t \in Socket : News(t) = <<>>
  BY ConnectStepIs DEF CInv, OpenRoom
<1>2. down' \in [Socket -> Seq(NewsMessage)]
  BY <1>1, EmptySeq, FlowType DEF OpenRoom, CInv, ClientTypes
<1>3. up' \in [Socket -> Seq(UpMessage)]
  BY QueueSteps, PlainMessages DEF OpenRoom, CInv, ClientTypes
<1>4. /\ lobby' = [lobby EXCEPT ![s].phase = "idle"]
      /\ drain' = [drain EXCEPT ![s] = "loop"]
      /\ ui' = [ui EXCEPT ![s] = FreshUi]
      /\ UNCHANGED <<cmds, events, machine, peripheral, upsets, presses>>
  BY DEF OpenRoom, budget
<1>5. lobby' \in [Socket -> TaskType]
  BY <1>4, PhaseTyped DEF CInv
<1>6. FreshUi \in PanelType /\ FreshUi.here
  BY EmptySeq DEF FreshUi, NoUi, PanelType
<1>7. ClientTypes'
  BY <1>2, <1>3, <1>4, <1>5, <1>6 DEF CInv, ClientTypes, Budgeted
<1>8. PanelsClear' /\ OverMeansRunning'
  BY <1>4, <1>6 DEF CInv, ClientTypes, PanelsClear, OverMeansRunning, Frozen
<1> QED
  BY <1>1, <1>7, <1>8 DEF CInv, SentOK

\* A step of the lobby task leaves the server, the drain and the player alone.
LEMMA LobbyStep ==
  ASSUME CInv, ServerIdle, UNCHANGED <<drain, ui, machine, peripheral>>,
         lobby' \in [Socket -> TaskType], up' \in [Socket -> Seq(UpMessage)],
         down' \in [Socket -> Seq(NewsMessage)],
         cmds' \in [Socket -> Seq(CommandMessage)],
         events' \in [Socket -> Seq(EventMessage)], Budgeted'
  PROVE  CInv'
<1>1. IInv' /\ SentOK'
  BY ServerPart DEF CInv
<1>2. PanelsClear' /\ OverMeansRunning'
  BY PlayerRests DEF CInv
<1>3. ClientTypes'
  BY DEF CInv, ClientTypes
<1> QED
  BY <1>1, <1>2, <1>3 DEF CInv

LEMMA HearingHolds ==
  ASSUME CInv, NEW s \in Socket, ReplayStray(s) \/ HearServer(s)
  PROVE  CInv'
<1>1. lobby[s] \in TaskType /\ lobby[s].stray \in Seq(StrayMessage)
      /\ down[s] \in Seq(NewsMessage)
  BY DEF CInv, ClientTypes, TaskType
<1>2. ServerIdle /\ UNCHANGED <<drain, ui, machine, peripheral, upsets, presses>>
  BY DEF ReplayStray, HearServer, player, budget
<1>3. ASSUME NEW m \in NewsMessage, NEW after \in TaskType, NEW rest \in Seq(NewsMessage),
             Hears(s, m, after, rest)
      PROVE  CInv'
  BY <1>2, <1>3, HearsType, LobbyStep DEF CInv, ClientTypes, Budgeted
<1>4. CASE ReplayStray(s)
  <2>1. lobby[s].stray # <<>>
    BY <1>4 DEF ReplayStray
  <2>2. /\ Head(lobby[s].stray) \in NewsMessage
        /\ [lobby[s] EXCEPT !.stray = Tail(@)] \in TaskType
    <3>1. Head(lobby[s].stray) \in StrayMessage /\ Tail(lobby[s].stray) \in Seq(StrayMessage)
      BY <1>1, <2>1, HeadTailProperties
    <3> QED
      BY <1>1, <3>1, Forwarded DEF TaskType
  <2> QED
    BY <1>1, <1>3, <1>4, <2>2 DEF ReplayStray
<1>5. CASE HearServer(s)
  <2>1. Head(down[s]) \in NewsMessage /\ Tail(down[s]) \in Seq(NewsMessage)
    BY <1>1, <1>5, HeadTailProperties DEF HearServer
  <2> QED
    BY <1>1, <1>3, <1>5, <2>1 DEF HearServer
<1> QED
  BY <1>4, <1>5

LEMMA HearInMeshHolds ==
  ASSUME CInv, NEW s \in Socket, HearInMesh(s)
  PROVE  CInv'
<1> DEFINE m     == Head(down[s])
           stray == lobby[s].stray
           kept  == IF m.type \in {"roster", "starting", "error"} THEN Append(stray, m)
                    ELSE stray
           task  == [lobby[s] EXCEPT !.stray = kept, !.lost = @ \/ m.type = "peerLeft"]
<1>1. lobby[s] \in TaskType /\ stray \in Seq(StrayMessage) /\ down[s] \in Seq(NewsMessage)
  BY DEF CInv, ClientTypes, TaskType
<1>2. m \in NewsMessage /\ down' \in [Socket -> Seq(NewsMessage)]
  BY QueueSteps DEF HearInMesh, CInv, ClientTypes
<1>3. kept \in Seq(StrayMessage)
  <2>1. m.type \in {"roster", "starting", "error"} => m \in StrayMessage
    BY <1>2, Forwarded
  <2> QED
    BY <1>1, <2>1, AppendProperties
<1>4. lobby' = [lobby EXCEPT ![s] = task]
  BY DEF HearInMesh, CInv, ClientTypes
<1> HIDE DEF kept
<1>5. task \in TaskType
  BY <1>1, <1>3 DEF TaskType
<1> HIDE DEF task
<1>6. lobby' \in [Socket -> TaskType]
  BY <1>4, <1>5 DEF CInv, ClientTypes
<1>7. /\ ServerIdle
      /\ UNCHANGED <<up, cmds, events, drain, ui, machine, peripheral, upsets, presses>>
  BY DEF HearInMesh, player, budget
<1> QED
  BY <1>2, <1>6, <1>7, LobbyStep DEF CInv, ClientTypes, Budgeted

LEMMA TimersHold ==
  ASSUME CInv, NEW s \in Socket, DanceStep(s) \/ PauseEnds(s) \/ MeshUp(s)
  PROVE  CInv'
<1>1. /\ ServerIdle
      /\ UNCHANGED <<down, cmds, events, drain, ui, machine, peripheral, upsets, presses>>
  BY DEF DanceStep, PauseEnds, MeshUp, player, budget, wire
<1>2. lobby' \in [Socket -> TaskType]
  <2>1. \/ lobby' = [lobby EXCEPT ![s].dance = FALSE]
        \/ \E phase \in {"idle", "boot"} : lobby' = [lobby EXCEPT ![s].phase = phase]
    BY DEF DanceStep, PauseEnds, MeshUp
  <2>2. lobby \in [Socket -> TaskType]
    BY DEF CInv, ClientTypes
  <2>3. CASE lobby' = [lobby EXCEPT ![s].dance = FALSE]
    BY <2>2, <2>3 DEF TaskType
  <2>4. ASSUME NEW phase \in {"idle", "boot"}, lobby' = [lobby EXCEPT ![s].phase = phase]
        PROVE  lobby' \in [Socket -> TaskType]
    BY <2>4, PhaseTyped DEF CInv
  <2> QED
    BY <2>1, <2>3, <2>4
<1>3. up' = up \/ up' = Post(up, s, Ready(FALSE))
  BY DEF DanceStep, PauseEnds, MeshUp, wire
<1>4. up' \in [Socket -> Seq(UpMessage)]
  <2>1. up \in [Socket -> Seq(UpMessage)] /\ Ready(FALSE) \in UpMessage
    BY PlainMessages DEF CInv, ClientTypes
  <2>2. Post(up, s, Ready(FALSE)) \in [Socket -> Seq(UpMessage)]
    BY <2>1, QueueSteps
  <2> QED
    BY <1>3, <2>1, <2>2
<1> QED
  BY <1>1, <1>2, <1>4, LobbyStep DEF CInv, ClientTypes, Budgeted

LEMMA ExchangeHolds ==
  ASSUME CInv, NEW s \in Socket, ExchangeDone(s)
  PROVE  CInv'
<1> DEFINE e == [type |-> "sessionReady", roms |-> lobby[s].roms]
<1>1. /\ ServerIdle /\ events' = Emit(s, e)
      /\ lobby' = [lobby EXCEPT ![s].phase = "idle"]
      /\ UNCHANGED <<up, down, cmds, drain, ui, machine, peripheral, upsets, presses>>
  BY DEF ExchangeDone, player, budget, wire
<1>2. e \in EventMessage
  BY DEF CInv, ClientTypes, TaskType, EventMessage
<1>3. lobby' \in [Socket -> TaskType]
  BY <1>1, PhaseTyped DEF CInv
<1>4. events' \in [Socket -> Seq(EventMessage)]
  BY <1>1, <1>2, EmitType DEF CInv, ClientTypes
<1> QED
  BY <1>1, <1>3, <1>4, LobbyStep DEF CInv, ClientTypes, Budgeted

LEMMA MergeFailsHolds ==
  ASSUME CInv, NEW s \in Socket, MergeFails(s)
  PROVE  CInv'
<1>1. ServerIdle /\ UNCHANGED <<drain, ui, machine, peripheral>>
  BY DEF MergeFails, player
<1>2. Calm \/ Upset("mesh")
  BY DEF MergeFails
<1>3. Budgeted'
  BY <1>2, BudgetKept DEF UpsetKind, CInv, ClientTypes
<1>4. \/ Dies(s, "kicked")
      \/ /\ events' = Emit(s, Plain("mergeFailed"))
         /\ lobby' = [lobby EXCEPT ![s].phase = IF peripheral[s] THEN "pause" ELSE "idle"]
         /\ UNCHANGED <<up, down, cmds>>
  BY DEF MergeFails, wire
<1>5. \A kind \in {"kicked", "mergeFailed"} :
        Emit(s, Plain(kind)) \in [Socket -> Seq(EventMessage)]
  BY PlainMessages, EmitType DEF CInv, ClientTypes
<1>6. CASE Dies(s, "kicked")
  BY <1>1, <1>3, <1>5, <1>6, EmptySeq, ReturnsType, LobbyStep DEF Dies, CInv
<1>7. CASE /\ events' = Emit(s, Plain("mergeFailed"))
           /\ lobby' = [lobby EXCEPT ![s].phase = IF peripheral[s] THEN "pause" ELSE "idle"]
           /\ UNCHANGED <<up, down, cmds>>
  <2>1. PICK phase \in {"pause", "idle"} : lobby' = [lobby EXCEPT ![s].phase = phase]
    BY <1>7
  <2>2. lobby' \in [Socket -> TaskType]
    BY <2>1, PhaseTyped DEF CInv
  <2> QED
    BY <1>1, <1>3, <1>5, <1>7, <2>2, LobbyStep DEF CInv, ClientTypes
<1> QED
  BY <1>4, <1>6, <1>7

LEMMA ReadCommandHolds ==
  ASSUME CInv, NEW s \in Socket, ReadCommand(s)
  PROVE  CInv'
<1> DEFINE m == Head(cmds[s])
           Read(task, out) ==
             /\ cmds' = Take(cmds, s)
             /\ lobby' = [lobby EXCEPT ![s] = task]
             /\ up' = [up EXCEPT ![s] = @ \o out]
             /\ UNCHANGED <<down, events>>
           armed == [lobby[s] EXCEPT !.dance =
                       @ \/ (lobby[s].phase = "idle" /\ peripheral[s])]
           booted == [lobby[s] EXCEPT !.phase = "exchange"]
<1>1. /\ ServerIdle
      /\ UNCHANGED <<drain, ui, machine, peripheral, upsets, presses>>
  BY DEF ReadCommand, player, budget
<1>2. m \in CommandMessage /\ Take(cmds, s) \in [Socket -> Seq(CommandMessage)]
  BY QueueSteps DEF ReadCommand, CInv, ClientTypes
<1>3. \/ m.type \in Asks /\ Read(lobby[s], <<m>>)
      \/ Read(lobby[s], <<>>) \/ Read(armed, <<>>) \/ Read(booted, <<>>)
      \/ Quits(s)
  BY DEF ReadCommand
<1>4. lobby[s] \in TaskType /\ armed \in TaskType /\ booted \in TaskType
  BY DEF CInv, ClientTypes, TaskType
<1> HIDE DEF m, armed, booted
<1>5. m.type \in Asks => <<m>> \in Seq(UpMessage)
  BY <1>2, Forwarded, OneType
<1>6. ASSUME NEW task \in TaskType, NEW out \in Seq(UpMessage), Read(task, out)
      PROVE  CInv'
  <2>1. up[s] \o out \in Seq(UpMessage)
    BY ConcatType DEF CInv, ClientTypes
  <2>2. up' \in [Socket -> Seq(UpMessage)] /\ lobby' \in [Socket -> TaskType]
    BY <1>6, <2>1 DEF CInv, ClientTypes
  <2> QED
    BY <1>1, <1>2, <1>6, <2>2, LobbyStep DEF CInv, ClientTypes, Budgeted
<1>7. CASE Quits(s)
  <2>1. <<Plain("leave")>> \in Seq(UpMessage)
    BY PlainMessages, OneType
  <2> QED
    BY <1>1, <1>7, <2>1, ReturnsType, LobbyStep DEF Quits, CInv, ClientTypes, Budgeted
<1> HIDE DEF Read
<1>8. <<>> \in Seq(UpMessage)
  BY EmptySeq
<1> QED
  BY <1>3, <1>4, <1>5, <1>6, <1>7, <1>8

-----------------------------------------------------------------------------
(* The drain, the machine and the user *)

\* A step of theirs leaves the server and what is in flight alone.
LEMMA PlayerStep ==
  ASSUME CInv, ServerIdle, UNCHANGED <<up, down, lobby, peripheral>>,
         cmds' \in [Socket -> Seq(CommandMessage)],
         events' \in [Socket -> Seq(EventMessage)],
         drain' \in [Socket -> {"loop", "unplugging", "reading", "over"}],
         ui' \in [Socket -> PanelType], machine' \in [Socket -> MachineType], Budgeted',
         PanelsClear', OverMeansRunning'
  PROVE  CInv'
<1>1. IInv' /\ SentOK'
  BY ServerPart DEF CInv
<1>2. ClientTypes'
  BY DEF CInv, ClientTypes
<1> QED
  BY <1>1, <1>2 DEF CInv

LEMMA NoUiType == NoUi \in PanelType /\ ~NoUi.here /\ NoUi.players = <<>>
  BY EmptySeq DEF NoUi, PanelType

\* The machine after a step of another kind, or let go.
LEMMA MachineFields ==
  ASSUME NEW m \in MachineType
  PROVE  /\ Running(m) \in MachineType /\ ~Running(m).paused /\ Running(m).kind = m.kind
         /\ Solo(m.game) \in MachineType /\ ~Solo(m.game).paused
         /\ \A b \in BOOLEAN : [Solo(m.game) EXCEPT !.paused = b] \in MachineType
         /\ \A b \in BOOLEAN : [m EXCEPT !.unplug = b] \in MachineType
         /\ [m EXCEPT !.paused = TRUE] \in MachineType
         /\ [m EXCEPT !.kind = "netplay", !.paused = FALSE] \in MachineType
         /\ NoGame \in MachineType /\ ~NoGame.paused /\ NoGame.kind = "none"
         /\ Solo("other") \in MachineType /\ ~Solo("other").paused
  BY DEF Running, Solo, NoGame, MachineType

\* Linking failed: the machine runs, the panel is left, the drain is over.
LEMMA LinkFailedHolds ==
  ASSUME CInv, NEW s \in Socket, NEW m \in MachineType, LinkFailed(s, m), ServerIdle,
         UNCHANGED <<up, down, lobby, peripheral>>, Budgeted'
  PROVE  CInv'
<1>1. /\ machine' = [machine EXCEPT ![s] = Running(m)]
      /\ ui' = [ui EXCEPT ![s] = NoUi]
      /\ drain' = [drain EXCEPT ![s] = "over"]
      /\ events' = [events EXCEPT ![s] = <<>>]
      /\ cmds' = Command(s, Plain("leave"))
  BY DEF LinkFailed
<1>2. Running(m) \in MachineType /\ ~Running(m).paused
  BY MachineFields
<1>3. /\ events' \in [Socket -> Seq(EventMessage)] /\ ui' \in [Socket -> PanelType]
      /\ machine' \in [Socket -> MachineType]
      /\ drain' \in [Socket -> {"loop", "unplugging", "reading", "over"}]
  BY <1>1, <1>2, EmptySeq, NoUiType DEF CInv, ClientTypes
<1>4. cmds' \in [Socket -> Seq(CommandMessage)]
  BY <1>1, CommandType, PlainMessages DEF CInv, ClientTypes
<1>5. PanelsClear' /\ OverMeansRunning'
  BY <1>1, <1>2, NoUiType DEF CInv, ClientTypes, PanelsClear, OverMeansRunning, Frozen
<1> QED
  BY <1>3, <1>4, <1>5, PlayerStep

\* The drain goes on: the machine and the panel of its client may change, but
\* a panel that was left stays so.
LEMMA DrainHolds ==
  ASSUME CInv, NEW s \in Socket, ServerIdle, UNCHANGED <<up, down, lobby, peripheral>>,
         Budgeted', drain[s] # "over",
         NEW d \in {"loop", "unplugging", "reading"}, drain' = [drain EXCEPT ![s] = d],
         NEW m \in MachineType, machine' = [machine EXCEPT ![s] = m],
         NEW u \in PanelType, ui' = [ui EXCEPT ![s] = u], ~u.here => u = NoUi,
         cmds' \in [Socket -> Seq(CommandMessage)],
         events' \in [Socket -> Seq(EventMessage)]
  PROVE  CInv'
<1>1. /\ ui' \in [Socket -> PanelType] /\ machine' \in [Socket -> MachineType]
      /\ drain' \in [Socket -> {"loop", "unplugging", "reading", "over"}]
  BY DEF CInv, ClientTypes
<1>2. PanelsClear' /\ OverMeansRunning'
  BY DEF CInv, ClientTypes, PanelsClear, OverMeansRunning, Frozen
<1> QED
  BY <1>1, <1>2, PlayerStep

\* Where the panel stands after an event.
LEMMA PanelIs ==
  ASSUME CInv, NEW s \in Socket, NEW v, Panel(s, v),
         ui[s].here => v \in PanelType /\ v.here
  PROVE  \E u \in PanelType : ui' = [ui EXCEPT ![s] = u] /\ (~u.here => u = NoUi)
<1>1. CASE ui[s].here
  BY <1>1 DEF Panel
<1>2. CASE ~ui[s].here
  <2>1. ui' = [ui EXCEPT ![s] = ui[s]] /\ ui[s] = NoUi
    BY <1>2 DEF Panel, CInv, ClientTypes, PanelsClear
  <2> QED
    BY <2>1, NoUiType
<1> QED
  BY <1>1, <1>2

\* What every handler of the drain's next event has in common.
LEMMA DrainFacts ==
  ASSUME CInv, NEW s \in Socket, NEW type, Drains(s, type)
  PROVE  /\ drain[s] = "loop" /\ events[s] # <<>> /\ Head(events[s]).type = type
         /\ Head(events[s]) \in EventMessage
         /\ Take(events, s) \in [Socket -> Seq(EventMessage)]
         /\ ServerIdle /\ UNCHANGED <<up, down, lobby, peripheral, upsets, presses>>
         /\ Budgeted'
         /\ drain = [drain EXCEPT ![s] = "loop"]
         /\ machine = [machine EXCEPT ![s] = machine[s]] /\ machine[s] \in MachineType
         /\ ui[s] \in PanelType /\ cmds \in [Socket -> Seq(CommandMessage)]
         /\ ui' = ui => Panel(s, ui[s])
<1>1. drain[s] = "loop" /\ events[s] # <<>> /\ Head(events[s]).type = type
  BY DEF Drains
<1>2. ServerIdle /\ UNCHANGED <<up, down, lobby, peripheral, upsets, presses>>
  BY DEF Drains, DrainOnly, wire, budget
<1>3. /\ Head(events[s]) \in EventMessage
      /\ Take(events, s) \in [Socket -> Seq(EventMessage)]
  BY <1>1, QueueSteps DEF CInv, ClientTypes
<1>4. /\ drain = [drain EXCEPT ![s] = "loop"]
      /\ machine = [machine EXCEPT ![s] = machine[s]] /\ machine[s] \in MachineType
      /\ ui[s] \in PanelType /\ cmds \in [Socket -> Seq(CommandMessage)]
  BY <1>1 DEF CInv, ClientTypes
<1>5. ui' = ui => Panel(s, ui[s])
  BY DEF Panel, CInv, ClientTypes
<1>6. Budgeted'
  BY <1>2 DEF CInv, ClientTypes, Budgeted
<1> QED
  BY <1>1, <1>2, <1>3, <1>4, <1>5, <1>6

LEMMA DrainNewsHolds ==
  ASSUME CInv, NEW s \in Socket,
         DrainJoined(s) \/ DrainRoster(s) \/ DrainError(s) \/ DrainMergeFailed(s)
  PROVE  CInv'
<1> DEFINE e == Head(events[s])
<1>1. PICK type \in {"joined", "roster", "error", "mergeFailed"} :
        /\ Drains(s, type)
        /\ type = "roster" => DrainRoster(s)
        /\ type # "roster" => DrainJoined(s) \/ DrainError(s) \/ DrainMergeFailed(s)
  BY DEF DrainJoined, DrainRoster, DrainError, DrainMergeFailed
<1>2. /\ drain[s] = "loop" /\ e.type = type /\ e \in EventMessage
      /\ Take(events, s) \in [Socket -> Seq(EventMessage)]
      /\ ServerIdle /\ UNCHANGED <<up, down, lobby, peripheral>>
      /\ Budgeted'
      /\ drain = [drain EXCEPT ![s] = "loop"]
      /\ machine = [machine EXCEPT ![s] = machine[s]] /\ machine[s] \in MachineType
      /\ ui[s] \in PanelType /\ cmds \in [Socket -> Seq(CommandMessage)]
      /\ ui' = ui => Panel(s, ui[s])
  BY <1>1, DrainFacts
<1>3. drain' = [drain EXCEPT ![s] = "loop"] /\ events' = Take(events, s)
  BY <1>1, <1>2 DEF DrainJoined, DrainRoster, DrainError, DrainMergeFailed, player
<1>4. cmds' \in [Socket -> Seq(CommandMessage)]
  <2>1. cmds' = cmds \/ \E b \in BOOLEAN : cmds' = Command(s, Ready(b))
    BY <1>1 DEF DrainJoined, DrainRoster, DrainError, DrainMergeFailed, HoldsAll
  <2> QED
    BY <1>2, <2>1, CommandType, PlainMessages
<1>5. \E m \in MachineType : machine' = [machine EXCEPT ![s] = m]
  <2>1. machine' = machine \/ machine' = [machine EXCEPT ![s] = Running(machine[s])]
    BY <1>1 DEF DrainJoined, DrainRoster, DrainError, DrainMergeFailed, player
  <2> QED
    BY <1>2, <2>1, MachineFields
<1>6. \E v : Panel(s, v) /\ (ui[s].here => v \in PanelType /\ v.here)
  <2>1. CASE DrainJoined(s)
    <3>1. Panel(s, [ui[s] EXCEPT !.code = TRUE])
      BY <2>1 DEF DrainJoined
    <3>2. ui[s].here => /\ [ui[s] EXCEPT !.code = TRUE] \in PanelType
                        /\ [ui[s] EXCEPT !.code = TRUE].here
      BY <1>2 DEF PanelType
    <3> QED
      BY <3>1, <3>2
  <2>2. CASE DrainRoster(s)
    <3>1. /\ Panel(s, [ui[s] EXCEPT !.players = e.players, !.me = e.idx])
          /\ e.type = "roster"
      BY <2>2 DEF DrainRoster, Drains
    <3>2. e \in RosterMessage
      BY <1>2, <3>1, Forwarded
    <3>3. e.players \in Seq(Player) /\ e.idx \in Nat
      BY <3>2 DEF RosterMessage
    <3> HIDE DEF e
    <3>4. ui[s].here => /\ [ui[s] EXCEPT !.players = e.players, !.me = e.idx] \in PanelType
                        /\ [ui[s] EXCEPT !.players = e.players, !.me = e.idx].here
      BY <1>2, <3>3 DEF PanelType
    <3> QED
      BY <3>1, <3>4
  <2>3. CASE DrainError(s)
    BY <1>2, <2>3 DEF DrainError, player
  <2>4. CASE DrainMergeFailed(s)
    <3>1. Panel(s, [ui[s] EXCEPT !.starting = FALSE])
      BY <2>4 DEF DrainMergeFailed
    <3>2. ui[s].here => /\ [ui[s] EXCEPT !.starting = FALSE] \in PanelType
                        /\ [ui[s] EXCEPT !.starting = FALSE].here
      BY <1>2 DEF PanelType
    <3> QED
      BY <3>1, <3>2
  <2> QED
    BY <2>1, <2>2, <2>3, <2>4
<1>7. \E u \in PanelType : ui' = [ui EXCEPT ![s] = u] /\ (~u.here => u = NoUi)
  BY <1>6, PanelIs
<1>8. drain[s] # "over" /\ events' \in [Socket -> Seq(EventMessage)]
  BY <1>2, <1>3
<1> QED
  BY <1>2, <1>3, <1>4, <1>5, <1>7, <1>8, DrainHolds

\* A capture, of a machine that is there to be captured.
LEMMA DrainStartingHolds ==
  ASSUME CInv, NEW s \in Socket, DrainStarting(s)
  PROVE  CInv'
<1>1. Drains(s, "starting")
  BY DEF DrainStarting
<1>2. /\ drain[s] = "loop"
      /\ Take(events, s) \in [Socket -> Seq(EventMessage)]
      /\ ServerIdle /\ UNCHANGED <<up, down, lobby, peripheral>>
      /\ Budgeted'
      /\ drain = [drain EXCEPT ![s] = "loop"] /\ machine[s] \in MachineType
      /\ ui[s] \in PanelType /\ cmds \in [Socket -> Seq(CommandMessage)]
  BY <1>1, DrainFacts
<1>3. CASE LinkFailed(s, machine[s])
  BY <1>2, <1>3, LinkFailedHolds
<1>4. CASE /\ Panel(s, [ui[s] EXCEPT !.starting = TRUE])
           /\ events' = Take(events, s)
           /\ \/ /\ machine' = [machine EXCEPT ![s].unplug = TRUE]
                 /\ drain' = [drain EXCEPT ![s] = "unplugging"]
                 /\ cmds' = cmds
              \/ /\ machine' = [machine EXCEPT ![s].paused = TRUE]
                 /\ drain' = drain
                 /\ cmds' = Command(s, Plain("boot"))
  <2>1. ui[s].here => /\ [ui[s] EXCEPT !.starting = TRUE] \in PanelType
                      /\ [ui[s] EXCEPT !.starting = TRUE].here
    BY <1>2 DEF PanelType
  <2>2. \E u \in PanelType : ui' = [ui EXCEPT ![s] = u] /\ (~u.here => u = NoUi)
    BY <1>4, <2>1, PanelIs
  <2>3. \E d \in {"loop", "unplugging", "reading"} : drain' = [drain EXCEPT ![s] = d]
    BY <1>2, <1>4
  <2>4. cmds' \in [Socket -> Seq(CommandMessage)]
    BY <1>2, <1>4, CommandType, PlainMessages
  <2>5. \E m \in MachineType : machine' = [machine EXCEPT ![s] = m]
    <3>1. \/ machine' = [machine EXCEPT ![s] = [machine[s] EXCEPT !.unplug = TRUE]]
          \/ machine' = [machine EXCEPT ![s] = [machine[s] EXCEPT !.paused = TRUE]]
      BY <1>4
    <3> QED
      BY <1>2, <3>1, MachineFields
  <2>6. drain[s] # "over" /\ events' \in [Socket -> Seq(EventMessage)]
    BY <1>2, <1>4
  <2> QED
    BY <1>2, <2>2, <2>3, <2>4, <2>5, <2>6, DrainHolds
<1> QED
  BY <1>3, <1>4 DEF DrainStarting

LEMMA DrainEndHolds ==
  ASSUME CInv, NEW s \in Socket, DrainEnd(s)
  PROVE  CInv'
<1>1. PICK type : Drains(s, type)
  BY DEF DrainEnd
<1>2. /\ ServerIdle /\ UNCHANGED <<up, down, lobby, peripheral>>
      /\ Budgeted' /\ machine[s] \in MachineType
  BY <1>1, DrainFacts
<1>3. \E m \in MachineType : LinkFailed(s, m)
  <2>1. [machine[s] EXCEPT !.unplug = @ \/ machine[s].kind = "netplay"] \in MachineType
    BY <1>2 DEF MachineType
  <2> QED
    BY <1>2, <2>1 DEF DrainEnd
<1> QED
  BY <1>2, <1>3, LinkFailedHolds

LEMMA DrainSessionReadyHolds ==
  ASSUME CInv, NEW s \in Socket, DrainSessionReady(s)
  PROVE  CInv'
<1>1. Drains(s, "sessionReady")
  BY DEF DrainSessionReady
<1>2. /\ drain[s] = "loop"
      /\ Take(events, s) \in [Socket -> Seq(EventMessage)]
      /\ ServerIdle /\ UNCHANGED <<up, down, lobby, peripheral>>
      /\ Budgeted' /\ machine[s] \in MachineType
      /\ machine = [machine EXCEPT ![s] = machine[s]]
      /\ cmds \in [Socket -> Seq(CommandMessage)]
      /\ ui' = ui => Panel(s, ui[s])
      /\ ui[s] \in PanelType
  BY <1>1, DrainFacts
<1>3. CASE LinkFailed(s, machine[s])
  BY <1>2, <1>3, LinkFailedHolds
<1>4. CASE /\ drain' = [drain EXCEPT ![s] = "reading"]
           /\ events' = Take(events, s)
           /\ UNCHANGED <<cmds, ui, machine>>
  <2>1. \E u \in PanelType : ui' = [ui EXCEPT ![s] = u] /\ (~u.here => u = NoUi)
    BY <1>2, <1>4, PanelIs
  <2>2. drain[s] # "over" /\ events' \in [Socket -> Seq(EventMessage)]
        /\ cmds' \in [Socket -> Seq(CommandMessage)]
        /\ machine' = [machine EXCEPT ![s] = machine[s]]
    BY <1>2, <1>4
  <2> QED
    BY <1>2, <1>4, <2>1, <2>2, DrainHolds
<1> QED
  BY <1>3, <1>4 DEF DrainSessionReady, player

LEMMA DrainEpilogueHolds ==
  ASSUME CInv, NEW s \in Socket, DrainEpilogue(s)
  PROVE  CInv'
<1>1. /\ machine' = [machine EXCEPT ![s] = Running(machine[s])]
      /\ ui' = [ui EXCEPT ![s] = NoUi]
      /\ drain' = [drain EXCEPT ![s] = "over"]
      /\ ServerIdle
      /\ UNCHANGED <<up, down, lobby, peripheral, upsets, presses, cmds, events>>
  BY DEF DrainEpilogue, DrainOnly, wire, budget, CInv, ClientTypes
<1>2. Running(machine[s]) \in MachineType /\ ~Running(machine[s]).paused
  BY MachineFields DEF CInv, ClientTypes
<1>3. /\ ui' \in [Socket -> PanelType] /\ machine' \in [Socket -> MachineType]
      /\ drain' \in [Socket -> {"loop", "unplugging", "reading", "over"}]
      /\ cmds' \in [Socket -> Seq(CommandMessage)]
      /\ events' \in [Socket -> Seq(EventMessage)] /\ Budgeted'
  BY <1>1, <1>2, NoUiType DEF CInv, ClientTypes, Budgeted
<1>4. PanelsClear' /\ OverMeansRunning'
  BY <1>1, <1>2, NoUiType DEF CInv, ClientTypes, PanelsClear, OverMeansRunning, Frozen
<1> QED
  BY <1>1, <1>3, <1>4, PlayerStep

\* The waits of the drain that are not for an event.
LEMMA UnpluggedHolds ==
  ASSUME CInv, NEW s \in Socket, Unplugged(s)
  PROVE  CInv'
<1>1. /\ drain[s] = "unplugging" /\ ServerIdle /\ Capture(s)
      /\ UNCHANGED <<up, down, lobby, peripheral>>
      /\ Calm \/ Upset("machine")
  BY DEF Unplugged, wire
<1>2. Budgeted'
  BY <1>1, BudgetKept DEF UpsetKind, CInv, ClientTypes
<1>3. machine[s] \in MachineType /\ ui[s] \in PanelType
  BY DEF CInv, ClientTypes
<1>4. CASE LinkFailed(s, machine[s])
  BY <1>1, <1>2, <1>3, <1>4, LinkFailedHolds
<1>5. CASE /\ machine' = [machine EXCEPT ![s].paused = TRUE]
           /\ cmds' = Command(s, Plain("boot"))
           /\ drain' = [drain EXCEPT ![s] = "loop"]
           /\ UNCHANGED <<ui, events>>
  <2>1. machine' = [machine EXCEPT ![s] = [machine[s] EXCEPT !.paused = TRUE]]
    BY <1>5
  <2>2. [machine[s] EXCEPT !.paused = TRUE] \in MachineType
    BY <1>3, MachineFields
  <2>3. ui' = [ui EXCEPT ![s] = ui[s]] /\ (~ui[s].here => ui[s] = NoUi)
    BY <1>5 DEF CInv, ClientTypes, PanelsClear
  <2>4. cmds' \in [Socket -> Seq(CommandMessage)]
    BY <1>5, CommandType, PlainMessages DEF CInv, ClientTypes
  <2>5. events' \in [Socket -> Seq(EventMessage)] /\ drain[s] # "over"
    BY <1>1, <1>5 DEF CInv, ClientTypes
  <2> QED
    BY <1>1, <1>2, <1>3, <1>5, <2>1, <2>2, <2>3, <2>4, <2>5, DrainHolds
<1> QED
  BY <1>1, <1>4, <1>5 DEF Capture

LEMMA PlugInHolds ==
  ASSUME CInv, NEW s \in Socket, PlugIn(s)
  PROVE  CInv'
<1>1. /\ drain[s] = "reading" /\ ServerIdle /\ UNCHANGED <<up, down, lobby, peripheral>>
      /\ Calm \/ Upset("machine")
  BY DEF PlugIn, wire
<1>2. Budgeted'
  BY <1>1, BudgetKept DEF UpsetKind, CInv, ClientTypes
<1>3. machine[s] \in MachineType /\ ui[s] \in PanelType
  BY DEF CInv, ClientTypes
<1> DEFINE linked == [machine[s] EXCEPT !.kind = "netplay", !.paused = FALSE]
<1>4. CASE LinkFailed(s, machine[s])
  BY <1>1, <1>2, <1>3, <1>4, LinkFailedHolds
<1>5. CASE /\ machine' = [machine EXCEPT ![s] = linked]
           /\ Panel(s, [ui[s] EXCEPT !.starting = FALSE])
           /\ drain' = [drain EXCEPT ![s] = "loop"]
           /\ UNCHANGED <<cmds, events>>
  <2>1. linked \in MachineType
    BY <1>3, MachineFields
  <2>2. ui[s].here => /\ [ui[s] EXCEPT !.starting = FALSE] \in PanelType
                      /\ [ui[s] EXCEPT !.starting = FALSE].here
    BY <1>3 DEF PanelType
  <2>3. \E u \in PanelType : ui' = [ui EXCEPT ![s] = u] /\ (~u.here => u = NoUi)
    BY <1>5, <2>2, PanelIs
  <2>4. /\ cmds' \in [Socket -> Seq(CommandMessage)]
        /\ events' \in [Socket -> Seq(EventMessage)] /\ drain[s] # "over"
    BY <1>1, <1>5 DEF CInv, ClientTypes
  <2> HIDE DEF linked
  <2> QED
    BY <1>1, <1>2, <1>5, <2>1, <2>3, <2>4, DrainHolds
<1> QED
  BY <1>4, <1>5 DEF PlugIn, CInv, ClientTypes

\* A step of the machine or the user: a panel stays, is used or is left, and
\* a machine whose drain is over runs.
LEMMA MachineHolds ==
  ASSUME CInv, NEW s \in Socket, MachineOnly,
         NEW m \in MachineType, machine' = [machine EXCEPT ![s] = m],
         drain[s] = "over" => m.kind = "none" \/ ~m.paused,
         NEW u \in PanelType, ui' = [ui EXCEPT ![s] = u],
         u = NoUi \/ u = ui[s] \/ (u.here /\ ui[s].here),
         cmds' \in [Socket -> Seq(CommandMessage)], Budgeted'
  PROVE  CInv'
<1>1. /\ ServerIdle /\ UNCHANGED <<up, down, lobby, peripheral, events, drain>>
  BY DEF MachineOnly, wire
<1>2. /\ ui' \in [Socket -> PanelType] /\ machine' \in [Socket -> MachineType]
      /\ drain' \in [Socket -> {"loop", "unplugging", "reading", "over"}]
      /\ events' \in [Socket -> Seq(EventMessage)]
  BY <1>1 DEF CInv, ClientTypes
<1>3. PanelsClear'
  <2>1. drain[s] = "over" => ~ui[s].here
    BY NoUiType DEF CInv, PanelsClear
  <2>2. ~u.here \/ drain[s] = "over" => u = NoUi
    BY <2>1 DEF CInv, PanelsClear
  <2> QED
    BY <1>1, <2>2 DEF CInv, ClientTypes, PanelsClear
<1>4. OverMeansRunning'
  BY <1>1 DEF CInv, ClientTypes, OverMeansRunning, Frozen
<1> QED
  BY <1>1, <1>2, <1>3, <1>4, PlayerStep

LEMMA MachinesHold ==
  ASSUME CInv, NEW s \in Socket, PumpUnplugs(s) \/ PeerGone(s) \/ LaunchGame(s)
  PROVE  CInv'
<1>1. /\ MachineOnly /\ ui' = ui
      /\ \/ Calm \/ Upset("machine") \/ Upset("session")
  BY DEF PumpUnplugs, PeerGone, LaunchGame
<1>2. Budgeted'
  BY <1>1, BudgetKept DEF UpsetKind, CInv, ClientTypes
<1>3. machine[s] \in MachineType /\ ui[s] \in PanelType /\ ui' = [ui EXCEPT ![s] = ui[s]]
  BY <1>1 DEF CInv, ClientTypes
<1>4. cmds' \in [Socket -> Seq(CommandMessage)]
  <2>1. cmds' = cmds \/ cmds' = Command(s, Plain("dropped"))
    BY DEF PumpUnplugs, PeerGone, LaunchGame
  <2> QED
    BY <2>1, CommandType, PlainMessages DEF CInv, ClientTypes
<1>5. ASSUME NEW m \in MachineType, machine' = [machine EXCEPT ![s] = m],
             drain[s] = "over" => m.kind = "none" \/ ~m.paused
      PROVE  CInv'
  BY <1>1, <1>2, <1>3, <1>4, <1>5, MachineHolds
<1>6. CASE PumpUnplugs(s)
  <2>1. \/ machine' = [machine EXCEPT ![s] = Solo(machine[s].game)]
        \/ machine' = [machine EXCEPT ![s] = NoGame]
    BY <1>6 DEF PumpUnplugs, CInv, ClientTypes
  <2>2. /\ Solo(machine[s].game) \in MachineType /\ ~Solo(machine[s].game).paused
        /\ NoGame \in MachineType /\ ~NoGame.paused
    BY <1>3, MachineFields
  <2> QED
    BY <1>5, <2>1, <2>2
<1>7. CASE PeerGone(s)
  <2> DEFINE hold == peripheral[s] /\ Len(ui[s].players) >= 2
             m    == [Solo(machine[s].game) EXCEPT !.paused = hold]
  <2>1. machine' = [machine EXCEPT ![s] = m]
    BY <1>7 DEF PeerGone, CInv, ClientTypes
  <2>2. hold \in BOOLEAN
    OBVIOUS
  <2>3. drain[s] = "over" => ~hold
    <3>1. drain[s] = "over" => ui[s].players = <<>>
      BY NoUiType DEF CInv, PanelsClear
    <3> QED
      BY <3>1
  <2> HIDE DEF hold
  <2>4. m \in MachineType /\ m.paused = hold
    <3>1. m \in MachineType
      BY <1>3, <2>2, MachineFields
    <3> QED
      BY <3>1 DEF Solo
  <2> QED
    BY <1>5, <2>1, <2>3, <2>4
<1>8. CASE LaunchGame(s)
  <2>1. machine' = [machine EXCEPT ![s] = Solo("other")]
    BY <1>8 DEF LaunchGame
  <2>2. Solo("other") \in MachineType /\ ~Solo("other").paused
    BY <1>3, MachineFields
  <2> QED
    BY <1>5, <2>1, <2>2
<1> QED
  BY <1>6, <1>7, <1>8

LEMMA UsersHold ==
  ASSUME CInv, NEW s \in Socket,
         LinkUp(s) \/ EjectPlayer(s) \/ LeaveRoom(s) \/ QuitGame(s)
  PROVE  CInv'
<1>1. machine[s] \in MachineType /\ ui[s] \in PanelType
      /\ machine = [machine EXCEPT ![s] = machine[s]] /\ ui = [ui EXCEPT ![s] = ui[s]]
  BY DEF CInv, ClientTypes
<1>2. drain[s] = "over" => machine[s].kind = "none" \/ ~machine[s].paused
  BY DEF CInv, OverMeansRunning, Frozen
<1>3. CASE LinkUp(s)
  <2> DEFINE u == [ui[s] EXCEPT !.starting = TRUE]
  <2>1. /\ MachineOnly /\ machine' = machine /\ ui' = [ui EXCEPT ![s] = u] /\ ui[s].here
        /\ cmds' = Command(s, Plain("start"))
        /\ presses < MaxPresses /\ presses' = presses + 1 /\ upsets' = upsets
    BY <1>3 DEF LinkUp, CInv, ClientTypes
  <2>2. u \in PanelType /\ u.here
    BY <1>1, <2>1 DEF PanelType
  <2>3. Budgeted'
    BY <2>1, BoundsAssumption DEF CInv, ClientTypes, Budgeted
  <2>4. cmds' \in [Socket -> Seq(CommandMessage)]
    BY <2>1, CommandType, PlainMessages DEF CInv, ClientTypes
  <2> HIDE DEF u
  <2> QED
    BY <1>1, <1>2, <2>1, <2>2, <2>3, <2>4, MachineHolds
<1>4. CASE EjectPlayer(s)
  <2>1. /\ MachineOnly /\ machine' = machine /\ ui' = ui /\ Upset("eject")
    BY <1>4 DEF EjectPlayer, player
  <2> PICK k \in DOMAIN ui[s].players \ {1} : cmds' = Command(s, Kick(ui[s].players[k].seat))
    BY <1>4 DEF EjectPlayer
  <2>2. \A i \in DOMAIN ui[s].players : ui[s].players[i].seat \in Nat
    <3>1. ui[s].players \in Seq(Player)
      BY <1>1 DEF PanelType
    <3>2. \A i \in DOMAIN ui[s].players : ui[s].players[i] \in Player
      BY <3>1, LenProperties, ElementOfSeq
    <3> QED
      BY <3>2 DEF Player
  <2> DEFINE kick == Kick(ui[s].players[k].seat)
  <2>3. cmds' \in [Socket -> Seq(CommandMessage)]
    <3>1. kick \in CommandMessage /\ cmds' = Command(s, kick)
      BY <2>2, PlainMessages
    <3> HIDE DEF kick
    <3> QED
      BY <3>1, CommandType DEF CInv, ClientTypes
  <2>4. Budgeted'
    BY <2>1, BudgetKept DEF UpsetKind, CInv, ClientTypes
  <2> QED
    BY <1>1, <1>2, <2>1, <2>3, <2>4, MachineHolds
<1>5. CASE LeaveRoom(s)
  <2> DEFINE m == IF machine[s].kind = "netplay"
                  THEN [machine[s] EXCEPT !.unplug = TRUE] ELSE Running(machine[s])
  <2>1. /\ MachineOnly /\ machine' = [machine EXCEPT ![s] = m]
        /\ ui' = [ui EXCEPT ![s] = NoUi]
        /\ cmds' = Command(s, Plain("leave")) /\ Upset("leave") /\ ui[s].here
    BY <1>5 DEF LeaveRoom, CInv, ClientTypes
  <2>2. m \in MachineType
    BY <1>1, MachineFields
  <2>3. cmds' \in [Socket -> Seq(CommandMessage)]
    BY <2>1, CommandType, PlainMessages DEF CInv, ClientTypes
  <2>4. Budgeted'
    BY <2>1, BudgetKept DEF UpsetKind, CInv, ClientTypes
  <2>5. drain[s] # "over"
    BY <2>1, NoUiType DEF CInv, PanelsClear
  <2> HIDE DEF m
  <2> QED
    BY <2>1, <2>2, <2>3, <2>4, <2>5, NoUiType, MachineHolds
<1>6. CASE QuitGame(s)
  <2>1. /\ MachineOnly /\ machine' = [machine EXCEPT ![s] = NoGame]
        /\ ui' = [ui EXCEPT ![s] = NoUi] /\ Upset("quit")
        /\ cmds' = cmds \/ cmds' = Command(s, Plain("leave"))
    BY <1>6 DEF QuitGame
  <2>2. NoGame \in MachineType /\ NoGame.kind = "none"
    BY <1>1, MachineFields
  <2>3. cmds' \in [Socket -> Seq(CommandMessage)]
    <3>1. cmds \in [Socket -> Seq(CommandMessage)] /\ Plain("leave") \in CommandMessage
      BY PlainMessages DEF CInv, ClientTypes
    <3>2. Command(s, Plain("leave")) \in [Socket -> Seq(CommandMessage)]
      BY <3>1, CommandType
    <3> QED
      BY <2>1, <3>1, <3>2
  <2>4. Budgeted'
    BY <2>1, BudgetKept DEF UpsetKind, CInv, ClientTypes
  <2> QED
    BY <2>1, <2>2, <2>3, <2>4, NoUiType, MachineHolds
<1> QED
  BY <1>3, <1>4, <1>5, <1>6

-----------------------------------------------------------------------------
(* The theorems *)

LEMMA InitCInv == ClientInit => CInv
<1> SUFFICES ASSUME ClientInit PROVE CInv
  OBVIOUS
<1>1. IInv
  BY InitIInv DEF ClientInit
<1>2. SentOK
  BY NoMessages DEF ClientInit, Init, SentOK
<1>3. Task("off") \in TaskType
  <2>1. <<>> \in Seq(StrayMessage) /\ <<>> \in Seq(Rom)
    BY EmptySeq
  <2> QED
    BY <2>1 DEF Task, TaskType
<1>4. Solo("own") \in MachineType /\ ~Solo("own").paused
  BY DEF Solo, MachineType
<1>5. /\ <<>> \in Seq(UpMessage) /\ <<>> \in Seq(NewsMessage)
      /\ <<>> \in Seq(CommandMessage) /\ <<>> \in Seq(EventMessage)
  BY EmptySeq
<1>6. peripheral \in [Socket -> BOOLEAN]
  <2>1. peripheral \in [Socket -> Adapters]
    BY DEF ClientInit
  <2> QED
    BY <2>1, BoundsAssumption
<1>7. Budgeted
  BY BoundsAssumption DEF ClientInit, Budgeted
<1>8. ClientTypes
  BY <1>3, <1>4, <1>5, <1>6, <1>7, NoUiType DEF ClientInit, ClientTypes
<1>9. PanelsClear /\ OverMeansRunning
  BY <1>4 DEF ClientInit, PanelsClear, OverMeansRunning, Frozen
<1> QED
  BY <1>1, <1>2, <1>8, <1>9 DEF CInv

LEMMA StepCInv == CInv /\ [ClientNext]_allVars => CInv'
<1> SUFFICES ASSUME CInv, [ClientNext]_allVars PROVE CInv'
  OBVIOUS
<1>1. CASE UNCHANGED allVars
  <2>1. UNCHANGED <<room, sock, alarm, sent>>
    BY <1>1 DEF allVars, serverVars
  <2>2. UNCHANGED <<peripheral, up, down, lobby, cmds, events, drain, ui, machine,
                    upsets, presses>>
    BY <1>1 DEF allVars, clientVars, wire, tasks, player, budget
  <2>3. IInv' /\ SentOK'
    BY <2>1, UnchangedStep DEF CInv, SentOK
  <2>4. PanelsClear' /\ OverMeansRunning'
    BY <2>2, PlayerRests DEF CInv
  <2>5. ClientTypes'
    BY <2>2 DEF CInv, ClientTypes, Budgeted
  <2> QED
    BY <2>3, <2>4, <2>5 DEF CInv
<1>2. ASSUME NEW s \in Socket, ServerHandles(s) \/ Disconnect(s)
      PROVE  CInv'
  BY <1>2, HandlesHolds, DisconnectHolds
<1>3. ASSUME NEW s \in Socket, LobbyTask(s)
      PROVE  CInv'
  BY <1>3, HearingHolds, HearInMeshHolds, TimersHold, ExchangeHolds, MergeFailsHolds,
     ReadCommandHolds DEF LobbyTask
<1>4. ASSUME NEW s \in Socket, DrainTask(s)
      PROVE  CInv'
  BY <1>4, DrainNewsHolds, DrainStartingHolds, DrainEndHolds, DrainSessionReadyHolds,
     DrainEpilogueHolds, UnpluggedHolds, PlugInHolds DEF DrainTask
<1>5. ASSUME NEW s \in Socket, PumpUnplugs(s) \/ PeerGone(s)
      PROVE  CInv'
  BY <1>5, MachinesHold
<1>6. ASSUME NEW s \in Socket, User(s)
      PROVE  CInv'
  <2>1. (IF s = Creator THEN "create" ELSE "join") \in {"create", "join"}
    OBVIOUS
  <2> QED
    BY <1>6, <2>1, OpenRoomHolds, MachinesHold, UsersHold DEF User
<1> QED
  BY <1>1, <1>2, <1>3, <1>4, <1>5, <1>6 DEF ClientNext

LEMMA ClientsInvariant == ClientSpec => []CInv
  BY InitCInv, StepCInv, PTL DEF ClientSpec

\* The queues between server, lobby and drain carry what their readers know,
\* and the tasks, panels and machines keep their shapes.
THEOREM ClientTypesHold == ClientSpec => []ClientTypeOK
<1>1. CInv => ClientTypeOK
  <2> SUFFICES ASSUME CInv PROVE ClientTypeOK
    OBVIOUS
  <2>1. TypeOK
    BY DEF CInv, IInv, Shape, SentOK, Out, TypeOK
  <2>2. upsets \in 0 .. MaxUpsets /\ presses \in 0 .. MaxPresses
    BY DEF CInv, ClientTypes, Budgeted
  <2>3. ASSUME NEW s \in Socket
        PROVE  /\ Kinds(up[s]) \subseteq Asks \cup {"create", "join", "leave", "close"}
               /\ Kinds(down[s]) \subseteq
                    {"entered", "roster", "starting", "peerLeft", "error", "closed"}
               /\ Kinds(cmds[s]) \subseteq Asks \cup {"boot", "dropped", "leave"}
               /\ Kinds(events[s]) \subseteq
                    {"joined", "roster", "error", "starting", "mergeFailed",
                     "sessionReady", "fatal", "kicked"}
               /\ Kinds(lobby[s].stray) \subseteq {"roster", "starting", "error"}
    <3> DEFINE Said == Asks \cup {"create", "join", "leave", "close"}
    <3>1. /\ up[s] \in Seq(UpMessage) /\ down[s] \in Seq(NewsMessage)
          /\ cmds[s] \in Seq(CommandMessage) /\ events[s] \in Seq(EventMessage)
          /\ lobby[s].stray \in Seq(StrayMessage)
      BY DEF CInv, ClientTypes, TaskType
    <3>2. \A m \in UpMessage : m.type \in Said
      BY DEF UpMessage, Asks
    <3>3. \A m \in CommandMessage : m.type \in Asks \cup {"boot", "dropped", "leave"}
      BY DEF CommandMessage, Asks
    <3>4. \A m \in StrayMessage : m.type \in {"roster", "starting", "error"}
      BY DEF StrayMessage, RosterMessage
    <3>5. \A m \in NewsMessage :
            m.type \in {"entered", "roster", "starting", "peerLeft", "error", "closed"}
      BY <3>4 DEF NewsMessage
    <3>6. \A m \in EventMessage :
            m.type \in {"joined", "roster", "error", "starting", "mergeFailed",
                        "sessionReady", "fatal", "kicked"}
      BY DEF EventMessage, RosterMessage
    <3>7. Kinds(up[s]) \subseteq Said
      <4> HIDE DEF Said
      <4> QED
        BY <3>1, <3>2, KindsWithin
    <3>8. Kinds(down[s]) \subseteq
            {"entered", "roster", "starting", "peerLeft", "error", "closed"}
      BY ONLY <3>1, <3>5, KindsWithin
    <3>9. Kinds(cmds[s]) \subseteq Asks \cup {"boot", "dropped", "leave"}
      BY ONLY <3>1, <3>3, KindsWithin
    <3>10. Kinds(events[s]) \subseteq
             {"joined", "roster", "error", "starting", "mergeFailed",
              "sessionReady", "fatal", "kicked"}
      BY ONLY <3>1, <3>6, KindsWithin
    <3>11. Kinds(lobby[s].stray) \subseteq {"roster", "starting", "error"}
      BY ONLY <3>1, <3>4, KindsWithin
    <3> QED
      BY <3>7, <3>8, <3>9, <3>10, <3>11
  <2>4. ASSUME NEW s \in Socket
        PROVE  /\ lobby[s].phase \in
                    {"off", "idle", "mesh", "boot", "exchange", "pause", "done"}
               /\ drain[s] \in {"loop", "unplugging", "reading", "over"}
               /\ ui[s].here \in BOOLEAN /\ ui[s].players \in Seq(Player)
               /\ ~ui[s].here => ui[s] = NoUi
               /\ machine[s] \in [kind : {"local", "netplay", "none"}, paused : BOOLEAN,
                                  unplug : BOOLEAN, game : {"own", "other", "none"}]
    BY DEF CInv, ClientTypes, TaskType, PanelType, MachineType, PanelsClear
  <2> QED
    BY <2>1, <2>2, <2>3, <2>4 DEF ClientTypeOK
<1> QED
  BY <1>1, ClientsInvariant, PTL

\* "However it went, never leave the machine frozen": once the drain task is
\* over, whichever of its many ends it took and whatever befell the machine
\* afterwards, the machine runs.
THEOREM OverAlwaysRuns == ClientSpec => []OverMeansRunning
<1>1. CInv => OverMeansRunning
  BY DEF CInv
<1> QED
  BY <1>1, ClientsInvariant, PTL

LEMMA ClientsStepServer == CInv /\ [ClientNext]_allVars => [Next]_<<room, sock, alarm>>
<1> SUFFICES ASSUME CInv, [ClientNext]_allVars, ~UNCHANGED <<room, sock, alarm>>
             PROVE  Next
  OBVIOUS
<1>1. ~UNCHANGED allVars /\ ~ServerIdle
  BY DEF allVars, serverVars, ServerIdle
<1>2. PICK s \in Socket :
        ServerHandles(s) \/ Disconnect(s) \/ LobbyTask(s) \/ DrainTask(s)
        \/ PumpUnplugs(s) \/ PeerGone(s) \/ User(s)
  BY <1>1 DEF ClientNext
<1>3. ~LobbyTask(s)
  BY <1>1 DEF LobbyTask, ReplayStray, HearServer, ReadCommand, HearInMesh, DanceStep,
     PauseEnds, MeshUp, MergeFails, ExchangeDone
<1>4. ~DrainTask(s)
  BY <1>1 DEF DrainTask, DrainJoined, DrainRoster, DrainError, DrainStarting,
     DrainMergeFailed, DrainEnd, DrainSessionReady, DrainEpilogue, Unplugged, PlugIn,
     Drains, DrainOnly
<1>5. ~PumpUnplugs(s) /\ ~PeerGone(s)
  BY <1>1 DEF PumpUnplugs, PeerGone, MachineOnly
<1>6. CASE ServerHandles(s)
  BY <1>1, <1>6, ServerStep DEF CInv, ServerMoves
<1>7. CASE Disconnect(s)
  BY <1>7, BreakStep DEF CInv, Disconnect, ServerMoves
<1>8. CASE User(s)
  <2>1. ~(LinkUp(s) \/ EjectPlayer(s) \/ LeaveRoom(s) \/ QuitGame(s) \/ LaunchGame(s))
    BY <1>1 DEF LinkUp, EjectPlayer, LeaveRoom, QuitGame, LaunchGame, MachineOnly
  <2>2. Connect(s)
    BY <1>8, <2>1 DEF User, OpenRoom
  <2> QED
    BY <2>2, ConnectStepIs DEF CInv
<1> QED
  BY <1>2, <1>3, <1>4, <1>5, <1>6, <1>7, <1>8

\* Every step of the composition is a step of the server, or leaves its state
\* alone: whatever its clients send, in whatever order, the server does nothing
\* it does not do in Rooms.
THEOREM ClientsDriveServer == ClientSpec => Init /\ [][Next]_<<room, sock, alarm>>
<1>1. ClientInit => Init
  BY DEF ClientInit
<1> QED
  BY <1>1, ClientsStepServer, ClientsInvariant, PTL DEF ClientSpec

\* With the real clients at the other end of its sockets, too, the server's
\* records and attachments describe one membership, and the routings it relays
\* by agree and are mutual.
THEOREM ServerStaysCoherent ==
  ClientSpec => [](MembershipCoherent /\ SessionsAgree /\ StampsMutual)
<1>1. CInv => MembershipCoherent /\ SessionsAgree /\ StampsMutual
  BY DEF CInv, IInv
<1> QED
  BY <1>1, ClientsInvariant, PTL

-----------------------------------------------------------------------------
(* Rosters on their way.  To the last one the panel will agree.            *)

Silent(q) == \A m \in ToSet(q) : m.type # "roster"
Ends(q)   == \E m \in ToSet(q) : m.type = "closed"
Enters(q) == \E m \in ToSet(q) : m.type \in {"create", "join"}
Refusal(m) == m.type = "error" /\ m.kind \in FatalError \cup {"kicked"}
Refuses(q) == \E m \in ToSet(q) : Refusal(m)

\* The last roster in q shows these players and gives its reader the place k.
LastIs(q, players, k) ==
  \E i \in DOMAIN q :
    /\ q[i].type = "roster" /\ q[i].players = players /\ q[i].idx = k
    /\ \A j \in DOMAIN q : j > i => q[j].type # "roster"

\* Of the queues from the server to the panel, the oldest messages in e, the
\* newest in d, the last roster is this one.
Due(e, st, d, players, k) ==
  \/ LastIs(d, players, k)
  \/ Silent(d) /\ LastIs(st, players, k)
  \/ Silent(d) /\ Silent(st) /\ LastIs(e, players, k)

Shows(u, players, k) == u.here => u.players = players /\ u.me = k

\* The panel u will show this roster, if its player does not leave it.
Follows(e, st, d, u, players, k) ==
  \/ Due(e, st, d, players, k)
  \/ Silent(e) /\ Silent(st) /\ Silent(d) /\ Shows(u, players, k)

LEMMA SetOfQueue ==
  ASSUME NEW S, NEW q \in Seq(S)
  PROVE  /\ \A x \in S : ToSet(Append(q, x)) = ToSet(q) \cup {x}
         /\ q # <<>> => ToSet(q) = ToSet(Tail(q)) \cup {Head(q)}
         /\ \A b \in Seq(S) : ToSet(q \o b) = ToSet(q) \cup ToSet(b)
         /\ ToSet(<<>>) = {}
<1> DEFINE n == Len(q)
<1>1. n \in Nat /\ DOMAIN q = 1 .. n
  BY LenProperties
<1>2. ASSUME NEW x \in S PROVE ToSet(Append(q, x)) = ToSet(q) \cup {x}
  <2> DEFINE c == Append(q, x)
  <2>1. /\ DOMAIN c = 1 .. n + 1 /\ c[n + 1] = x
        /\ \A i \in 1 .. n : c[i] = q[i]
    BY <1>1, AppendProperties
  <2> HIDE DEF c, n
  <2>2. \A i \in DOMAIN c : c[i] \in ToSet(q) \cup {x}
    BY <1>1, <2>1 DEF ToSet
  <2>3. \A i \in DOMAIN q : i \in DOMAIN c /\ c[i] = q[i]
    BY <1>1, <2>1
  <2>4. n + 1 \in DOMAIN c
    BY <1>1, <2>1
  <2>5. ToSet(q) \cup {x} \subseteq ToSet(c)
    BY <2>1, <2>3, <2>4 DEF ToSet
  <2>6. ToSet(c) \subseteq ToSet(q) \cup {x}
    BY <2>2 DEF ToSet
  <2> QED
    BY <2>5, <2>6 DEF c
<1>3. ASSUME q # <<>> PROVE ToSet(q) = ToSet(Tail(q)) \cup {Head(q)}
  <2> DEFINE c == Tail(q)
  <2>1. /\ n # 0 /\ DOMAIN c = 1 .. n - 1 /\ Head(q) = q[1]
        /\ \A i \in 1 .. n - 1 : c[i] = q[i + 1]
    <3>1. c \in Seq(S) /\ Len(c) = n - 1 /\ n # 0
          /\ \A i \in 1 .. Len(c) : c[i] = q[i + 1]
      BY <1>3, HeadTailProperties, EmptySeq
    <3>2. DOMAIN c = 1 .. Len(c)
      BY <3>1, LenProperties
    <3> QED
      BY <1>3, <3>1, <3>2, HeadTailProperties
  <2> HIDE DEF c, n
  <2>2. \A i \in DOMAIN c : i + 1 \in DOMAIN q /\ c[i] = q[i + 1]
    BY <1>1, <2>1
  <2>3. 1 \in DOMAIN q
    BY <1>1, <2>1
  <2>4. \A i \in DOMAIN q : i # 1 => i - 1 \in DOMAIN c /\ c[i - 1] = q[i]
    BY <1>1, <2>1
  <2>5. ToSet(c) \cup {Head(q)} \subseteq ToSet(q)
    BY <2>1, <2>2, <2>3 DEF ToSet
  <2>6. ToSet(q) \subseteq ToSet(c) \cup {Head(q)}
    <3>1. ASSUME NEW i \in DOMAIN q PROVE q[i] \in ToSet(c) \cup {Head(q)}
      <4>1. CASE i = 1
        BY <2>1, <4>1
      <4>2. CASE i # 1
        BY <2>4, <4>2 DEF ToSet
      <4> QED
        BY <4>1, <4>2
    <3> QED
      BY <3>1 DEF ToSet
  <2> QED
    BY <2>5, <2>6 DEF c
<1>4. ASSUME NEW b \in Seq(S) PROVE ToSet(q \o b) = ToSet(q) \cup ToSet(b)
  <2> DEFINE c == q \o b
             l == Len(b)
  <2>1. /\ l \in Nat /\ DOMAIN b = 1 .. l /\ DOMAIN c = 1 .. n + l
        /\ \A i \in 1 .. n + l : c[i] = IF i <= n THEN q[i] ELSE b[i - n]
    <3>1. c \in Seq(S) /\ Len(c) = n + l
          /\ \A i \in 1 .. n + l : c[i] = IF i <= n THEN q[i] ELSE b[i - n]
      BY ConcatProperties
    <3> QED
      BY <3>1, LenProperties
  <2> HIDE DEF c, n, l
  <2>2. \A i \in DOMAIN c : c[i] \in ToSet(q) \cup ToSet(b)
    <3> TAKE i \in DOMAIN c
    <3>1. \/ i \in DOMAIN q /\ c[i] = q[i]
          \/ i - n \in DOMAIN b /\ c[i] = b[i - n]
      BY <1>1, <2>1
    <3> QED
      BY <3>1 DEF ToSet
  <2>3. \A i \in DOMAIN q : i \in DOMAIN c /\ c[i] = q[i]
    BY <1>1, <2>1
  <2>4. \A i \in DOMAIN b : n + i \in DOMAIN c /\ c[n + i] = b[i]
    BY <1>1, <2>1
  <2>5. ToSet(c) \subseteq ToSet(q) \cup ToSet(b)
    BY <2>2 DEF ToSet
  <2>6. ToSet(q) \cup ToSet(b) \subseteq ToSet(c)
    BY <2>3, <2>4 DEF ToSet
  <2> QED
    BY <2>5, <2>6 DEF c
<1> QED
  BY <1>2, <1>3, <1>4, NoneInNothing

\* The last roster of a queue that grows or shrinks.
LEMMA LastIsStep ==
  ASSUME NEW S, NEW q \in Seq(S), NEW ps, NEW k
  PROVE  /\ \A x \in S : LastIs(Append(q, x), ps, k) <=>
              IF x.type = "roster" THEN x.players = ps /\ x.idx = k ELSE LastIs(q, ps, k)
         /\ q # <<>> => (LastIs(q, ps, k) <=>
              \/ LastIs(Tail(q), ps, k)
              \/ /\ Silent(Tail(q)) /\ Head(q).type = "roster"
                 /\ Head(q).players = ps /\ Head(q).idx = k)
         /\ LastIs(q, ps, k) => ~Silent(q)
<1> DEFINE n == Len(q)
<1>1. n \in Nat /\ DOMAIN q = 1 .. n
  BY LenProperties
<1>2. ASSUME NEW x \in S
      PROVE  LastIs(Append(q, x), ps, k) <=>
               IF x.type = "roster" THEN x.players = ps /\ x.idx = k ELSE LastIs(q, ps, k)
  <2> DEFINE c == Append(q, x)
  <2>1. /\ DOMAIN c = 1 .. n + 1 /\ c[n + 1] = x
        /\ \A i \in 1 .. n : c[i] = q[i]
    BY <1>1, AppendProperties
  <2> HIDE DEF c, n
  <2>2. n + 1 \in DOMAIN c /\ \A i \in DOMAIN c : ~(i > n + 1) /\ (i # n + 1 => n + 1 > i)
    BY <1>1, <2>1
  <2>3. \A i \in DOMAIN c : i # n + 1 => i \in DOMAIN q /\ c[i] = q[i]
    BY <1>1, <2>1
  <2>4. \A i \in DOMAIN q : i \in DOMAIN c /\ c[i] = q[i] /\ i # n + 1
    BY <1>1, <2>1
  <2>5. CASE x.type = "roster"
    BY <2>1, <2>2, <2>5 DEF LastIs, c
  <2>6. CASE x.type # "roster"
    <3>1. ASSUME LastIs(c, ps, k) PROVE LastIs(q, ps, k)
      <4>1. PICK i \in DOMAIN c :
              /\ c[i].type = "roster" /\ c[i].players = ps /\ c[i].idx = k
              /\ \A j \in DOMAIN c : j > i => c[j].type # "roster"
        BY <3>1 DEF LastIs
      <4>2. i # n + 1
        BY <2>1, <2>6, <4>1
      <4>3. i \in DOMAIN q /\ c[i] = q[i]
        BY <2>3, <4>2
      <4>4. \A j \in DOMAIN q : j > i => q[j].type # "roster"
        BY <2>4, <4>1
      <4> QED
        BY <4>1, <4>3, <4>4 DEF LastIs
    <3>2. ASSUME LastIs(q, ps, k) PROVE LastIs(c, ps, k)
      <4>1. PICK i \in DOMAIN q :
              /\ q[i].type = "roster" /\ q[i].players = ps /\ q[i].idx = k
              /\ \A j \in DOMAIN q : j > i => q[j].type # "roster"
        BY <3>2 DEF LastIs
      <4>2. i \in DOMAIN c /\ c[i] = q[i]
        BY <2>4
      <4>3. \A j \in DOMAIN c : j > i => c[j].type # "roster"
        <5> TAKE j \in DOMAIN c
        <5>1. CASE j = n + 1
          BY <2>1, <2>6, <5>1
        <5>2. CASE j # n + 1
          BY <2>3, <4>1, <5>2
        <5> QED
          BY <5>1, <5>2
      <4> QED
        BY <4>1, <4>2, <4>3 DEF LastIs
    <3> QED
      BY <2>6, <3>1, <3>2 DEF c
  <2> QED
    BY <2>5, <2>6
<1>3. ASSUME q # <<>>
      PROVE  LastIs(q, ps, k) <=>
              \/ LastIs(Tail(q), ps, k)
              \/ /\ Silent(Tail(q)) /\ Head(q).type = "roster"
                 /\ Head(q).players = ps /\ Head(q).idx = k
  <2> DEFINE c == Tail(q)
  <2>1. /\ n # 0 /\ DOMAIN c = 1 .. n - 1 /\ Head(q) = q[1]
        /\ \A i \in 1 .. n - 1 : c[i] = q[i + 1]
    <3>1. c \in Seq(S) /\ Len(c) = n - 1 /\ n # 0
          /\ \A i \in 1 .. Len(c) : c[i] = q[i + 1]
      BY <1>3, HeadTailProperties, EmptySeq
    <3>2. DOMAIN c = 1 .. Len(c)
      BY <3>1, LenProperties
    <3> QED
      BY <1>3, <3>1, <3>2, HeadTailProperties
  <2> HIDE DEF c, n
  <2>2. \A i \in DOMAIN c : i + 1 \in DOMAIN q /\ c[i] = q[i + 1]
    BY <1>1, <2>1
  <2>3. 1 \in DOMAIN q /\ \A i \in DOMAIN q : i # 1 => i > 1
    BY <1>1, <2>1
  <2>4. \A i \in DOMAIN q : i # 1 => i - 1 \in DOMAIN c /\ c[i - 1] = q[i]
    BY <1>1, <2>1
  <2>5. ASSUME LastIs(q, ps, k), ~LastIs(c, ps, k)
        PROVE  Silent(c) /\ Head(q).type = "roster" /\ Head(q).players = ps /\ Head(q).idx = k
    <3>1. PICK i \in DOMAIN q :
            /\ q[i].type = "roster" /\ q[i].players = ps /\ q[i].idx = k
            /\ \A j \in DOMAIN q : j > i => q[j].type # "roster"
      BY <2>5 DEF LastIs
    <3>2. i = 1
      <4>1. ASSUME i # 1 PROVE FALSE
        <5>1. i - 1 \in DOMAIN c /\ c[i - 1] = q[i]
          BY <2>4, <4>1
        <5>2. \A j \in DOMAIN c : j > i - 1 => c[j].type # "roster"
          <6> TAKE j \in DOMAIN c
          <6>1. j + 1 \in DOMAIN q /\ c[j] = q[j + 1] /\ (j > i - 1 => j + 1 > i)
            BY <1>1, <2>1, <2>2
          <6> QED
            BY <3>1, <6>1
        <5> QED
          BY <2>5, <3>1, <5>1, <5>2 DEF LastIs
      <4> QED
        BY <4>1
    <3>3. \A j \in DOMAIN c : c[j].type # "roster"
      <4> TAKE j \in DOMAIN c
      <4>1. j + 1 \in DOMAIN q /\ c[j] = q[j + 1] /\ j + 1 > 1
        BY <1>1, <2>1, <2>2
      <4> QED
        BY <3>1, <3>2, <4>1
    <3> QED
      BY <2>1, <3>1, <3>2, <3>3 DEF Silent, ToSet
  <2>6. ASSUME LastIs(c, ps, k) PROVE LastIs(q, ps, k)
    <3>1. PICK i \in DOMAIN c :
            /\ c[i].type = "roster" /\ c[i].players = ps /\ c[i].idx = k
            /\ \A j \in DOMAIN c : j > i => c[j].type # "roster"
      BY <2>6 DEF LastIs
    <3>2. i + 1 \in DOMAIN q /\ c[i] = q[i + 1]
      BY <2>2
    <3>3. \A j \in DOMAIN q : j > i + 1 => q[j].type # "roster"
      <4> TAKE j \in DOMAIN q
      <4>1. j > i + 1 => j # 1 /\ j - 1 > i
        BY <1>1, <2>1
      <4> QED
        BY <2>4, <3>1, <4>1
    <3> QED
      BY <3>1, <3>2, <3>3 DEF LastIs
  <2>7. ASSUME Silent(c), Head(q).type = "roster", Head(q).players = ps, Head(q).idx = k
        PROVE  LastIs(q, ps, k)
    <3>1. \A j \in DOMAIN q : j > 1 => q[j].type # "roster"
      <4> TAKE j \in DOMAIN q
      <4>1. j > 1 => j - 1 \in DOMAIN c /\ c[j - 1] = q[j]
        BY <2>4
      <4> QED
        BY <2>7, <4>1 DEF Silent, ToSet
    <3> QED
      BY <2>1, <2>3, <2>7, <3>1 DEF LastIs
  <2> QED
    BY <2>5, <2>6, <2>7 DEF c
<1>4. LastIs(q, ps, k) => ~Silent(q)
  BY DEF LastIs, Silent, ToSet
<1> QED
  BY <1>2, <1>3, <1>4

LEMMA LastIsConcat ==
  ASSUME NEW S, NEW a \in Seq(S), NEW b \in Seq(S), NEW ps, NEW k
  PROVE  LastIs(a \o b, ps, k) <=> LastIs(b, ps, k) \/ (Silent(b) /\ LastIs(a, ps, k))
<1> DEFINE c == a \o b
           n == Len(a)
           l == Len(b)
<1>1. /\ n \in Nat /\ DOMAIN a = 1 .. n /\ l \in Nat /\ DOMAIN b = 1 .. l
      /\ DOMAIN c = 1 .. n + l
      /\ \A i \in 1 .. n + l : c[i] = IF i <= n THEN a[i] ELSE b[i - n]
  <2>1. c \in Seq(S) /\ Len(c) = n + l
        /\ \A i \in 1 .. n + l : c[i] = IF i <= n THEN a[i] ELSE b[i - n]
    BY ConcatProperties
  <2> QED
    BY <2>1, LenProperties
<1> HIDE DEF c, n, l
<1>2. \A i \in DOMAIN a : i \in DOMAIN c /\ c[i] = a[i]
  BY <1>1
<1>3. \A i \in DOMAIN b : n + i \in DOMAIN c /\ c[n + i] = b[i]
  BY <1>1
<1>4. \A i \in DOMAIN c : \/ i \in DOMAIN a /\ c[i] = a[i]
                          \/ i - n \in DOMAIN b /\ c[i] = b[i - n] /\ i > n
  BY <1>1
<1>5. ASSUME LastIs(b, ps, k) PROVE LastIs(c, ps, k)
  <2>1. PICK i \in DOMAIN b :
          /\ b[i].type = "roster" /\ b[i].players = ps /\ b[i].idx = k
          /\ \A j \in DOMAIN b : j > i => b[j].type # "roster"
    BY <1>5 DEF LastIs
  <2>2. n + i \in DOMAIN c /\ c[n + i] = b[i]
    BY <1>3
  <2>3. \A j \in DOMAIN c : j > n + i => c[j].type # "roster"
    <3> TAKE j \in DOMAIN c
    <3>1. j > n + i => j - n \in DOMAIN b /\ c[j] = b[j - n] /\ j - n > i
      BY <1>1
    <3> QED
      BY <2>1, <3>1
  <2> QED
    BY <2>1, <2>2, <2>3 DEF LastIs
<1>6. ASSUME Silent(b), LastIs(a, ps, k) PROVE LastIs(c, ps, k)
  <2>1. PICK i \in DOMAIN a :
          /\ a[i].type = "roster" /\ a[i].players = ps /\ a[i].idx = k
          /\ \A j \in DOMAIN a : j > i => a[j].type # "roster"
    BY <1>6 DEF LastIs
  <2>2. \A j \in DOMAIN b : b[j].type # "roster"
    BY <1>6 DEF Silent, ToSet
  <2>3. \A j \in DOMAIN c : j > i => c[j].type # "roster"
    BY <1>4, <2>1, <2>2
  <2> QED
    BY <1>2, <2>1, <2>3 DEF LastIs
<1>7. ASSUME LastIs(c, ps, k), ~LastIs(b, ps, k) PROVE Silent(b) /\ LastIs(a, ps, k)
  <2>1. PICK i \in DOMAIN c :
          /\ c[i].type = "roster" /\ c[i].players = ps /\ c[i].idx = k
          /\ \A j \in DOMAIN c : j > i => c[j].type # "roster"
    BY <1>7 DEF LastIs
  <2>2. CASE i \in DOMAIN a /\ c[i] = a[i]
    <3>1. \A j \in DOMAIN b : b[j].type # "roster"
      <4> TAKE j \in DOMAIN b
      <4>1. n + j \in DOMAIN c /\ c[n + j] = b[j] /\ n + j > i
        BY <1>1, <2>2
      <4> QED
        BY <2>1, <4>1
    <3>2. \A j \in DOMAIN a : j > i => a[j].type # "roster"
      BY <1>2, <2>1
    <3> QED
      BY <2>1, <2>2, <3>1, <3>2 DEF LastIs, Silent, ToSet
  <2>3. CASE i - n \in DOMAIN b /\ c[i] = b[i - n] /\ i > n
    <3>1. \A j \in DOMAIN b : j > i - n => b[j].type # "roster"
      <4> TAKE j \in DOMAIN b
      <4>1. n + j \in DOMAIN c /\ c[n + j] = b[j] /\ (j > i - n => n + j > i)
        BY <1>1
      <4> QED
        BY <2>1, <4>1
    <3> QED
      BY <1>7, <2>1, <2>3, <3>1 DEF LastIs
  <2> QED
    BY <1>4, <2>1, <2>2, <2>3
<1> QED
  BY <1>5, <1>6, <1>7 DEF c

\* Where there are rosters there is a last one.
LEMMA LastRoster ==
  ASSUME NEW S, NEW q \in Seq(S), ~Silent(q)
  PROVE  \E m \in ToSet(q) : m.type = "roster" /\ LastIs(q, m.players, m.idx)
<1> DEFINE n == Len(q)
           T == {d \in 0 .. n : n - d \in DOMAIN q /\ q[n - d].type = "roster"}
<1>1. n \in Nat /\ DOMAIN q = 1 .. n
  BY LenProperties
<1> HIDE DEF n
<1>2. T \in SUBSET Nat
  BY <1>1
<1>3. T # {}
  <2>1. PICK i \in DOMAIN q : q[i].type = "roster"
    BY DEF Silent, ToSet
  <2>2. n - i \in 0 .. n /\ n - (n - i) = i
    BY <1>1
  <2> QED
    BY <2>1, <2>2
<1>4. PICK m \in T : \A k \in T : <<k, m>> \notin OpToRel(<, Nat)
  BY <1>2, <1>3, WFMin, NatLessThanWellFounded, Zenon
<1>5. \A k \in T : ~(k < m)
  BY <1>2, <1>4, Zenon DEF OpToRel
<1> DEFINE i == n - m
<1>6. i \in DOMAIN q /\ q[i].type = "roster" /\ m \in 0 .. n
  OBVIOUS
<1>7. \A j \in DOMAIN q : j > i => q[j].type # "roster"
  <2> TAKE j \in DOMAIN q
  <2>1. j > i => n - j \in 0 .. n /\ n - (n - j) = j /\ n - j < m
    BY <1>1, <1>6
  <2> QED
    BY <1>5, <2>1
<1> HIDE DEF i
<1>8. LastIs(q, q[i].players, q[i].idx)
  BY <1>6, <1>7 DEF LastIs
<1> QED
  BY <1>6, <1>8 DEF ToSet

LEMMA SilentStep ==
  ASSUME NEW S, NEW q \in Seq(S)
  PROVE  /\ \A x \in S : Silent(Append(q, x)) <=> Silent(q) /\ x.type # "roster"
         /\ q # <<>> => (Silent(q) <=> Silent(Tail(q)) /\ Head(q).type # "roster")
         /\ \A b \in Seq(S) : Silent(q \o b) <=> Silent(q) /\ Silent(b)
         /\ Silent(<<>>)
<1>1. ASSUME NEW x \in S
      PROVE  Silent(Append(q, x)) <=> Silent(q) /\ x.type # "roster"
  <2>1. ToSet(Append(q, x)) = ToSet(q) \cup {x}
    BY SetOfQueue
  <2> QED
    BY <2>1 DEF Silent
<1>2. ASSUME q # <<>>
      PROVE  Silent(q) <=> Silent(Tail(q)) /\ Head(q).type # "roster"
  <2>1. ToSet(q) = ToSet(Tail(q)) \cup {Head(q)}
    BY <1>2, SetOfQueue
  <2> QED
    BY <2>1 DEF Silent
<1>3. ASSUME NEW b \in Seq(S)
      PROVE  Silent(q \o b) <=> Silent(q) /\ Silent(b)
  <2>1. ToSet(q \o b) = ToSet(q) \cup ToSet(b)
    BY SetOfQueue
  <2> QED
    BY <2>1 DEF Silent
<1> QED
  BY <1>1, <1>2, <1>3, NoneInNothing DEF Silent

\* The queues of a client.
Queues(e, st, d) ==
  e \in Seq(EventMessage) /\ st \in Seq(StrayMessage) /\ d \in Seq(NewsMessage)

\* A message that is no roster, or the next one itself, goes to the drain.
LEMMA FollowsEvent ==
  ASSUME NEW e, NEW st, NEW d, Queues(e, st, d), NEW u, NEW ps, NEW k,
         Follows(e, st, d, u, ps, k)
  PROVE  /\ \A x \in EventMessage : x.type # "roster" => Follows(Append(e, x), st, d, u, ps, k)
         /\ e # <<>> /\ Head(e).type # "roster" => Follows(Tail(e), st, d, u, ps, k)
         /\ \A v : e # <<>> /\ Head(e).type = "roster"
                     /\ Shows(v, Head(e).players, Head(e).idx) =>
                   Follows(Tail(e), st, d, v, ps, k)
         /\ \A v : (Shows(u, ps, k) => Shows(v, ps, k)) => Follows(e, st, d, v, ps, k)
<1>1. ASSUME NEW x \in EventMessage, x.type # "roster"
      PROVE  Follows(Append(e, x), st, d, u, ps, k)
  <2>1. /\ Silent(Append(e, x)) <=> Silent(e)
        /\ LastIs(Append(e, x), ps, k) <=> LastIs(e, ps, k)
    BY <1>1, SilentStep, LastIsStep DEF Queues
  <2> QED
    BY <2>1 DEF Follows, Due
<1>2. ASSUME e # <<>>, Head(e).type # "roster"
      PROVE  Follows(Tail(e), st, d, u, ps, k)
  <2>1. /\ Silent(Tail(e)) <=> Silent(e)
        /\ LastIs(Tail(e), ps, k) <=> LastIs(e, ps, k)
    BY <1>2, SilentStep, LastIsStep DEF Queues
  <2> QED
    BY <2>1 DEF Follows, Due
<1>3. ASSUME NEW v, e # <<>>, Head(e).type = "roster",
             Shows(v, Head(e).players, Head(e).idx)
      PROVE  Follows(Tail(e), st, d, v, ps, k)
  <2>1. /\ ~Silent(e)
        /\ LastIs(e, ps, k) <=>
             LastIs(Tail(e), ps, k)
             \/ (Silent(Tail(e)) /\ Head(e).players = ps /\ Head(e).idx = k)
    BY <1>3, SilentStep, LastIsStep DEF Queues
  <2> QED
    BY <1>3, <2>1 DEF Follows, Due
<1>4. ASSUME NEW v, Shows(u, ps, k) => Shows(v, ps, k)
      PROVE  Follows(e, st, d, v, ps, k)
  BY <1>4 DEF Follows
<1> QED
  BY <1>1, <1>2, <1>3, <1>4

\* The next message is heard: it goes to the drain as it is, or it was no roster.
LEMMA FollowsHeard ==
  ASSUME NEW e, NEW st, NEW d, Queues(e, st, d), NEW u, NEW ps, NEW k,
         Follows(e, st, d, u, ps, k)
  PROVE  /\ st # <<>> /\ Head(st).type = "roster" =>
              Follows(Append(e, Head(st)), Tail(st), d, u, ps, k)
         /\ st # <<>> /\ Head(st).type # "roster" => Follows(e, Tail(st), d, u, ps, k)
         /\ st = <<>> /\ d # <<>> /\ Head(d).type = "roster" =>
              Follows(Append(e, Head(d)), st, Tail(d), u, ps, k)
         /\ d # <<>> /\ Head(d).type # "roster" => Follows(e, st, Tail(d), u, ps, k)
<1>1. ASSUME st # <<>>, Head(st).type = "roster"
      PROVE  Follows(Append(e, Head(st)), Tail(st), d, u, ps, k)
  <2>1. Head(st) \in EventMessage
    <3>1. Head(st) \in StrayMessage
      BY <1>1, HeadTailProperties DEF Queues
    <3> QED
      BY <1>1, <3>1, Forwarded
  <2>2. /\ ~Silent(st)
        /\ LastIs(st, ps, k) <=>
             LastIs(Tail(st), ps, k)
             \/ (Silent(Tail(st)) /\ Head(st).players = ps /\ Head(st).idx = k)
    BY <1>1, SilentStep, LastIsStep DEF Queues
  <2>3. LastIs(Append(e, Head(st)), ps, k) <=> Head(st).players = ps /\ Head(st).idx = k
    BY <1>1, <2>1, LastIsStep DEF Queues
  <2> QED
    BY <2>2, <2>3 DEF Follows, Due
<1>2. ASSUME st # <<>>, Head(st).type # "roster"
      PROVE  Follows(e, Tail(st), d, u, ps, k)
  <2>1. /\ Silent(Tail(st)) <=> Silent(st)
        /\ LastIs(Tail(st), ps, k) <=> LastIs(st, ps, k)
    BY <1>2, SilentStep, LastIsStep DEF Queues
  <2> QED
    BY <2>1 DEF Follows, Due
<1>3. ASSUME st = <<>>, d # <<>>, Head(d).type = "roster"
      PROVE  Follows(Append(e, Head(d)), st, Tail(d), u, ps, k)
  <2>1. Head(d) \in EventMessage
    <3>1. Head(d) \in NewsMessage
      BY <1>3, HeadTailProperties DEF Queues
    <3> QED
      BY <1>3, <3>1, Forwarded
  <2>2. /\ ~Silent(d)
        /\ LastIs(d, ps, k) <=>
             LastIs(Tail(d), ps, k)
             \/ (Silent(Tail(d)) /\ Head(d).players = ps /\ Head(d).idx = k)
    BY <1>3, SilentStep, LastIsStep DEF Queues
  <2>3. LastIs(Append(e, Head(d)), ps, k) <=> Head(d).players = ps /\ Head(d).idx = k
    <3> DEFINE x == Head(d)
    <3>1. x \in EventMessage /\ x.type = "roster"
      BY <1>3, <2>1
    <3> HIDE DEF x
    <3>2. LastIs(Append(e, x), ps, k) <=> x.players = ps /\ x.idx = k
      BY <3>1, LastIsStep DEF Queues
    <3> QED
      BY <3>2 DEF x
  <2>4. Silent(st)
    BY <1>3, SilentStep DEF Queues
  <2> QED
    BY <2>2, <2>3, <2>4 DEF Follows, Due
<1>4. ASSUME d # <<>>, Head(d).type # "roster"
      PROVE  Follows(e, st, Tail(d), u, ps, k)
  <2>1. /\ Silent(Tail(d)) <=> Silent(d)
        /\ LastIs(Tail(d), ps, k) <=> LastIs(d, ps, k)
    BY <1>4, SilentStep, LastIsStep DEF Queues
  <2> QED
    BY <2>1 DEF Follows, Due
<1> QED
  BY <1>1, <1>2, <1>3, <1>4

\* A mesh build sets the next message aside, or drops one that is no roster.
LEMMA FollowsSetAside ==
  ASSUME NEW e, NEW st, NEW d, Queues(e, st, d), NEW u, NEW ps, NEW k,
         Follows(e, st, d, u, ps, k), d # <<>>
  PROVE  /\ Head(d) \in StrayMessage => Follows(e, Append(st, Head(d)), Tail(d), u, ps, k)
         /\ Head(d).type # "roster" => Follows(e, st, Tail(d), u, ps, k)
<1>1. ASSUME Head(d) \in StrayMessage, Head(d).type = "roster"
      PROVE  Follows(e, Append(st, Head(d)), Tail(d), u, ps, k)
  <2>1. /\ ~Silent(d)
        /\ LastIs(d, ps, k) <=>
             LastIs(Tail(d), ps, k)
             \/ (Silent(Tail(d)) /\ Head(d).players = ps /\ Head(d).idx = k)
    BY <1>1, SilentStep, LastIsStep DEF Queues
  <2>2. LastIs(Append(st, Head(d)), ps, k) <=> Head(d).players = ps /\ Head(d).idx = k
    <3> DEFINE x == Head(d)
    <3>1. x \in StrayMessage /\ x.type = "roster"
      BY <1>1
    <3> HIDE DEF x
    <3>2. st \in Seq(StrayMessage)
      BY DEF Queues
    <3>3. LastIs(Append(st, x), ps, k) <=> x.players = ps /\ x.idx = k
      BY <3>1, <3>2, LastIsStep
    <3> QED
      BY <3>3 DEF x
  <2> QED
    BY <2>1, <2>2 DEF Follows, Due
<1>2. ASSUME Head(d) \in StrayMessage, Head(d).type # "roster"
      PROVE  Follows(e, Append(st, Head(d)), Tail(d), u, ps, k)
  <2>1. /\ Silent(Tail(d)) <=> Silent(d)
        /\ LastIs(Tail(d), ps, k) <=> LastIs(d, ps, k)
    BY <1>2, SilentStep, LastIsStep DEF Queues
  <2>2. /\ Silent(Append(st, Head(d))) <=> Silent(st)
        /\ LastIs(Append(st, Head(d)), ps, k) <=> LastIs(st, ps, k)
    BY <1>2, SilentStep, LastIsStep DEF Queues
  <2> QED
    BY <2>1, <2>2 DEF Follows, Due
<1>3. Head(d).type # "roster" => Follows(e, st, Tail(d), u, ps, k)
  BY FollowsHeard
<1> QED
  BY <1>1, <1>2, <1>3

\* The server tells more.
LEMMA FollowsNews ==
  ASSUME NEW e, NEW st, NEW d, Queues(e, st, d), NEW u, NEW ps, NEW k,
         NEW news \in Seq(NewsMessage)
  PROVE  /\ LastIs(news, ps, k) => Follows(e, st, d \o news, u, ps, k)
         /\ Silent(news) /\ Follows(e, st, d, u, ps, k) => Follows(e, st, d \o news, u, ps, k)
<1>1. LastIs(d \o news, ps, k) <=> LastIs(news, ps, k) \/ (Silent(news) /\ LastIs(d, ps, k))
  BY LastIsConcat DEF Queues
<1>2. Silent(d \o news) <=> Silent(d) /\ Silent(news)
  BY SilentStep DEF Queues
<1> QED
  BY <1>1, <1>2 DEF Follows, Due

-----------------------------------------------------------------------------
(* The panel follows the room                                              *)

Working(s) == lobby[s].phase \notin {"off", "done"}

Players(s) == room[sock[s].code].players
Place(s)   == Position(room[sock[s].code], s)

\* A client whose socket the server has closed will hear of it.
EndIsComing(s) == sock[s].link # "new" /\ (sock[s].link # "open" => Ends(down[s]))

\* One that is in no room has yet to be heard, or will hear that it is not let in.
EntryIsComing(s) ==
  sock[s].link = "open" /\ ~Placed(s) =>
    Refuses(down[s]) \/ Refuses(lobby[s].stray) \/ Enters(up[s])

PanelFollows(s) ==
  Follows(events[s], lobby[s].stray, down[s], ui[s], Players(s), Place(s))

Mirrored(s) ==
  Working(s) =>
    /\ EndIsComing(s) /\ EntryIsComing(s)
    /\ sock[s].link = "open" /\ Placed(s) /\ drain[s] # "over" => PanelFollows(s)

MirrorInv == CInv /\ \A s \in Socket : Mirrored(s)

\* At rest nothing is on its way, so that the panel shows it already.
LEMMA MirrorMeansFaithful ==
  ASSUME MirrorInv
  PROVE  MirrorFaithful
<1> SUFFICES ASSUME NEW s \in Socket, Quiet(s), ui[s].here
             PROVE  /\ Placed(s)
                    /\ ui[s].players = room[sock[s].code].players
                    /\ ui[s].me = Position(room[sock[s].code], s)
  BY DEF MirrorFaithful
<1>1. drain[s] # "over"
  BY NoUiType DEF MirrorInv, CInv, PanelsClear
<1>2. /\ Working(s) /\ up[s] = <<>> /\ down[s] = <<>> /\ events[s] = <<>>
      /\ lobby[s].stray = <<>>
  BY <1>1 DEF Quiet, Settled, Working
<1>3. /\ ~Ends(<<>>) /\ ~Refuses(<<>>) /\ ~Enters(<<>>)
      /\ \A ps, k : ~LastIs(<<>>, ps, k)
  BY NoneInNothing DEF Ends, Refuses, Enters, LastIs
<1>4. sock[s].link = "open" /\ Placed(s)
  BY <1>2, <1>3 DEF MirrorInv, Mirrored, EndIsComing, EntryIsComing
<1>5. Follows(<<>>, <<>>, <<>>, ui[s], Players(s), Place(s))
  BY <1>1, <1>2, <1>4 DEF MirrorInv, Mirrored, PanelFollows
<1>6. Shows(ui[s], Players(s), Place(s))
  BY <1>3, <1>5 DEF Follows, Due
<1> QED
  BY <1>4, <1>6 DEF Shows, Players, Place

-----------------------------------------------------------------------------
(* ... as the client takes a step *)

QueuesOf(s) == Queues(events[s], lobby[s].stray, down[s])

LEMMA TypedQueues ==
  ASSUME CInv, NEW s \in Socket
  PROVE  QueuesOf(s) /\ up[s] \in Seq(UpMessage) /\ cmds[s] \in Seq(CommandMessage)
  BY DEF CInv, ClientTypes, TaskType, QueuesOf, Queues

\* Nothing of a client changes.
Rests(t) ==
  /\ lobby'[t] = lobby[t] /\ up'[t] = up[t] /\ down'[t] = down[t]
  /\ events'[t] = events[t] /\ drain'[t] = drain[t] /\ ui'[t] = ui[t]

LEMMA SameServer ==
  ASSUME ServerIdle, NEW s \in Socket
  PROVE  /\ Placed(s)' = Placed(s) /\ sock'[s].link = sock[s].link
         /\ Players(s)' = Players(s) /\ Place(s)' = Place(s)
  BY DEF ServerIdle, Placed, In, Players, Place, Position

LEMMA RestMirrors ==
  ASSUME ServerIdle, NEW t \in Socket, Mirrored(t), Rests(t)
  PROVE  Mirrored(t)'
<1>1. /\ Placed(t)' = Placed(t) /\ sock'[t].link = sock[t].link
      /\ Players(t)' = Players(t) /\ Place(t)' = Place(t)
  BY SameServer
<1>2. PanelFollows(t)' = PanelFollows(t)
  BY <1>1 DEF PanelFollows, Rests
<1> QED
  BY <1>1, <1>2 DEF Mirrored, Working, EndIsComing, EntryIsComing, Rests

\* What a step of the client must keep.
LEMMA OwnMirrors ==
  ASSUME ServerIdle, NEW s \in Socket, Mirrored(s), Working(s),
         Ends(down[s]) => Ends(down'[s]),
         Refuses(down[s]) \/ Refuses(lobby[s].stray) \/ Enters(up[s]) =>
           Refuses(down'[s]) \/ Refuses(lobby'[s].stray) \/ Enters(up'[s]),
         drain'[s] # "over" =>
           /\ drain[s] # "over"
           /\ Follows(events[s], lobby[s].stray, down[s], ui[s], Players(s), Place(s)) =>
                Follows(events'[s], lobby'[s].stray, down'[s], ui'[s], Players(s), Place(s))
  PROVE  Mirrored(s)'
<1>1. /\ Placed(s)' = Placed(s) /\ sock'[s].link = sock[s].link
      /\ Players(s)' = Players(s) /\ Place(s)' = Place(s)
  BY SameServer
<1>2. drain'[s] # "over" /\ PanelFollows(s) => PanelFollows(s)'
  BY <1>1 DEF PanelFollows
<1>3. EndIsComing(s)' /\ EntryIsComing(s)'
  BY <1>1 DEF Mirrored, EndIsComing, EntryIsComing
<1> QED
  BY <1>1, <1>2, <1>3 DEF Mirrored

\* The lobby hears a message and lives on, or its task is over.
LEMMA HearsIs ==
  ASSUME CInv, NEW s \in Socket, NEW m \in NewsMessage, NEW after \in TaskType, NEW rest,
         Hears(s, m, after, rest)
  PROVE  \/ ~Working(s)'
         \/ /\ up' = up /\ down' = [down EXCEPT ![s] = rest]
            /\ lobby'[s].stray = after.stray
            /\ m.type # "closed" /\ ~Refusal(m)
            /\ \/ m.type = "roster" /\ events' = Emit(s, m)
               \/ m.type # "roster" /\ events' = events
               \/ m.type # "roster" /\ events' = Emit(s, Plain("joined"))
               \/ m.type # "roster" /\ events' = Emit(s, Plain("error"))
               \/ m.type # "roster" /\ events' = Emit(s, Plain("starting"))
<1>1. Dies(s, "fatal") \/ Dies(s, "kicked") => ~Working(s)'
  BY DEF Dies, Returns, Task, Working, CInv, ClientTypes
<1>2. Closed.type = "closed"
  BY DEF Closed, Plain
<1>3. lobby \in [Socket -> TaskType]
  BY DEF CInv, ClientTypes
<1>4. ASSUME NEW next, lobby' = [lobby EXCEPT ![s] = next]
      PROVE  lobby'[s] = next
  BY <1>3, <1>4
<1>5. m.type = "starting" =>
        [after EXCEPT !.phase = "mesh", !.roms = m.roms, !.lost = FALSE,
                      !.dance = FALSE].stray = after.stray
  BY DEF TaskType
<1> QED
  BY <1>1, <1>2, <1>3, <1>5 DEF Hears, Refusal

LEMMA HearingRests ==
  ASSUME CInv, NEW s \in Socket, NEW t \in Socket \ {s}, ReplayStray(s) \/ HearServer(s)
  PROVE  Rests(t)
<1>1. PICK m, after, rest : Hears(s, m, after, rest) /\ UNCHANGED <<drain, ui>>
  BY DEF ReplayStray, HearServer, player
<1>2. /\ \A e : events' = Emit(s, e) => events'[t] = events[t]
      /\ \A n : lobby' = [lobby EXCEPT ![s] = n] => lobby'[t] = lobby[t]
      /\ \A n : down' = [down EXCEPT ![s] = n] => down'[t] = down[t]
      /\ \A n : up' = [up EXCEPT ![s] = n] => up'[t] = up[t]
  BY DEF Emit, Post, CInv, ClientTypes
<1>3. events'[t] = events[t]
  BY <1>1, <1>2 DEF Hears, Dies
<1>4. lobby'[t] = lobby[t] /\ down'[t] = down[t] /\ up'[t] = up[t]
  BY <1>1, <1>2 DEF Hears, Dies, Returns
<1> QED
  BY <1>1, <1>3, <1>4 DEF Rests

\* What is emitted reaches the drain, if there is one.
LEMMA EmitFollows ==
  ASSUME CInv, NEW s \in Socket, NEW st \in Seq(StrayMessage), NEW d \in Seq(NewsMessage),
         NEW u, NEW ps, NEW k, drain[s] # "over",
         Follows(events[s], st, d, u, ps, k),
         \/ events' = events
         \/ \E x \in EventMessage : x.type # "roster" /\ events' = Emit(s, x)
  PROVE  Follows(events'[s], st, d, u, ps, k)
<1>1. events \in [Socket -> Seq(EventMessage)] /\ Queues(events[s], st, d)
  BY DEF CInv, ClientTypes, Queues
<1>2. ASSUME NEW x \in EventMessage, x.type # "roster", events' = Emit(s, x)
      PROVE  Follows(events'[s], st, d, u, ps, k)
  <2>1. events'[s] = Append(events[s], x)
    BY <1>1, <1>2 DEF Emit, Post
  <2>2. Follows(Append(events[s], x), st, d, u, ps, k)
    BY <1>1, <1>2, FollowsEvent
  <2> QED
    BY <2>1, <2>2
<1> QED
  BY <1>2

LEMMA PlainEvents ==
  \A kind \in {"joined", "error", "starting", "mergeFailed", "fatal", "kicked"} :
    Plain(kind) \in EventMessage /\ Plain(kind).type # "roster"
  BY PlainMessages DEF Plain

LEMMA EmittedRoster ==
  ASSUME CInv, NEW s \in Socket, drain[s] # "over", NEW m, events' = Emit(s, m)
  PROVE  events'[s] = Append(events[s], m)
  BY DEF Emit, Post, CInv, ClientTypes

LEMMA ReplayMirrors ==
  ASSUME CInv, NEW s \in Socket, Mirrored(s), ReplayStray(s)
  PROVE  Mirrored(s)'
<1> DEFINE st == lobby[s].stray
           m  == Head(st)
           after == [lobby[s] EXCEPT !.stray = Tail(@)]
<1>1. /\ ServerIdle /\ st # <<>> /\ lobby[s].phase = "idle"
      /\ drain' = drain /\ ui' = ui /\ Hears(s, m, after, down[s])
  BY DEF ReplayStray, player
<1>2. /\ lobby[s] \in TaskType /\ st \in Seq(StrayMessage) /\ down[s] \in Seq(NewsMessage)
      /\ QueuesOf(s)
  BY TypedQueues DEF CInv, ClientTypes, TaskType
<1>3. m \in StrayMessage /\ Tail(st) \in Seq(StrayMessage)
  BY <1>1, <1>2, HeadTailProperties
<1>4. m \in NewsMessage /\ after \in TaskType /\ after.stray = Tail(st)
  BY <1>2, <1>3, Forwarded DEF TaskType
<1>5. Working(s)
  BY <1>1 DEF Working
<1> HIDE DEF after
<1>6. CASE ~Working(s)'
  BY <1>6 DEF Mirrored
<1>7. CASE /\ up' = up /\ down' = [down EXCEPT ![s] = down[s]]
           /\ lobby'[s].stray = after.stray
           /\ m.type # "closed" /\ ~Refusal(m)
           /\ \/ m.type = "roster" /\ events' = Emit(s, m)
              \/ m.type # "roster" /\ events' = events
              \/ m.type # "roster" /\ events' = Emit(s, Plain("joined"))
              \/ m.type # "roster" /\ events' = Emit(s, Plain("error"))
              \/ m.type # "roster" /\ events' = Emit(s, Plain("starting"))
  <2>1. down'[s] = down[s] /\ up'[s] = up[s] /\ lobby'[s].stray = Tail(st)
    BY <1>4, <1>7 DEF CInv, ClientTypes
  <2>2. Refuses(st) => Refuses(Tail(st))
    <3>1. ToSet(st) = ToSet(Tail(st)) \cup {m}
      BY <1>1, <1>2, SetOfQueue
    <3> QED
      BY <1>7, <3>1 DEF Refuses
  <2>3. ASSUME drain[s] # "over",
               Follows(events[s], st, down[s], ui[s], Players(s), Place(s))
        PROVE  Follows(events'[s], Tail(st), down[s], ui[s], Players(s), Place(s))
    <3>1. CASE m.type = "roster"
      <4>1. events' = Emit(s, m)
        BY <1>7, <3>1
      <4>2. events'[s] = Append(events[s], m)
        BY <2>3, <4>1, EmittedRoster
      <4>3. Follows(Append(events[s], m), Tail(st), down[s], ui[s], Players(s), Place(s))
        BY <1>1, <1>2, <2>3, <3>1, FollowsHeard DEF QueuesOf
      <4> QED
        BY <4>2, <4>3
    <3>2. CASE m.type # "roster"
      <4>1. Follows(events[s], Tail(st), down[s], ui[s], Players(s), Place(s))
        BY <1>1, <1>2, <2>3, <3>2, FollowsHeard DEF QueuesOf
      <4>2. events' = events \/ \E x \in EventMessage : x.type # "roster" /\ events' = Emit(s, x)
        BY <1>7, <3>2, PlainEvents
      <4> QED
        BY <1>2, <1>3, <2>3, <4>1, <4>2, EmitFollows
    <3> QED
      BY <3>1, <3>2
  <2> QED
    BY <1>1, <1>5, <2>1, <2>2, <2>3, OwnMirrors
<1> QED
  BY <1>1, <1>4, <1>6, <1>7, HearsIs

LEMMA HearServerMirrors ==
  ASSUME CInv, NEW s \in Socket, Mirrored(s), HearServer(s)
  PROVE  Mirrored(s)'
<1> DEFINE d == down[s]
           m == Head(d)
<1>1. /\ ServerIdle /\ d # <<>> /\ lobby[s].phase = "idle" /\ lobby[s].stray = <<>>
      /\ drain' = drain /\ ui' = ui /\ Hears(s, m, lobby[s], Tail(d))
  BY DEF HearServer, Selecting, player
<1>2. lobby[s] \in TaskType /\ d \in Seq(NewsMessage) /\ QueuesOf(s)
      /\ lobby[s].stray \in Seq(StrayMessage)
  BY TypedQueues DEF CInv, ClientTypes, TaskType
<1>3. m \in NewsMessage /\ Tail(d) \in Seq(NewsMessage)
  BY <1>1, <1>2, HeadTailProperties
<1>4. Working(s)
  BY <1>1 DEF Working
<1>5. CASE ~Working(s)'
  BY <1>5 DEF Mirrored
<1>6. CASE /\ up' = up /\ down' = [down EXCEPT ![s] = Tail(d)]
           /\ lobby'[s].stray = lobby[s].stray
           /\ m.type # "closed" /\ ~Refusal(m)
           /\ \/ m.type = "roster" /\ events' = Emit(s, m)
              \/ m.type # "roster" /\ events' = events
              \/ m.type # "roster" /\ events' = Emit(s, Plain("joined"))
              \/ m.type # "roster" /\ events' = Emit(s, Plain("error"))
              \/ m.type # "roster" /\ events' = Emit(s, Plain("starting"))
  <2>1. down'[s] = Tail(d) /\ up'[s] = up[s] /\ lobby'[s].stray = lobby[s].stray
    BY <1>6 DEF CInv, ClientTypes
  <2>2. (Refuses(d) => Refuses(Tail(d))) /\ (Ends(d) => Ends(Tail(d)))
    <3>1. ToSet(d) = ToSet(Tail(d)) \cup {m}
      BY <1>1, <1>2, SetOfQueue
    <3> QED
      BY <1>6, <3>1 DEF Refuses, Ends
  <2>3. ASSUME drain[s] # "over",
               Follows(events[s], lobby[s].stray, d, ui[s], Players(s), Place(s))
        PROVE  Follows(events'[s], lobby[s].stray, Tail(d), ui[s], Players(s), Place(s))
    <3>1. CASE m.type = "roster"
      <4>1. events' = Emit(s, m)
        BY <1>6, <3>1
      <4>2. events'[s] = Append(events[s], m)
        BY <2>3, <4>1, EmittedRoster
      <4>3. Follows(Append(events[s], m), lobby[s].stray, Tail(d), ui[s], Players(s), Place(s))
        BY <1>1, <1>2, <2>3, <3>1, FollowsHeard DEF QueuesOf
      <4> QED
        BY <4>2, <4>3
    <3>2. CASE m.type # "roster"
      <4>1. Follows(events[s], lobby[s].stray, Tail(d), ui[s], Players(s), Place(s))
        BY <1>1, <1>2, <2>3, <3>2, FollowsHeard DEF QueuesOf
      <4>2. events' = events \/ \E x \in EventMessage : x.type # "roster" /\ events' = Emit(s, x)
        BY <1>6, <3>2, PlainEvents
      <4> QED
        BY <1>2, <1>3, <2>3, <4>1, <4>2, EmitFollows
    <3> QED
      BY <3>1, <3>2
  <2> QED
    BY <1>1, <1>4, <2>1, <2>2, <2>3, OwnMirrors
<1> QED
  BY <1>1, <1>2, <1>3, <1>5, <1>6, HearsIs

\* A task that is over has nothing left to mirror.
LEMMA OverMirrors ==
  ASSUME CInv, NEW s \in Socket, NEW bye, Returns(s, bye)
  PROVE  Mirrored(s)'
  BY DEF Returns, Task, Mirrored, Working, CInv, ClientTypes

\* What changes of one client leaves the others at rest.
LEMMA OneClient ==
  ASSUME CInv, NEW s \in Socket, NEW t \in Socket \ {s}
  PROVE  /\ \A e : events' = Emit(s, e) => events'[t] = events[t]
         /\ \A e : events' = [events EXCEPT ![s] = e] => events'[t] = events[t]
         /\ \A n : lobby' = [lobby EXCEPT ![s] = n] => lobby'[t] = lobby[t]
         /\ \A n : down' = [down EXCEPT ![s] = n] => down'[t] = down[t]
         /\ \A n : up' = [up EXCEPT ![s] = n] => up'[t] = up[t]
         /\ \A n : drain' = [drain EXCEPT ![s] = n] => drain'[t] = drain[t]
         /\ \A n : ui' = [ui EXCEPT ![s] = n] => ui'[t] = ui[t]
  BY DEF Emit, Post, CInv, ClientTypes

\* A step that only says something, moves the task on, or emits no roster.
LEMMA MovingMirrors ==
  ASSUME CInv, ServerIdle, NEW s \in Socket, Mirrored(s), Working(s),
         lobby'[s].stray = lobby[s].stray, down' = down, drain' = drain, ui' = ui,
         Enters(up[s]) => Enters(up'[s]),
         events' = events \/ \E x \in EventMessage : x.type # "roster" /\ events' = Emit(s, x)
  PROVE  Mirrored(s)'
<1>1. ASSUME drain[s] # "over",
             Follows(events[s], lobby[s].stray, down[s], ui[s], Players(s), Place(s))
      PROVE  Follows(events'[s], lobby[s].stray, down[s], ui[s], Players(s), Place(s))
  <2>1. lobby[s].stray \in Seq(StrayMessage) /\ down[s] \in Seq(NewsMessage)
    BY TypedQueues DEF QueuesOf, Queues
  <2> QED
    BY <1>1, <2>1, EmitFollows
<1> QED
  BY <1>1, OwnMirrors

LEMMA EntersMore ==
  ASSUME CInv, NEW s \in Socket, NEW out \in Seq(UpMessage)
  PROVE  Enters(up[s]) => Enters(up[s] \o out)
<1>1. ToSet(up[s] \o out) = ToSet(up[s]) \cup ToSet(out)
  BY TypedQueues, SetOfQueue
<1> QED
  BY <1>1 DEF Enters

LEMMA TimersMirror ==
  ASSUME CInv, NEW s \in Socket, Mirrored(s), DanceStep(s) \/ PauseEnds(s) \/ MeshUp(s)
  PROVE  Mirrored(s)' /\ \A t \in Socket \ {s} : Rests(t)
<1>1. /\ ServerIdle /\ down' = down /\ drain' = drain /\ ui' = ui /\ events' = events
      /\ up' = up \/ up' = Post(up, s, Ready(FALSE))
      /\ Working(s)
  BY DEF DanceStep, PauseEnds, MeshUp, wire, player, Selecting, Working
<1>2. /\ lobby'[s].stray = lobby[s].stray
      /\ \A t \in Socket \ {s} : lobby'[t] = lobby[t]
  <2>1. lobby \in [Socket -> TaskType]
    BY DEF CInv, ClientTypes
  <2>2. \/ lobby' = [lobby EXCEPT ![s].dance = FALSE]
        \/ \E phase \in {"idle", "boot"} : lobby' = [lobby EXCEPT ![s].phase = phase]
    BY DEF DanceStep, PauseEnds, MeshUp
  <2> QED
    BY <2>1, <2>2 DEF TaskType
<1>3. up \in [Socket -> Seq(UpMessage)] /\ Ready(FALSE) \in UpMessage
  BY PlainMessages DEF CInv, ClientTypes
<1>4. Enters(up[s]) => Enters(up'[s])
  <2>1. ToSet(Append(up[s], Ready(FALSE))) = ToSet(up[s]) \cup {Ready(FALSE)}
    <3>1. up[s] \in Seq(UpMessage)
      BY <1>3
    <3> DEFINE x == Ready(FALSE)
    <3>2. x \in UpMessage
      BY <1>3
    <3> HIDE DEF x
    <3>3. ToSet(Append(up[s], x)) = ToSet(up[s]) \cup {x}
      BY <3>1, <3>2, SetOfQueue
    <3> QED
      BY <3>3 DEF x
  <2>2. up'[s] = up[s] \/ up'[s] = Append(up[s], Ready(FALSE))
    BY <1>1, <1>3 DEF Post
  <2> QED
    BY <2>1, <2>2 DEF Enters
<1>5. \A t \in Socket \ {s} : up'[t] = up[t]
  BY <1>1, <1>3 DEF Post
<1>6. Mirrored(s)'
  BY <1>1, <1>2, <1>4, MovingMirrors
<1> QED
  BY <1>1, <1>2, <1>5, <1>6 DEF Rests

LEMMA ExchangeMirrors ==
  ASSUME CInv, NEW s \in Socket, Mirrored(s), ExchangeDone(s)
  PROVE  Mirrored(s)' /\ \A t \in Socket \ {s} : Rests(t)
<1> DEFINE x == [type |-> "sessionReady", roms |-> lobby[s].roms]
<1>1. /\ ServerIdle /\ down' = down /\ up' = up /\ drain' = drain /\ ui' = ui
      /\ events' = Emit(s, x) /\ Working(s)
  BY DEF ExchangeDone, wire, player, Working
<1>2. /\ lobby'[s].stray = lobby[s].stray
      /\ \A t \in Socket \ {s} : lobby'[t] = lobby[t]
  BY DEF ExchangeDone, CInv, ClientTypes, TaskType
<1>3. x \in EventMessage /\ x.type # "roster"
  BY DEF EventMessage, CInv, ClientTypes, TaskType
<1> HIDE DEF x
<1>4. Mirrored(s)'
  BY <1>1, <1>2, <1>3, MovingMirrors
<1>5. \A t \in Socket \ {s} : events'[t] = events[t]
  BY <1>1, OneClient
<1> QED
  BY <1>1, <1>2, <1>4, <1>5 DEF Rests

LEMMA FailuresMirror ==
  ASSUME CInv, NEW s \in Socket, Mirrored(s), MergeFails(s)
  PROVE  Mirrored(s)' /\ \A t \in Socket \ {s} : Rests(t)
<1>1. /\ ServerIdle /\ drain' = drain /\ ui' = ui /\ Working(s)
      /\ \/ Dies(s, "kicked")
         \/ /\ events' = Emit(s, Plain("mergeFailed")) /\ UNCHANGED wire
            /\ lobby' = [lobby EXCEPT ![s].phase = IF peripheral[s] THEN "pause" ELSE "idle"]
  BY DEF MergeFails, player, Working
<1>2. \A t \in Socket \ {s} : events'[t] = events[t]
  BY <1>1, OneClient DEF Dies
<1>3. CASE Dies(s, "kicked")
  <2>1. \A t \in Socket \ {s} : up'[t] = up[t] /\ down'[t] = down[t] /\ lobby'[t] = lobby[t]
    BY <1>3, OneClient DEF Dies, Returns
  <2> QED
    BY <1>1, <1>2, <1>3, <2>1, OverMirrors DEF Dies, Rests
<1>4. CASE /\ events' = Emit(s, Plain("mergeFailed")) /\ UNCHANGED wire
           /\ lobby' = [lobby EXCEPT ![s].phase = IF peripheral[s] THEN "pause" ELSE "idle"]
  <2>1. /\ lobby'[s].stray = lobby[s].stray
        /\ \A t \in Socket \ {s} : lobby'[t] = lobby[t]
    BY <1>4 DEF CInv, ClientTypes, TaskType
  <2>2. up' = up /\ down' = down
    BY <1>4 DEF wire
  <2>3. Mirrored(s)'
    BY <1>1, <1>4, <2>1, <2>2, PlainEvents, MovingMirrors
  <2> QED
    BY <1>1, <1>2, <2>1, <2>2, <2>3 DEF Rests
<1> QED
  BY <1>1, <1>3, <1>4

LEMMA CommandsMirror ==
  ASSUME CInv, NEW s \in Socket, Mirrored(s), ReadCommand(s)
  PROVE  Mirrored(s)' /\ \A t \in Socket \ {s} : Rests(t)
<1> DEFINE m == Head(cmds[s])
<1>1. /\ ServerIdle /\ drain' = drain /\ ui' = ui /\ events' = events
      /\ \/ Quits(s)
         \/ /\ down' = down
            /\ \E task \in {lobby[s],
                            [lobby[s] EXCEPT !.dance =
                               @ \/ (lobby[s].phase = "idle" /\ peripheral[s])],
                            [lobby[s] EXCEPT !.phase = "exchange"]} :
                 lobby' = [lobby EXCEPT ![s] = task]
            /\ \/ m.type \in Asks /\ up' = [up EXCEPT ![s] = @ \o <<m>>]
               \/ up' = [up EXCEPT ![s] = @ \o <<>>]
  BY DEF ReadCommand, player, Quits
<1>2. Working(s)
  BY DEF ReadCommand, Selecting, Working
<1>3. m \in CommandMessage
  BY HeadTailProperties DEF ReadCommand, CInv, ClientTypes
<1> HIDE DEF m
<1>4. CASE Quits(s)
  <2>1. \A t \in Socket \ {s} : up'[t] = up[t] /\ down'[t] = down[t] /\ lobby'[t] = lobby[t]
    BY <1>4, OneClient DEF Quits, Returns
  <2> QED
    BY <1>1, <1>4, <2>1, OverMirrors DEF Quits, Rests
<1>5. CASE /\ down' = down
           /\ \E task \in {lobby[s],
                           [lobby[s] EXCEPT !.dance =
                              @ \/ (lobby[s].phase = "idle" /\ peripheral[s])],
                           [lobby[s] EXCEPT !.phase = "exchange"]} :
                lobby' = [lobby EXCEPT ![s] = task]
           /\ \/ m.type \in Asks /\ up' = [up EXCEPT ![s] = @ \o <<m>>]
              \/ up' = [up EXCEPT ![s] = @ \o <<>>]
  <2>1. lobby'[s].stray = lobby[s].stray
    BY <1>5 DEF CInv, ClientTypes, TaskType
  <2>2. \A t \in Socket \ {s} : up'[t] = up[t] /\ lobby'[t] = lobby[t]
    BY <1>5, OneClient
  <2>3. \E out \in Seq(UpMessage) : up'[s] = up[s] \o out
    <3>1. m.type \in Asks => <<m>> \in Seq(UpMessage)
      BY <1>3, Forwarded, OneType
    <3>2. <<>> \in Seq(UpMessage)
      BY EmptySeq
    <3> QED
      BY <1>5, <3>1, <3>2 DEF CInv, ClientTypes
  <2>4. Enters(up[s]) => Enters(up'[s])
    BY <2>3, EntersMore
  <2>5. Mirrored(s)'
    BY <1>1, <1>2, <1>5, <2>1, <2>4, MovingMirrors
  <2> QED
    BY <1>1, <1>5, <2>2, <2>5 DEF Rests
<1> QED
  BY <1>1, <1>4, <1>5

LEMMA MeshMirrors ==
  ASSUME CInv, NEW s \in Socket, Mirrored(s), HearInMesh(s)
  PROVE  Mirrored(s)' /\ \A t \in Socket \ {s} : Rests(t)
<1> DEFINE d == down[s]
           m == Head(d)
           st == lobby[s].stray
<1>1. /\ ServerIdle /\ d # <<>> /\ m # Closed /\ Working(s)
      /\ up' = up /\ events' = events /\ drain' = drain /\ ui' = ui
  BY DEF HearInMesh, player, Working
<1>2. d \in Seq(NewsMessage) /\ st \in Seq(StrayMessage) /\ QueuesOf(s)
  BY TypedQueues DEF QueuesOf, Queues
<1>3. m \in NewsMessage /\ Tail(d) \in Seq(NewsMessage)
  BY <1>1, <1>2, HeadTailProperties
<1>4. /\ lobby'[s].stray = IF m.type \in {"roster", "starting", "error"}
                           THEN Append(st, m) ELSE st
      /\ \A t \in Socket \ {s} : lobby'[t] = lobby[t]
      /\ down'[s] = Tail(d)
      /\ \A t \in Socket \ {s} : down'[t] = down[t]
  BY DEF HearInMesh, Take, CInv, ClientTypes, TaskType
<1>5. m.type # "closed"
  BY <1>1, <1>3 DEF Closed, Plain, NewsMessage, StrayMessage, RosterMessage
<1>6. ToSet(d) = ToSet(Tail(d)) \cup {m}
  BY <1>1, <1>2, SetOfQueue
<1>7. Ends(d) => Ends(Tail(d))
  BY <1>5, <1>6 DEF Ends
<1>8. \A x \in StrayMessage : ToSet(Append(st, x)) = ToSet(st) \cup {x}
  BY <1>2, SetOfQueue
<1>9. Refuses(d) \/ Refuses(st) => Refuses(Tail(d)) \/ Refuses(lobby'[s].stray)
  <2>1. CASE m.type \in {"roster", "starting", "error"}
    <3>1. ToSet(lobby'[s].stray) = ToSet(st) \cup {m}
      BY <1>3, <1>4, <1>8, <2>1, Forwarded
    <3> QED
      BY <1>6, <3>1 DEF Refuses
  <2>2. CASE ~(m.type \in {"roster", "starting", "error"})
    BY <1>4, <1>6, <2>2 DEF Refuses, Refusal
  <2> QED
    BY <2>1, <2>2
<1>10. ASSUME Follows(events[s], st, d, ui[s], Players(s), Place(s))
       PROVE  Follows(events[s], lobby'[s].stray, Tail(d), ui[s], Players(s), Place(s))
  <2>1. /\ m \in StrayMessage =>
             Follows(events[s], Append(st, m), Tail(d), ui[s], Players(s), Place(s))
        /\ m.type # "roster" => Follows(events[s], st, Tail(d), ui[s], Players(s), Place(s))
    BY <1>1, <1>2, <1>10, FollowsSetAside DEF QueuesOf
  <2> QED
    BY <1>3, <1>4, <2>1, Forwarded
<1>11. Mirrored(s)'
  BY <1>1, <1>4, <1>7, <1>9, <1>10, OwnMirrors
<1> QED
  BY <1>1, <1>4, <1>11 DEF Rests

LEMMA LobbyMirrors ==
  ASSUME CInv, NEW s \in Socket, Mirrored(s), LobbyTask(s)
  PROVE  ServerIdle /\ Mirrored(s)' /\ \A t \in Socket \ {s} : Rests(t)
<1>1. ServerIdle
  BY DEF LobbyTask, ReplayStray, HearServer, ReadCommand, HearInMesh, DanceStep, PauseEnds,
         MeshUp, MergeFails, ExchangeDone
<1>2. CASE ReplayStray(s) \/ HearServer(s)
  BY <1>1, <1>2, ReplayMirrors, HearServerMirrors, HearingRests
<1>3. CASE ReadCommand(s)
  BY <1>1, <1>3, CommandsMirror
<1>4. CASE HearInMesh(s)
  BY <1>1, <1>4, MeshMirrors
<1>5. CASE DanceStep(s) \/ PauseEnds(s) \/ MeshUp(s)
  BY <1>1, <1>5, TimersMirror
<1>6. CASE MergeFails(s)
  BY <1>1, <1>6, FailuresMirror
<1>7. CASE ExchangeDone(s)
  BY <1>1, <1>7, ExchangeMirrors
<1> QED
  BY <1>2, <1>3, <1>4, <1>5, <1>6, <1>7 DEF LobbyTask

\* A panel that is shown was shown before, with the same roster in it.
SamePanel(u, v) == v.here => u.here /\ v.players = u.players /\ v.me = u.me

\* Nothing of another client changes but what its drain and its user see of it.
Apart(s) ==
  /\ ServerIdle /\ UNCHANGED <<up, down, lobby>>
  /\ \A t \in Socket \ {s} :
       events'[t] = events[t] /\ drain'[t] = drain[t] /\ ui'[t] = ui[t]

LEMMA ApartRests ==
  ASSUME NEW s \in Socket, Apart(s), NEW t \in Socket \ {s}
  PROVE  Rests(t)
  BY DEF Apart, Rests

\* The drain takes an event that is no roster, or is over.
LEMMA ShownMirrors ==
  ASSUME CInv, NEW s \in Socket, Mirrored(s), Apart(s),
         drain'[s] # "over" =>
           /\ drain[s] # "over" /\ SamePanel(ui[s], ui'[s])
           /\ \/ events'[s] = events[s]
              \/ /\ events[s] # <<>> /\ Head(events[s]).type # "roster"
                 /\ events'[s] = Tail(events[s])
  PROVE  Mirrored(s)'
<1>1. ServerIdle /\ up' = up /\ down' = down /\ lobby' = lobby
  BY DEF Apart
<1>2. ASSUME drain'[s] # "over",
             Follows(events[s], lobby[s].stray, down[s], ui[s], Players(s), Place(s))
      PROVE  Follows(events'[s], lobby[s].stray, down[s], ui'[s], Players(s), Place(s))
  <2>1. Queues(events[s], lobby[s].stray, down[s])
    BY TypedQueues DEF QueuesOf
  <2>2. Shows(ui[s], Players(s), Place(s)) => Shows(ui'[s], Players(s), Place(s))
    BY <1>2 DEF SamePanel, Shows
  <2>3. Follows(events'[s], lobby[s].stray, down[s], ui[s], Players(s), Place(s))
    BY <1>2, <2>1, FollowsEvent
  <2> QED
    BY <2>2, <2>3 DEF Follows
<1>3. CASE Working(s)
  BY <1>1, <1>2, <1>3, OwnMirrors
<1>4. CASE ~Working(s)
  BY <1>1, <1>4 DEF Mirrored, Working
<1> QED
  BY <1>3, <1>4

\* A roster is shown as it came.
LEMMA RosterMirrors ==
  ASSUME CInv, NEW s \in Socket, Mirrored(s), DrainRoster(s)
  PROVE  Apart(s) /\ Mirrored(s)'
<1> DEFINE m == Head(events[s])
           v == [ui[s] EXCEPT !.players = m.players, !.me = m.idx]
<1>1. /\ drain[s] = "loop" /\ events[s] # <<>> /\ m.type = "roster"
      /\ ServerIdle /\ up' = up /\ down' = down /\ lobby' = lobby /\ drain' = drain
      /\ Panel(s, v) /\ events' = Take(events, s) /\ Drains(s, "roster")
  BY DrainFacts DEF DrainRoster
<1>2. events'[s] = Tail(events[s]) /\ \A t \in Socket \ {s} : events'[t] = events[t]
  BY <1>1 DEF Take, CInv, ClientTypes
<1>3. /\ \A t \in Socket \ {s} : ui'[t] = ui[t]
      /\ Shows(ui'[s], m.players, m.idx)
  <2>1. ui[s] \in PanelType
    BY DEF CInv, ClientTypes
  <2>2. v.players = m.players /\ v.me = m.idx
    BY <2>1 DEF PanelType
  <2>3. \/ ui' = ui /\ ~ui[s].here
        \/ ui' = [ui EXCEPT ![s] = v]
    BY <1>1 DEF Panel
  <2> HIDE DEF v, m
  <2>4. \/ ui' = ui /\ ~ui[s].here
        \/ ui'[s] = v /\ \A t \in Socket \ {s} : ui'[t] = ui[t]
    BY <2>3 DEF CInv, ClientTypes
  <2> QED
    BY <2>2, <2>4 DEF Shows
<1>4. Apart(s)
  BY <1>1, <1>2, <1>3 DEF Apart
<1> HIDE DEF m, v
<1>5. ASSUME Follows(events[s], lobby[s].stray, down[s], ui[s], Players(s), Place(s))
      PROVE  Follows(events'[s], lobby[s].stray, down[s], ui'[s], Players(s), Place(s))
  <2>1. Queues(events[s], lobby[s].stray, down[s])
    BY TypedQueues DEF QueuesOf
  <2> USE DEF m
  <2> QED
    BY <1>1, <1>2, <1>3, <1>5, <2>1, FollowsEvent
<1>6. ServerIdle /\ up' = up /\ down' = down /\ lobby' = lobby /\ drain' = drain
  BY <1>1
<1>7. CASE Working(s)
  BY <1>4, <1>5, <1>6, <1>7, OwnMirrors
<1>8. CASE ~Working(s)
  BY <1>4, <1>6, <1>8 DEF Mirrored, Working
<1> QED
  BY <1>7, <1>8

LEMMA FailedMirrors ==
  ASSUME CInv, NEW s \in Socket, Mirrored(s), NEW m, LinkFailed(s, m), ServerIdle,
         UNCHANGED <<up, down, lobby>>
  PROVE  Apart(s) /\ Mirrored(s)'
<1>1. drain'[s] = "over"
  BY DEF LinkFailed, CInv, ClientTypes
<1>2. Apart(s)
  BY OneClient DEF LinkFailed, Apart
<1> QED
  BY <1>1, <1>2, ShownMirrors

\* The panel after an event that is no roster.
LEMMA PanelStays ==
  ASSUME CInv, NEW s \in Socket, NEW b,
         \/ Panel(s, [ui[s] EXCEPT !.code = b])
         \/ Panel(s, [ui[s] EXCEPT !.starting = b])
         \/ ui' = ui
         \/ ui' = [ui EXCEPT ![s] = NoUi]
         \/ ui' = [ui EXCEPT ![s].starting = b]
  PROVE  SamePanel(ui[s], ui'[s]) /\ \A t \in Socket \ {s} : ui'[t] = ui[t]
<1>1. ui \in [Socket -> PanelType] /\ ui[s] \in PanelType
  BY DEF CInv, ClientTypes
<1>2. \A x \in {[ui[s] EXCEPT !.code = b], [ui[s] EXCEPT !.starting = b]} :
        x.here = ui[s].here /\ x.players = ui[s].players /\ x.me = ui[s].me
  BY <1>1 DEF PanelType
<1>3. \/ ui' = ui
      \/ \E x \in {[ui[s] EXCEPT !.code = b], [ui[s] EXCEPT !.starting = b], NoUi} :
           ui' = [ui EXCEPT ![s] = x]
  BY DEF Panel
<1>4. CASE ui' = ui
  BY <1>4 DEF SamePanel
<1>5. ASSUME NEW x \in {[ui[s] EXCEPT !.code = b], [ui[s] EXCEPT !.starting = b], NoUi},
             ui' = [ui EXCEPT ![s] = x]
      PROVE  SamePanel(ui[s], ui'[s]) /\ \A t \in Socket \ {s} : ui'[t] = ui[t]
  <2>1. ui'[s] = x /\ \A t \in Socket \ {s} : ui'[t] = ui[t]
    BY <1>1, <1>5
  <2>2. SamePanel(ui[s], x)
    BY <1>2, NoUiType DEF SamePanel
  <2> QED
    BY <2>1, <2>2
<1> QED
  BY <1>3, <1>4, <1>5

LEMMA DrainMirrors ==
  ASSUME CInv, NEW s \in Socket, Mirrored(s), DrainTask(s)
  PROVE  Apart(s) /\ Mirrored(s)'
<1>1. ServerIdle /\ UNCHANGED <<up, down, lobby>>
  BY DEF DrainTask, DrainJoined, DrainRoster, DrainError, DrainStarting, DrainMergeFailed,
         DrainEnd, DrainSessionReady, DrainEpilogue, Unplugged, PlugIn, Drains, DrainOnly, wire
<1>2. ASSUME NEW m, LinkFailed(s, m)
      PROVE  Apart(s) /\ Mirrored(s)'
  BY <1>1, <1>2, FailedMirrors
\* The drain goes on.
<1>3. ASSUME drain[s] # "over",
             drain' = drain \/ \E p : drain' = [drain EXCEPT ![s] = p],
             SamePanel(ui[s], ui'[s]), \A t \in Socket \ {s} : ui'[t] = ui[t],
             \/ events' = events
             \/ /\ events[s] # <<>> /\ Head(events[s]).type # "roster"
                /\ events' = Take(events, s)
      PROVE  Apart(s) /\ Mirrored(s)'
  <2>2. /\ events'[s] = events[s] \/ events'[s] = Tail(events[s])
        /\ events'[s] # events[s] => events[s] # <<>> /\ Head(events[s]).type # "roster"
        /\ \A t \in Socket \ {s} : events'[t] = events[t]
    BY <1>3 DEF Take, CInv, ClientTypes
  <2>3. \A t \in Socket \ {s} : drain'[t] = drain[t]
    BY <1>3, OneClient
  <2>4. Apart(s)
    BY <1>1, <1>3, <2>2, <2>3 DEF Apart
  <2> QED
    BY <1>3, <2>2, <2>4, ShownMirrors
<1>4. CASE DrainRoster(s)
  BY <1>4, RosterMirrors
<1>5. CASE DrainJoined(s)
  <2>1. /\ Drains(s, "joined") /\ Panel(s, [ui[s] EXCEPT !.code = TRUE])
        /\ drain' = drain /\ events' = Take(events, s)
    BY <1>5 DEF DrainJoined
  <2>2. drain[s] = "loop" /\ events[s] # <<>> /\ Head(events[s]).type # "roster"
    BY <2>1, DrainFacts
  <2> QED
    BY <1>3, <2>1, <2>2, PanelStays
<1>6. CASE DrainError(s)
  <2>1. /\ Drains(s, "error") /\ ui' = ui
        /\ drain' = drain /\ events' = Take(events, s)
    BY <1>6 DEF DrainError, player
  <2>2. drain[s] = "loop" /\ events[s] # <<>> /\ Head(events[s]).type # "roster"
    BY <2>1, DrainFacts
  <2> QED
    BY <1>3, <2>1, <2>2, PanelStays
<1>7. CASE DrainStarting(s)
  <2>1. /\ Drains(s, "starting")
        /\ \/ LinkFailed(s, machine[s])
           \/ /\ Panel(s, [ui[s] EXCEPT !.starting = TRUE])
              /\ drain' = drain \/ drain' = [drain EXCEPT ![s] = "unplugging"]
              /\ events' = Take(events, s)
    BY <1>7 DEF DrainStarting
  <2>2. drain[s] = "loop" /\ events[s] # <<>> /\ Head(events[s]).type # "roster"
    BY <2>1, DrainFacts
  <2> QED
    BY <1>2, <1>3, <2>1, <2>2, PanelStays
<1>8. CASE DrainMergeFailed(s)
  <2>1. /\ Drains(s, "mergeFailed") /\ Panel(s, [ui[s] EXCEPT !.starting = FALSE])
        /\ drain' = drain /\ events' = Take(events, s)
    BY <1>8 DEF DrainMergeFailed
  <2>2. drain[s] = "loop" /\ events[s] # <<>> /\ Head(events[s]).type # "roster"
    BY <2>1, DrainFacts
  <2> QED
    BY <1>3, <2>1, <2>2, PanelStays
<1>9. CASE DrainEnd(s)
  BY <1>2, <1>9 DEF DrainEnd
<1>10. CASE DrainSessionReady(s)
  <2>1. /\ Drains(s, "sessionReady")
        /\ \/ LinkFailed(s, machine[s])
           \/ /\ drain' = [drain EXCEPT ![s] = "reading"] /\ events' = Take(events, s)
              /\ ui' = ui
    BY <1>10 DEF DrainSessionReady, player
  <2>2. drain[s] = "loop" /\ events[s] # <<>> /\ Head(events[s]).type # "roster"
    BY <2>1, DrainFacts
  <2> QED
    BY <1>2, <1>3, <2>1, <2>2, PanelStays
<1>11. CASE DrainEpilogue(s)
  <2>1. /\ ui' = [ui EXCEPT ![s] = NoUi] /\ drain' = [drain EXCEPT ![s] = "over"]
        /\ events' = events
    BY <1>11 DEF DrainEpilogue
  <2>2. Apart(s) /\ drain'[s] = "over"
    BY <1>1, <2>1, OneClient DEF Apart, CInv, ClientTypes
  <2> QED
    BY <2>2, ShownMirrors
<1>12. CASE Unplugged(s)
  <2>1. /\ drain[s] = "unplugging"
        /\ \/ LinkFailed(s, machine[s])
           \/ drain' = [drain EXCEPT ![s] = "loop"] /\ events' = events /\ ui' = ui
    BY <1>12 DEF Unplugged, Capture
  <2> QED
    BY <1>2, <1>3, <2>1, PanelStays
<1>13. CASE PlugIn(s)
  <2>1. /\ drain[s] = "reading"
        /\ \/ LinkFailed(s, machine[s])
           \/ /\ drain' = [drain EXCEPT ![s] = "loop"] /\ events' = events
              /\ Panel(s, [ui[s] EXCEPT !.starting = FALSE])
    BY <1>13 DEF PlugIn
  <2> QED
    BY <1>2, <1>3, <2>1, PanelStays
<1> QED
  BY <1>4, <1>5, <1>6, <1>7, <1>8, <1>9, <1>10, <1>11, <1>12, <1>13 DEF DrainTask

LEMMA UserMirrors ==
  ASSUME CInv, NEW s \in Socket, Mirrored(s),
         \/ PumpUnplugs(s) \/ PeerGone(s) \/ LaunchGame(s) \/ LinkUp(s)
         \/ EjectPlayer(s) \/ LeaveRoom(s) \/ QuitGame(s)
  PROVE  Apart(s) /\ Mirrored(s)'
<1>1. /\ MachineOnly
      /\ ui' = ui \/ ui' = [ui EXCEPT ![s] = NoUi] \/ ui' = [ui EXCEPT ![s].starting = TRUE]
  BY DEF PumpUnplugs, PeerGone, LaunchGame, LinkUp, EjectPlayer, LeaveRoom, QuitGame, player
<1>2. SamePanel(ui[s], ui'[s]) /\ \A t \in Socket \ {s} : ui'[t] = ui[t]
  BY <1>1, PanelStays
<1>3. Apart(s)
  BY <1>1, <1>2 DEF Apart, MachineOnly, wire
<1> QED
  BY <1>1, <1>2, <1>3, ShownMirrors DEF MachineOnly

-----------------------------------------------------------------------------
(* ... and as the server takes one *)

\* A socket is closed once and for all.
LinksOnlyClose ==
  \A t \in Socket : sock[t].link # "new" =>
    /\ sock'[t].link # "new"
    /\ sock'[t].link = "open" => sock[t].link = "open"

\* Nobody is put out of a room whose socket stays open.
StaysPlaced ==
  \A t \in Socket : Placed(t) /\ sock'[t].link = "open" => Placed(t)'

ServerTurn ==
  /\ IInv' /\ sent' \in Out /\ Tidings /\ AnnouncedNow /\ LinksOnlyClose /\ StaysPlaced

LEMMA LinksClose ==
  ASSUME IInv, Next
  PROVE  LinksOnlyClose
<1>1. ASSUME NEW c, NEW r, sock' = Stamped(c, r)
      PROVE  LinksOnlyClose
  <2>1. ASSUME NEW t \in Socket PROVE sock'[t].link = sock[t].link
    <3>1. sock'[t] = sock[t] \/ sock'[t].link = sock[t].link
      BY <1>1 DEF Stamped
    <3> QED
      BY <3>1
  <2> QED
    BY <2>1 DEF LinksOnlyClose
<1>2. CASE Steady
  BY <1>2 DEF Steady, LinksOnlyClose
<1>3. Steady \/ Converging \/ LinkingUp
  BY RecordSteps DEF RecordStep
<1> QED
  BY <1>1, <1>2, <1>3 DEF Converging, LinkingUp

\* A record that is written keeps those in their places whom it still lists.
LEMMA WrittenStays ==
  ASSUME IInv, NEW c, NEW r, room' = Put(c, r), NEW t \in Socket, Placed(t),
         sock'[t].code = sock[t].code, sock[t].code = c => In(r, t)
  PROVE  Placed(t)'
<1>1. /\ DOMAIN room' = DOMAIN room \cup {c} /\ room'[c] = r
      /\ \A d \in DOMAIN room : d # c => room'[d] = room[d]
  BY PutFacts
<1> QED
  BY <1>1 DEF Placed, In

LEMMA EntryStays ==
  ASSUME IInv, NEW s \in Socket, NEW c \in Code, NEW rom \in Rom, NEW w \in BOOLEAN,
         CreateRoom(s, c, rom, w) \/ JoinRoom(s, c, rom)
  PROVE  StaysPlaced /\ Placed(s)'
<1> DEFINE r == NewRoom(s, rom, w)
           q == Seated(room[c], s, rom)
<1>1. /\ sock[s].code = NoCode /\ sock' = [sock EXCEPT ![s].code = c]
      /\ \/ c \notin DOMAIN room /\ room' = Put(c, r)
         \/ c \in DOMAIN room /\ room' = Put(c, q)
  BY DEF CreateRoom, JoinRoom, Unattached
<1>2. sock'[s].code = c /\ \A t \in Socket \ {s} : sock'[t] = sock[t]
  BY <1>1, SockFields DEF IInv, Shape, Attached
<1>3. ~In(room[c], s) \/ c \notin DOMAIN room
  BY <1>1, StoredRoom DEF IInv
<1>4. /\ \A t : In(r, t) <=> t = s
      /\ c \in DOMAIN room => \A t : In(q, t) <=> In(room[c], t) \/ t = s
  BY <1>3, NewRoomListed, SeatedListed, StoredRoom DEF IInv
<1>5. ~Placed(s)
  BY <1>1, NoCodeAssumption DEF Placed, IInv, Shape
<1> HIDE DEF r, q
<1>6. c \in DOMAIN room' /\ In(room'[c], s)
  <2>1. CASE c \notin DOMAIN room /\ room' = Put(c, r)
    <3>1. DOMAIN room' = DOMAIN room \cup {c} /\ room'[c] = r
      BY <2>1, PutFacts
    <3> QED
      BY <1>4, <3>1
  <2>2. CASE c \in DOMAIN room /\ room' = Put(c, q)
    <3>1. DOMAIN room' = DOMAIN room \cup {c} /\ room'[c] = q
      BY <2>2, PutFacts
    <3> QED
      BY <1>4, <2>2, <3>1
  <2> QED
    BY <1>1, <2>1, <2>2
<1>7. ASSUME NEW t \in Socket, Placed(t) PROVE Placed(t)'
  <2>1. t # s /\ sock'[t].code = sock[t].code
    BY <1>2, <1>5, <1>7
  <2>2. CASE c \notin DOMAIN room /\ room' = Put(c, r)
    BY <1>7, <2>1, <2>2, WrittenStays DEF Placed
  <2>3. CASE c \in DOMAIN room /\ room' = Put(c, q)
    BY <1>4, <1>7, <2>1, <2>3, WrittenStays DEF Placed
  <2> QED
    BY <1>1, <2>2, <2>3
<1> QED
  BY <1>2, <1>6, <1>7 DEF StaysPlaced, Placed

LEMMA DepartureStays ==
  ASSUME IInv, NEW s \in Socket, NEW link \in {"closing", "gone"}, Depart(s, link)
  PROVE  StaysPlaced /\ sock'[s].link # "open"
<1> DEFINE c    == sock[s].code
           k    == Position(room[c], s)
           left == Without(room[c], k)
<1>1. sock'[s].link = link /\ \A t \in Socket \ {s} : sock'[t] = sock[t]
  <2>1. Detached(s, link).link = link
    BY DEF Detached
  <2> QED
    BY <2>1 DEF Depart, IInv, Shape
<1>2. \/ room' = room
      \/ Placed(s) /\ left.players = <<>> /\ room' = Delete({c})
      \/ Placed(s) /\ room' = Put(c, left)
  BY DEF Depart
<1>3. Placed(s) => /\ c \in DOMAIN room /\ room[c] \in Room /\ k \in DOMAIN room[c].players
                   /\ room[c].players[k].id = s /\ WellListed(room[c])
  BY StoredRoom, RoomFields DEF IInv, Placed
<1> HIDE DEF c, k
<1>4. Placed(s) => \A t \in Socket \ {s} : In(room[c], t) => In(left, t)
  BY <1>3, WithoutListed
<1> HIDE DEF left
<1>5. ASSUME NEW t \in Socket, Placed(t), sock'[t].link = "open" PROVE Placed(t)'
  <2>1. t # s /\ sock'[t] = sock[t]
    BY <1>1, <1>5
  <2>2. CASE room' = room
    BY <1>5, <2>1, <2>2 DEF Placed
  <2>3. CASE Placed(s) /\ left.players = <<>> /\ room' = Delete({c})
    <3>1. sock[t].code # c
      BY <1>4, <1>5, <2>1, <2>3 DEF Placed, In
    <3>2. sock[t].code \in DOMAIN room' /\ room'[sock[t].code] = room[sock[t].code]
      BY <1>5, <2>3, <3>1, DeleteFacts DEF Placed, Delete
    <3> QED
      BY <1>5, <2>1, <3>2 DEF Placed
  <2>4. CASE Placed(s) /\ room' = Put(c, left)
    BY <1>4, <1>5, <2>1, <2>4, WrittenStays DEF Placed
  <2> QED
    BY <1>2, <2>2, <2>3, <2>4
<1> QED
  BY <1>1, <1>5 DEF StaysPlaced

LEMMA KickStays ==
  ASSUME IInv, NEW s \in Socket, NEW seat, NEW link \in {"closing", "broken"},
         KickPlayer(s, seat, link)
  PROVE  StaysPlaced
<1> DEFINE c      == sock[s].code
           r      == room[c]
           target == CHOOSE i \in DOMAIN r.players : r.players[i].seat = seat
           k      == r.players[target].id
           left   == Without(r, target)
           a      == Detached(k, link)
<1>1. /\ c \in DOMAIN room /\ target \in DOMAIN r.players /\ room' = Put(c, left)
      /\ \/ Speaking(k) /\ sock' = [sock EXCEPT ![k] = a]
         \/ ~Speaking(k) /\ sock' = sock
  <2>1. \E i \in DOMAIN r.players : r.players[i].seat = seat
    BY DEF KickPlayer
  <2>2. target \in DOMAIN r.players
    BY <2>1
  <2> QED
    BY <2>2 DEF KickPlayer, Placed
<1> HIDE DEF c, target
<1>2. r \in Room /\ WellListed(r)
  BY <1>1, StoredRoom DEF IInv
<1>3. k \in Socket /\ \A t : In(left, t) <=> In(r, t) /\ t # k
  BY <1>1, <1>2, WithoutListed, RoomFields
<1> HIDE DEF r, left, k
<1>4. sock'[k].link # "open" /\ \A t \in Socket \ {k} : sock'[t] = sock[t]
  <2>1. Detached(k, link).link # "open"
    BY DEF Detached
  <2> QED
    BY <1>1, <1>3, <2>1 DEF IInv, Shape, Speaking
<1>5. ASSUME NEW t \in Socket, Placed(t), sock'[t].link = "open" PROVE Placed(t)'
  <2>1. t # k /\ sock'[t] = sock[t]
    BY <1>4, <1>5
  <2>2. sock[t].code = c => In(left, t)
    BY <1>3, <1>5, <2>1 DEF Placed, r
  <2> QED
    BY <1>1, <1>5, <2>1, <2>2, WrittenStays
<1> QED
  BY <1>5 DEF StaysPlaced

LEMMA StampStays ==
  ASSUME IInv, NEW c \in DOMAIN room, NEW r, \A t : In(r, t) <=> In(room[c], t),
         sock' = sock \/ sock' = Stamped(c, r),
         NEW q, \A t : In(q, t) <=> In(r, t), room' = Put(c, q)
  PROVE  StaysPlaced
<1>1. ASSUME NEW t \in Socket, Placed(t) PROVE Placed(t)'
  <2>1. sock'[t].code = sock[t].code
    <3>1. In(r, t) => sock[t].code = c
      BY StoredRoom DEF IInv
    <3>2. CASE sock' = Stamped(c, r)
      <4>1. sock'[t] = sock[t] \/ (In(r, t) /\ sock'[t].code = c)
        BY <3>2 DEF Stamped
      <4> QED
        BY <3>1, <4>1
    <3> QED
      BY <3>2
  <2> QED
    BY <1>1, <2>1, WrittenStays DEF Placed
<1> QED
  BY <1>1 DEF StaysPlaced

LEMMA ReadyStays ==
  ASSUME IInv, NEW s \in Socket, NEW b \in BOOLEAN, SetReady(s, b)
  PROVE  StaysPlaced
<1> DEFINE c == sock[s].code
           k == Position(room[c], s)
           r == Asserted(room[c], k, b)
<1>1. c \in DOMAIN room /\ room[c] \in Room /\ k \in DOMAIN room[c].players
  BY StoredRoom, RoomFields DEF IInv, SetReady, Placed
<1>2. \/ room' = Put(c, Merged(r)) /\ sock' = Stamped(c, r)
      \/ room' = Put(c, r) /\ sock' = sock
  BY DEF SetReady
<1> HIDE DEF c, k
<1>3. r \in Room /\ \A t : In(r, t) <=> In(room[c], t)
  BY <1>1, AssertedListed, AssertedProperties
<1> HIDE DEF r
<1>4. \A t : In(Merged(r), t) <=> In(r, t)
  BY <1>3, MergedListed
<1> QED
  BY <1>1, <1>2, <1>3, <1>4, StampStays

LEMMA StartStays ==
  ASSUME IInv, NEW s \in Socket, StartRoom(s)
  PROVE  StaysPlaced
<1> DEFINE c == sock[s].code
<1>1. /\ c \in DOMAIN room /\ room[c] \in Room
      /\ room' = Put(c, Merged(room[c])) /\ sock' = Stamped(c, room[c])
  BY StoredRoom DEF IInv, StartRoom, Placed
<1> HIDE DEF c
<1>2. \A t : In(Merged(room[c]), t) <=> In(room[c], t)
  BY <1>1, MergedListed
<1> QED
  BY <1>1, <1>2, StampStays

LEMMA SameStays ==
  ASSUME room' = room, \A t \in Socket : sock'[t].code = sock[t].code
  PROVE  StaysPlaced
  BY DEF StaysPlaced, Placed

\* Everything the server may do in a step of the composition.
LEMMA HandledTurn ==
  ASSUME CInv, NEW s \in Socket, ServerHandles(s)
  PROVE  ServerTurn
<1> DEFINE m == Head(up[s])
<1>1. m \in UpMessage
  BY QueueSteps DEF ServerHandles, CInv, ClientTypes
<1>2. m.type = "setReady" => m.ready \in BOOLEAN
  BY <1>1 DEF UpMessage
<1>3. Entering(s, m) \/ Asking(s, m) \/ Going(s, m) \/ Unheard(s, m)
  BY DEF ServerHandles
<1> HIDE DEF m
<1>4. StaysPlaced
  <2>1. ASSUME room' = room, sock' = sock PROVE StaysPlaced
    BY <2>1, SameStays
  <2>2. CASE Entering(s, m)
    <3>1. OwnRom[s] \in Rom /\ peripheral[s] \in BOOLEAN
      BY LibraryAssumption DEF CInv, ClientTypes
    <3>2. PICK c \in Code : \/ CreateRoom(s, c, OwnRom[s], peripheral[s])
                            \/ JoinRoom(s, c, OwnRom[s]) \/ RefuseJoin(s, c)
      BY <2>2 DEF Entering
    <3> QED
      BY <2>1, <3>1, <3>2, EntryStays DEF RefuseJoin, CInv
  <2>3. CASE Asking(s, m)
    BY <1>2, <2>1, <2>3, ReadyStays, StartStays, KickStays
       DEF Asking, RefuseStart, RefuseKick, IgnoreMessage, CInv
  <2>4. CASE Going(s, m)
    BY <2>4, DepartureStays DEF Going, Leave, CloseEvent, CInv
  <2>5. CASE Unheard(s, m)
    BY <2>1, <2>5 DEF Unheard, ServerIdle
  <2> QED
    BY <1>3, <2>2, <2>3, <2>4, <2>5
<1>5. CASE ServerMoves
  BY <1>4, <1>5, LinksClose, AnnouncedStep DEF ServerMoves, ServerTurn, CInv
<1>6. CASE ServerIdle
  <2>1. IInv' /\ sent' \in Out
    BY <1>6, ServerPart DEF CInv, SentOK
  <2>2. Tidings /\ AnnouncedNow /\ LinksOnlyClose
    BY <1>6, NothingIsTold, SamePlayersAnnounce DEF ServerIdle, LinksOnlyClose
  <2> QED
    BY <1>4, <2>1, <2>2 DEF ServerTurn
<1> QED
  BY <1>5, <1>6, ServerStep DEF CInv

LEMMA BrokenTurn ==
  ASSUME CInv, NEW s \in Socket, Disconnect(s)
  PROVE  ServerTurn /\ sock'[s].link # "open"
<1>1. Next
  BY DEF Next, Environment, Exits, Disconnect
<1>2. ServerMoves
  BY BreakStep DEF CInv, Disconnect
<1>3. CASE ErrorEvent(s, "closing")
  BY <1>1, <1>2, <1>3, DepartureStays, LinksClose, AnnouncedStep
     DEF ErrorEvent, CInv, ServerMoves, ServerTurn
<1>4. CASE LoseSocket(s)
  <2>1. room' = room /\ sock' = [sock EXCEPT ![s].link = "gone"]
    BY <1>4 DEF LoseSocket
  <2>2. sock'[s].link # "open" /\ \A t \in Socket : sock'[t].code = sock[t].code
    BY <2>1 DEF CInv, IInv, Shape, Attached
  <2> QED
    BY <1>1, <1>2, <2>1, <2>2, SameStays, LinksClose, AnnouncedStep
       DEF CInv, ServerMoves, ServerTurn
<1> QED
  BY <1>3, <1>4 DEF Disconnect

\* What is in flight to a working client after a step of the server.
LEMMA FlowIs ==
  ASSUME CInv, ServerTurn, Flow, NEW t \in Socket, Working(t)
  PROVE  /\ News(t) \in Seq(NewsMessage) /\ News(t) = sent'[t]
         /\ down[t] \in Seq(NewsMessage) /\ down[t] \o News(t) \in Seq(NewsMessage)
         /\ ~Ended(t) => down'[t] = down[t] \o News(t)
         /\ Ended(t) => down'[t] = Append(down[t] \o News(t), Closed)
<1>1. News(t) \in Seq(NewsMessage) /\ News(t) = sent'[t]
  BY NewsType DEF ServerTurn
<1>2. down[t] \in Seq(NewsMessage)
  BY DEF CInv, ClientTypes
<1> DEFINE d == down[t] \o News(t)
<1>3. d \in Seq(NewsMessage)
  BY <1>1, <1>2, ConcatType
<1>4. down'[t] = d \o (IF Ended(t) THEN <<Closed>> ELSE <<>>)
  BY DEF Flow, Working
<1> HIDE DEF d
<1>5. d \o <<>> = d /\ d \o <<Closed>> = Append(d, Closed)
  BY <1>3, PlainMessages, ConcatEmptySeq, AppendIsConcat
<1> QED
  BY <1>1, <1>2, <1>3, <1>4, <1>5 DEF d

\* A client hears of the end of its socket, and of a refusal.
LEMMA TurnWarns ==
  ASSUME CInv, ServerTurn, Flow, NEW t \in Socket, Working(t)
  PROVE  /\ Ends(down[t]) \/ Ended(t) => Ends(down'[t])
         /\ Refuses(down[t]) \/ Refuses(News(t)) => Refuses(down'[t])
<1> DEFINE d == down[t] \o News(t)
<1>1. /\ d \in Seq(NewsMessage)
      /\ down'[t] = d \/ (Ended(t) /\ down'[t] = Append(d, Closed))
      /\ Ended(t) => down'[t] = Append(d, Closed)
  BY FlowIs
<1>2. ToSet(d) = ToSet(down[t]) \cup ToSet(News(t))
  BY FlowIs, SetOfQueue
<1> HIDE DEF d
<1>3. ToSet(Append(d, Closed)) = ToSet(d) \cup {Closed} /\ Closed.type = "closed"
  BY <1>1, PlainMessages, SetOfQueue DEF Closed, Plain
<1> QED
  BY <1>1, <1>2, <1>3 DEF Ends, Refuses

\* A member's roster is the one it was last sent, or the one it had before.
LEMMA TurnTells ==
  ASSUME CInv, ServerTurn, NEW t \in Socket, sock'[t].link = "open", Placed(t)',
         News(t) = sent'[t], News(t) \in Seq(NewsMessage)
  PROVE  \/ LastIs(News(t), Players(t)', Place(t)')
         \/ /\ Silent(News(t)) /\ Placed(t)
            /\ Players(t)' = Players(t) /\ Place(t)' = Place(t)
<1> DEFINE c == sock'[t].code
<1>1. c \in DOMAIN room' /\ In(room'[c], t)
  BY DEF Placed
<1>2. CASE ~Silent(News(t))
  <2>1. PICK m \in ToSet(News(t)) : m.type = "roster" /\ LastIs(News(t), m.players, m.idx)
    BY <1>2, LastRoster
  <2>2. m = Roster(room'[c], Position(room'[c], t))
    BY <2>1 DEF ServerTurn, Tidings
  <2>3. m.players = Players(t)' /\ m.idx = Place(t)'
    BY <2>2 DEF Roster, Players, Place
  <2> QED
    BY <2>1, <2>3
<1>3. CASE Silent(News(t))
  <2>1. PICK i \in DOMAIN room'[c].players : room'[c].players[i].id = t
    BY <1>1 DEF In
  <2>2. Rosters(sent'[t]) = {}
    BY <1>3 DEF Silent, Rosters
  <2>3. c \in DOMAIN room /\ room'[c].players = room[c].players
    BY <1>1, <2>1, <2>2 DEF ServerTurn, AnnouncedNow
  <2>4. In(room[c], t)
    BY <2>1, <2>3 DEF In
  <2>5. sock[t].code = c
    BY <2>3, <2>4, StoredRoom DEF CInv, IInv
  <2> QED
    BY <1>3, <2>3, <2>4, <2>5 DEF Placed, Players, Place, Position
<1> QED
  BY <1>2, <1>3

LEMMA TurnMirrors ==
  ASSUME CInv, ServerTurn, Flow, NEW t \in Socket, Mirrored(t),
         lobby'[t] = lobby[t], events'[t] = events[t], drain'[t] = drain[t],
         ui'[t] = ui[t],
         sock'[t].link = "open" /\ ~Placed(t)' /\ Enters(up[t]) =>
           Enters(up'[t]) \/ Refuses(News(t))
  PROVE  Mirrored(t)'
<1> SUFFICES ASSUME Working(t) PROVE Mirrored(t)'
  BY DEF Mirrored, Working
<1>1. EndIsComing(t) /\ EntryIsComing(t)
  BY DEF Mirrored
<1>2. /\ sock'[t].link # "new"
      /\ sock'[t].link = "open" => sock[t].link = "open"
      /\ Placed(t) /\ sock'[t].link = "open" => Placed(t)'
  BY <1>1 DEF EndIsComing, ServerTurn, LinksOnlyClose, StaysPlaced
<1>3. EndIsComing(t)'
  BY <1>1, <1>2, TurnWarns DEF EndIsComing, Ended
<1>4. EntryIsComing(t)'
  BY <1>1, <1>2, TurnWarns DEF EntryIsComing
<1>5. ASSUME sock'[t].link = "open", Placed(t)', drain'[t] # "over"
      PROVE  PanelFollows(t)'
  <2>1. ~Ended(t) /\ sock[t].link = "open"
    BY <1>2, <1>5 DEF Ended
  <2>2. /\ News(t) \in Seq(NewsMessage) /\ News(t) = sent'[t]
        /\ down'[t] = down[t] \o News(t)
    BY <2>1, FlowIs
  <2>3. Queues(events[t], lobby[t].stray, down[t])
    BY TypedQueues DEF QueuesOf
  <2>4. ASSUME LastIs(News(t), Players(t)', Place(t)')
        PROVE  Follows(events[t], lobby[t].stray, down[t] \o News(t), ui[t],
                       Players(t)', Place(t)')
    BY <2>2, <2>3, <2>4, FollowsNews
  <2>5. ASSUME Silent(News(t)), Placed(t)
        PROVE  Follows(events[t], lobby[t].stray, down[t] \o News(t), ui[t],
                       Players(t), Place(t))
    <3>1. Follows(events[t], lobby[t].stray, down[t], ui[t], Players(t), Place(t))
      BY <1>5, <2>1, <2>5 DEF Mirrored, PanelFollows
    <3> QED
      BY <2>2, <2>3, <2>5, <3>1, FollowsNews
  <2>6. Follows(events[t], lobby[t].stray, down[t] \o News(t), ui[t],
                Players(t)', Place(t)')
    BY <1>5, <2>2, <2>4, <2>5, TurnTells
  <2> QED
    BY <2>2, <2>6 DEF PanelFollows
<1> QED
  BY <1>3, <1>4, <1>5 DEF Mirrored

\* A message that enters a room gets its sender into one, or is refused.
LEMMA EntryAnswered ==
  ASSUME CInv, NEW s \in Socket, ServerHandles(s),
         Head(up[s]).type \in {"create", "join"}
  PROVE  sock'[s].link = "open" => Placed(s)' \/ Refuses(sent'[s])
<1> DEFINE m == Head(up[s])
<1>1. Entering(s, m) \/ Asking(s, m) \/ Going(s, m) \/ Unheard(s, m)
  BY DEF ServerHandles
<1>2. m.type \in {"create", "join"}
  OBVIOUS
<1> HIDE DEF m
<1>3. CASE Entering(s, m)
  <2>1. OwnRom[s] \in Rom /\ peripheral[s] \in BOOLEAN
    BY LibraryAssumption DEF CInv, ClientTypes
  <2>2. PICK c \in Code : \/ CreateRoom(s, c, OwnRom[s], peripheral[s])
                          \/ JoinRoom(s, c, OwnRom[s]) \/ RefuseJoin(s, c)
    BY <1>3 DEF Entering
  <2>3. CASE RefuseJoin(s, c)
    <3> SUFFICES ASSUME sock'[s].link = "open" PROVE Refuses(sent'[s])
      OBVIOUS
    <3>1. PICK kind \in {"roomFull", "roomNotFound"} : sent'[s] = <<Error(kind)>>
      BY <2>3 DEF RefuseJoin, Reply, Heard, Nothing
    <3>2. Error(kind) \in ToSet(sent'[s])
      BY <3>1 DEF ToSet
    <3>3. Refusal(Error(kind))
      BY DEF Refusal, Error, FatalError
    <3> QED
      BY <3>2, <3>3 DEF Refuses
  <2> QED
    BY <2>1, <2>2, <2>3, EntryStays DEF CInv
<1>4. ~Asking(s, m) /\ ~Going(s, m)
  BY <1>2 DEF Asking, Going, Asks
<1>5. CASE Unheard(s, m)
  BY <1>5 DEF Unheard, ServerIdle
<1> QED
  BY <1>1, <1>3, <1>4, <1>5

LEMMA HandlingMirrors ==
  ASSUME CInv, NEW s \in Socket, ServerHandles(s), NEW t \in Socket, Mirrored(t)
  PROVE  Mirrored(t)'
<1>1. ServerTurn
  BY HandledTurn
<1>2. Flow /\ UNCHANGED <<lobby, events, drain, ui>> /\ up' = Take(up, s) /\ up[s] # <<>>
  BY DEF ServerHandles, tasks, player
<1>3. up \in [Socket -> Seq(UpMessage)]
  BY DEF CInv, ClientTypes
<1>4. ASSUME sock'[t].link = "open", ~Placed(t)', Enters(up[t])
      PROVE  Enters(up'[t]) \/ Refuses(News(t))
  <2>1. CASE t # s
    BY <1>2, <1>3, <1>4, <2>1 DEF Take
  <2>2. CASE t = s
    <3>1. up'[s] = Tail(up[s]) /\ ToSet(up[s]) = ToSet(Tail(up[s])) \cup {Head(up[s])}
      BY <1>2, <1>3, SetOfQueue DEF Take
    <3>2. CASE Head(up[s]).type \in {"create", "join"}
      <4>1. News(t) = sent'[t]
        BY <1>1, NewsType DEF ServerTurn
      <4> QED
        BY <1>4, <2>2, <3>2, <4>1, EntryAnswered
    <3>3. CASE Head(up[s]).type \notin {"create", "join"}
      BY <1>4, <2>2, <3>1, <3>3 DEF Enters
    <3> QED
      BY <3>2, <3>3
  <2> QED
    BY <2>1, <2>2
<1> QED
  BY <1>1, <1>2, <1>4, TurnMirrors

LEMMA BreakMirrors ==
  ASSUME CInv, NEW s \in Socket, Disconnect(s), NEW t \in Socket, Mirrored(t)
  PROVE  Mirrored(t)'
<1>1. ServerTurn /\ sock'[s].link # "open"
  BY BrokenTurn
<1>2. Flow /\ UNCHANGED <<lobby, events, drain, ui>> /\ up' = [up EXCEPT ![s] = <<>>]
  BY DEF Disconnect, tasks, player
<1>3. t # s => up'[t] = up[t]
  BY <1>2 DEF CInv, ClientTypes
<1> QED
  BY <1>1, <1>2, <1>3, TurnMirrors

\* Who opens a room is not in one, and has asked for it.
LEMMA OpenMirrors ==
  ASSUME CInv, NEW s \in Socket, NEW kind \in {"create", "join"}, OpenRoom(s, Plain(kind)),
         NEW t \in Socket, Mirrored(t)
  PROVE  Mirrored(t)'
<1>1. /\ Connect(s) /\ Flow /\ up' = Post(up, s, Plain(kind)) /\ events' = events
      /\ lobby' = [lobby EXCEPT ![s].phase = "idle"]
      /\ drain' = [drain EXCEPT ![s] = "loop"] /\ ui' = [ui EXCEPT ![s] = FreshUi]
  BY DEF OpenRoom
<1>2. /\ room' = room /\ sock[s].link = "new" /\ sock' = [sock EXCEPT ![s].link = "open"]
      /\ \A n \in Socket : News(n) = <<>>
  BY <1>1, ConnectStepIs DEF Connect, CInv
<1>3. /\ sock'[s].link = "open" /\ sock'[s].code = sock[s].code
      /\ \A n \in Socket \ {s} : sock'[n] = sock[n]
  BY <1>2 DEF CInv, IInv, Shape, Attached
<1>4. CASE t # s
  <2>1. /\ lobby'[t] = lobby[t] /\ up'[t] = up[t] /\ events'[t] = events[t]
        /\ drain'[t] = drain[t] /\ ui'[t] = ui[t]
    BY <1>1, <1>4 DEF Post, CInv, ClientTypes
  <2>2. Working(t) => down'[t] = down[t]
    <3>1. down[t] \in Seq(NewsMessage) /\ ~Ended(t)
      BY <1>3, <1>4 DEF Ended, CInv, ClientTypes
    <3>2. (down[t] \o <<>>) \o <<>> = down[t]
      BY <3>1, ConcatEmptySeq
    <3>3. Working(t) => down'[t] = (down[t] \o <<>>) \o <<>>
      BY <1>1, <1>2, <3>1 DEF Flow, Working
    <3> QED
      BY <3>2, <3>3
  <2>3. /\ Placed(t)' = Placed(t) /\ sock'[t].link = sock[t].link
        /\ Players(t)' = Players(t) /\ Place(t)' = Place(t)
    BY <1>2, <1>3, <1>4 DEF Placed, Players, Place
  <2> QED
    BY <2>1, <2>2, <2>3
       DEF Mirrored, Working, EndIsComing, EntryIsComing, PanelFollows
<1>5. CASE t = s
  <2>1. ~Placed(s)
    BY <1>2, StoredRoom DEF Placed, CInv, IInv
  <2>2. ~Placed(s)'
    BY <1>2, <1>3, <2>1 DEF Placed
  <2>3. Enters(up'[s])
    <3>1. up'[s] = Append(up[s], Plain(kind)) /\ up[s] \in Seq(UpMessage)
      BY <1>1 DEF Post, CInv, ClientTypes
    <3>2. ToSet(up'[s]) = ToSet(up[s]) \cup {Plain(kind)}
      BY <3>1, PlainMessages, SetOfQueue
    <3> QED
      BY <3>2 DEF Enters, Plain
  <2> QED
    BY <1>3, <1>5, <2>2, <2>3 DEF Mirrored, EndIsComing, EntryIsComing
<1> QED
  BY <1>4, <1>5

LEMMA InitMirror == ClientInit => MirrorInv
<1> SUFFICES ASSUME ClientInit PROVE MirrorInv
  OBVIOUS
<1>1. \A s \in Socket : lobby[s].phase = "off"
  BY DEF ClientInit, Task
<1> QED
  BY <1>1, InitCInv DEF MirrorInv, Mirrored, Working

LEMMA StepMirror == MirrorInv /\ [ClientNext]_allVars => MirrorInv'
<1> SUFFICES ASSUME MirrorInv, [ClientNext]_allVars PROVE MirrorInv'
  OBVIOUS
<1>1. CInv /\ CInv'
  BY StepCInv DEF MirrorInv
<1>2. SUFFICES ASSUME NEW t \in Socket, Mirrored(t) PROVE Mirrored(t)'
  BY <1>1 DEF MirrorInv
<1>3. CASE UNCHANGED allVars
  <2>1. UNCHANGED <<room, sock>> /\ Rests(t)
    BY <1>3 DEF allVars, serverVars, clientVars, wire, tasks, player, Rests
  <2>2. UNCHANGED <<lobby, up, down, events, drain, ui>>
    BY <1>3 DEF allVars, clientVars, wire, tasks, player
  <2> QED
    BY <1>2, <2>1, <2>2 DEF Mirrored, Working, EndIsComing, EntryIsComing, PanelFollows,
       Placed, Players, Place
<1>4. CASE ClientNext
  <2>1. PICK s \in Socket :
          \/ ServerHandles(s) \/ Disconnect(s) \/ LobbyTask(s) \/ DrainTask(s)
          \/ PumpUnplugs(s) \/ PeerGone(s) \/ User(s)
    BY <1>4 DEF ClientNext
  <2>2. Mirrored(s)
    BY DEF MirrorInv
  <2>3. CASE ServerHandles(s)
    BY <1>1, <1>2, <2>3, HandlingMirrors
  <2>4. CASE Disconnect(s)
    BY <1>1, <1>2, <2>4, BreakMirrors
  <2>5. CASE LobbyTask(s)
    BY <1>1, <1>2, <2>2, <2>5, LobbyMirrors, RestMirrors
  <2>6. ASSUME Apart(s), Mirrored(s)' PROVE Mirrored(t)'
    BY <1>2, <2>6, ApartRests, RestMirrors DEF Apart
  <2>7. CASE DrainTask(s)
    BY <1>1, <2>2, <2>6, <2>7, DrainMirrors
  <2>8. CASE PumpUnplugs(s) \/ PeerGone(s)
    BY <1>1, <2>2, <2>6, <2>8, UserMirrors
  <2>9. CASE User(s)
    <3>1. CASE OpenRoom(s, Plain(IF s = Creator THEN "create" ELSE "join"))
      <4>1. PICK kind \in {"create", "join"} : OpenRoom(s, Plain(kind))
        BY <3>1
      <4> QED
        BY <1>1, <1>2, <4>1, OpenMirrors
    <3>2. CASE LinkUp(s) \/ EjectPlayer(s) \/ LeaveRoom(s) \/ QuitGame(s) \/ LaunchGame(s)
      BY <1>1, <2>2, <2>6, <3>2, UserMirrors
    <3> QED
      BY <2>9, <3>1, <3>2 DEF User
  <2> QED
    BY <2>1, <2>3, <2>4, <2>5, <2>7, <2>8, <2>9
<1> QED
  BY <1>3, <1>4

\* Whenever a client comes to rest with the panel showing a room, the panel
\* shows the server's roster and the player's own place in it, whatever a merge
\* set aside and replayed meanwhile.
THEOREM MirrorAlwaysFaithful == ClientSpec => []MirrorFaithful
<1>1. ClientSpec => []MirrorInv
  BY InitMirror, StepMirror, PTL DEF ClientSpec
<1>2. MirrorInv => MirrorFaithful
  BY MirrorMeansFaithful
<1> QED
  BY <1>1, <1>2, PTL

-----------------------------------------------------------------------------
(* Reports on their way.  A member that is listed unready has yet to learn *)
(* it, or has said otherwise already.                                      *)

Starts(q)  == \E m \in ToSet(q) : m.type = "starting"
Reports(q) == \E m \in ToSet(q) : m.type = "setReady"

\* Every start in q is followed by a roster.
Behind(q) ==
  \A i \in DOMAIN q : q[i].type = "starting" =>
    \E j \in DOMAIN q : j > i /\ q[j].type = "roster"

LEMMA BehindStep ==
  ASSUME NEW S, NEW q \in Seq(S)
  PROVE  /\ \A x \in S :
              x.type = "roster" \/ (x.type # "starting" /\ Behind(q)) => Behind(Append(q, x))
         /\ q # <<>> /\ Behind(q) =>
              Behind(Tail(q)) /\ (Head(q).type = "starting" => ~Silent(Tail(q)))
         /\ Behind(<<>>)
<1> DEFINE n == Len(q)
<1>1. n \in Nat /\ DOMAIN q = 1 .. n
  BY LenProperties
<1>2. ASSUME NEW x \in S, x.type = "roster" \/ (x.type # "starting" /\ Behind(q))
      PROVE  Behind(Append(q, x))
  <2> DEFINE c == Append(q, x)
  <2>1. /\ DOMAIN c = 1 .. n + 1 /\ c[n + 1] = x
        /\ \A i \in 1 .. n : c[i] = q[i]
    BY <1>1, AppendProperties
  <2> HIDE DEF c, n
  <2>2. n + 1 \in DOMAIN c /\ \A i \in DOMAIN c : i # n + 1 => n + 1 > i
    BY <1>1, <2>1
  <2>3. \A i \in DOMAIN c : i # n + 1 => i \in DOMAIN q /\ c[i] = q[i]
    BY <1>1, <2>1
  <2>4. \A i \in DOMAIN q : i \in DOMAIN c /\ c[i] = q[i]
    BY <1>1, <2>1
  <2>5. SUFFICES ASSUME NEW i \in DOMAIN c, c[i].type = "starting"
                 PROVE  \E j \in DOMAIN c : j > i /\ c[j].type = "roster"
    BY DEF Behind, c
  <2>6. i # n + 1
    BY <1>2, <2>1, <2>5
  <2>7. CASE x.type = "roster"
    BY <2>1, <2>2, <2>6, <2>7
  <2>8. CASE Behind(q)
    <3>1. i \in DOMAIN q /\ q[i].type = "starting"
      BY <2>3, <2>5, <2>6
    <3>2. PICK j \in DOMAIN q : j > i /\ q[j].type = "roster"
      BY <2>8, <3>1 DEF Behind
    <3> QED
      BY <2>4, <3>2
  <2> QED
    BY <1>2, <2>7, <2>8
<1>3. ASSUME q # <<>>, Behind(q)
      PROVE  Behind(Tail(q)) /\ (Head(q).type = "starting" => ~Silent(Tail(q)))
  <2> DEFINE c == Tail(q)
  <2>1. /\ n # 0 /\ DOMAIN c = 1 .. n - 1 /\ Head(q) = q[1]
        /\ \A i \in 1 .. n - 1 : c[i] = q[i + 1]
    <3>1. c \in Seq(S) /\ Len(c) = n - 1 /\ n # 0
          /\ \A i \in 1 .. Len(c) : c[i] = q[i + 1]
      BY <1>3, HeadTailProperties, EmptySeq
    <3>2. DOMAIN c = 1 .. Len(c)
      BY <3>1, LenProperties
    <3> QED
      BY <1>3, <3>1, <3>2, HeadTailProperties
  <2> HIDE DEF c, n
  <2>2. \A i \in DOMAIN c : i + 1 \in DOMAIN q /\ c[i] = q[i + 1]
    BY <1>1, <2>1
  <2>3. 1 \in DOMAIN q
    BY <1>1, <2>1
  <2>4. \A i \in DOMAIN q : i > 1 => i - 1 \in DOMAIN c /\ c[i - 1] = q[i]
    BY <1>1, <2>1
  <2>5. ASSUME NEW i \in DOMAIN c, c[i].type = "starting"
        PROVE  \E j \in DOMAIN c : j > i /\ c[j].type = "roster"
    <3>1. PICK j \in DOMAIN q : j > i + 1 /\ q[j].type = "roster"
      BY <1>3, <2>2, <2>5 DEF Behind
    <3>2. j > 1 /\ j - 1 > i
      BY <1>1, <2>1, <3>1
    <3> QED
      BY <2>4, <3>1, <3>2
  <2>6. ASSUME Head(q).type = "starting" PROVE ~Silent(c)
    <3>1. PICK j \in DOMAIN q : j > 1 /\ q[j].type = "roster"
      BY <1>3, <2>1, <2>3, <2>6 DEF Behind
    <3>2. j - 1 \in DOMAIN c /\ c[j - 1].type = "roster"
      BY <2>4, <3>1
    <3> QED
      BY <3>2 DEF Silent, ToSet
  <2> QED
    BY <2>5, <2>6 DEF Behind, c
<1>4. Behind(<<>>)
  BY DEF Behind
<1> QED
  BY <1>2, <1>3, <1>4

\* News that start nothing leave a roster behind every start, or bring one.
LEMMA BehindConcat ==
  ASSUME NEW S, NEW a \in Seq(S), NEW b \in Seq(S), ~Starts(b), Behind(a) \/ ~Silent(b)
  PROVE  Behind(a \o b)
<1> DEFINE c == a \o b
           n == Len(a)
           l == Len(b)
<1>1. /\ n \in Nat /\ DOMAIN a = 1 .. n /\ l \in Nat /\ DOMAIN b = 1 .. l
      /\ DOMAIN c = 1 .. n + l
      /\ \A i \in 1 .. n + l : c[i] = IF i <= n THEN a[i] ELSE b[i - n]
  <2>1. c \in Seq(S) /\ Len(c) = n + l
        /\ \A i \in 1 .. n + l : c[i] = IF i <= n THEN a[i] ELSE b[i - n]
    BY ConcatProperties
  <2> QED
    BY <2>1, LenProperties
<1> HIDE DEF c, n, l
<1>2. \A i \in DOMAIN a : i \in DOMAIN c /\ c[i] = a[i]
  BY <1>1
<1>3. \A i \in DOMAIN b : n + i \in DOMAIN c /\ c[n + i] = b[i]
                          /\ \A j \in DOMAIN a : n + i > j
  BY <1>1
<1>4. \A i \in DOMAIN c : \/ i \in DOMAIN a /\ c[i] = a[i]
                          \/ i - n \in DOMAIN b /\ c[i] = b[i - n]
  BY <1>1
<1>5. SUFFICES ASSUME NEW i \in DOMAIN c, c[i].type = "starting"
               PROVE  \E j \in DOMAIN c : j > i /\ c[j].type = "roster"
  BY DEF Behind, c
<1>6. i \in DOMAIN a /\ a[i].type = "starting"
  BY <1>4, <1>5 DEF Starts, ToSet
<1>7. CASE Behind(a)
  <2>1. PICK j \in DOMAIN a : j > i /\ a[j].type = "roster"
    BY <1>6, <1>7 DEF Behind
  <2> QED
    BY <1>2, <2>1
<1>8. CASE ~Silent(b)
  <2>1. PICK j \in DOMAIN b : b[j].type = "roster"
    BY <1>8 DEF Silent, ToSet
  <2> QED
    BY <1>3, <1>6, <2>1
<1> QED
  BY <1>7, <1>8

\* A member at work that is listed unready ...
Unasserted(s) ==
  /\ Working(s) /\ sock[s].link = "open" /\ Placed(s) /\ drain[s] # "over"
  /\ ~Players(s)[Place(s)].ready

\* ... hears of it after the phases that drop what it has to say,
RosterAfterMerge(s) ==
  lobby[s].phase \in {"mesh", "boot"} => ~Silent(lobby[s].stray) \/ ~Silent(down[s])

\* also after those that are still to come,
RosterAfterStarts(s) ==
  Behind(down[s]) /\ (Silent(down[s]) => Behind(lobby[s].stray))

\* and has a roster to answer, or an answer of its own under way.
ReportIsComing(s) ==
  HoldsAll(s, RomsOf(Players(s))) =>
    \/ ~Silent(events[s]) \/ ~Silent(lobby[s].stray) \/ ~Silent(down[s])
    \/ Reports(up[s]) \/ Reports(cmds[s])

AssertsReady(s) ==
  Unasserted(s) => RosterAfterMerge(s) /\ RosterAfterStarts(s) /\ ReportIsComing(s)

AssertInv == MirrorInv /\ \A s \in Socket : AssertsReady(s)

\* At rest nothing is on its way, so that the report was heard.
LEMMA AssertingMeansKept ==
  ASSUME AssertInv
  PROVE  ReadyKept
<1> SUFFICES ASSUME NEW s \in Socket, Quiet(s), Placed(s), drain[s] = "loop",
                    HoldsAll(s, RomsOf(Players(s)))
             PROVE  Players(s)[Place(s)].ready
  BY DEF ReadyKept, Players, Place
<1>1. lobby[s].phase = "idle"
  BY DEF Quiet, Settled
<1>2. /\ up[s] = <<>> /\ down[s] = <<>> /\ events[s] = <<>>
      /\ lobby[s].stray = <<>> /\ cmds[s] = <<>>
  BY <1>1 DEF Quiet, Settled
<1>3. Silent(<<>>) /\ ~Reports(<<>>) /\ ~Ends(<<>>)
  BY NoneInNothing DEF Silent, Reports, Ends
<1>4. Working(s) /\ sock[s].link = "open"
  BY <1>1, <1>2, <1>3 DEF Working, AssertInv, MirrorInv, Mirrored, EndIsComing
<1>5. ~ReportIsComing(s)
  BY <1>2, <1>3 DEF ReportIsComing
<1> QED
  BY <1>4, <1>5 DEF AssertInv, AssertsReady, Unasserted

-----------------------------------------------------------------------------
(* ... as the client takes a step *)

LEMMA RestAsserts ==
  ASSUME ServerIdle, NEW t \in Socket, AssertsReady(t), Rests(t), cmds'[t] = cmds[t]
  PROVE  AssertsReady(t)'
<1>1. /\ Placed(t)' = Placed(t) /\ sock'[t].link = sock[t].link
      /\ Players(t)' = Players(t) /\ Place(t)' = Place(t)
  BY SameServer
<1>2. HoldsAll(t, RomsOf(Players(t)))' = HoldsAll(t, RomsOf(Players(t)))
  BY <1>1 DEF HoldsAll, RomsOf
<1>3. Unasserted(t)' => Unasserted(t)
  BY <1>1 DEF Unasserted, Working, Rests
<1> QED
  BY <1>1, <1>2, <1>3
     DEF AssertsReady, RosterAfterMerge, RosterAfterStarts, ReportIsComing, Rests

\* What a step of the client must keep.
LEMMA OwnAsserts ==
  ASSUME ServerIdle, NEW s \in Socket, AssertsReady(s), Working(s) \/ ~Working(s)',
         Unasserted(s) /\ drain'[s] # "over" /\ RosterAfterMerge(s) /\ RosterAfterStarts(s)
           /\ ReportIsComing(s) /\ Working(s)' =>
           /\ RosterAfterMerge(s)' /\ RosterAfterStarts(s)'
           /\ HoldsAll(s, RomsOf(Players(s))) =>
                \/ ~Silent(events'[s]) \/ ~Silent(lobby'[s].stray) \/ ~Silent(down'[s])
                \/ Reports(up'[s]) \/ Reports(cmds'[s]),
         drain'[s] # "over" => drain[s] # "over"
  PROVE  AssertsReady(s)'
<1> SUFFICES ASSUME Unasserted(s)'
             PROVE  RosterAfterMerge(s)' /\ RosterAfterStarts(s)' /\ ReportIsComing(s)'
  BY DEF AssertsReady
<1>1. /\ Placed(s)' = Placed(s) /\ sock'[s].link = sock[s].link
      /\ Players(s)' = Players(s) /\ Place(s)' = Place(s)
  BY SameServer
<1>2. HoldsAll(s, RomsOf(Players(s)))' = HoldsAll(s, RomsOf(Players(s)))
  BY <1>1 DEF HoldsAll, RomsOf
<1>3. Unasserted(s) /\ drain'[s] # "over" /\ Working(s)'
  BY <1>1 DEF Unasserted
<1>4. RosterAfterMerge(s) /\ RosterAfterStarts(s) /\ ReportIsComing(s)
  BY <1>3 DEF AssertsReady
<1> QED
  BY <1>2, <1>3, <1>4 DEF ReportIsComing

\* A step that takes no roster and no report away, but for what a merge drops.
LEMMA KeepingAsserts ==
  ASSUME ServerIdle, NEW s \in Socket, AssertsReady(s), Working(s),
         lobby'[s].stray = lobby[s].stray, down'[s] = down[s],
         drain'[s] # "over" => drain[s] # "over",
         lobby'[s].phase \in {"mesh", "boot"} => lobby[s].phase \in {"mesh", "boot"},
         drain'[s] # "over" /\ ~Silent(events[s]) => ~Silent(events'[s]),
         Reports(up[s]) => Reports(up'[s]),
         drain'[s] # "over" /\ Reports(cmds[s]) =>
           Reports(cmds'[s]) \/ Reports(up'[s]) \/ lobby[s].phase = "boot"
  PROVE  AssertsReady(s)'
  BY OwnAsserts DEF RosterAfterMerge, RosterAfterStarts, ReportIsComing

LEMMA ReportsStep ==
  ASSUME NEW S, NEW q \in Seq(S)
  PROVE  /\ \A x \in S : Reports(Append(q, x)) <=> Reports(q) \/ x.type = "setReady"
         /\ q # <<>> => (Reports(q) <=> Reports(Tail(q)) \/ Head(q).type = "setReady")
         /\ \A b \in Seq(S) : Reports(q \o b) <=> Reports(q) \/ Reports(b)
<1>1. ASSUME NEW x \in S
      PROVE  Reports(Append(q, x)) <=> Reports(q) \/ x.type = "setReady"
  <2>1. ToSet(Append(q, x)) = ToSet(q) \cup {x}
    BY SetOfQueue
  <2> QED
    BY <2>1 DEF Reports
<1>2. ASSUME q # <<>>
      PROVE  Reports(q) <=> Reports(Tail(q)) \/ Head(q).type = "setReady"
  <2>1. ToSet(q) = ToSet(Tail(q)) \cup {Head(q)}
    BY <1>2, SetOfQueue
  <2> QED
    BY <2>1 DEF Reports
<1>3. ASSUME NEW b \in Seq(S)
      PROVE  Reports(q \o b) <=> Reports(q) \/ Reports(b)
  <2>1. ToSet(q \o b) = ToSet(q) \cup ToSet(b)
    BY SetOfQueue
  <2> QED
    BY <2>1 DEF Reports
<1> QED
  BY <1>1, <1>2, <1>3

\* What is emitted or commanded is added to what is there.
LEMMA EmitKeeps ==
  ASSUME CInv, NEW s \in Socket, drain[s] # "over", ~Silent(events[s]),
         NEW x \in EventMessage, events' = Emit(s, x)
  PROVE  ~Silent(events'[s])
<1>1. events[s] \in Seq(EventMessage) /\ events'[s] = Append(events[s], x)
  BY EmittedRoster DEF CInv, ClientTypes
<1> QED
  BY <1>1, SilentStep

LEMMA CommandKeeps ==
  ASSUME CInv, NEW s \in Socket, NEW x \in CommandMessage, cmds' = Command(s, x)
  PROVE  /\ Reports(cmds[s]) => Reports(cmds'[s])
         /\ lobby[s].phase # "done" /\ x.type = "setReady" => Reports(cmds'[s])
         /\ \A t \in Socket \ {s} : cmds'[t] = cmds[t]
<1>1. cmds \in [Socket -> Seq(CommandMessage)] /\ cmds[s] \in Seq(CommandMessage)
  BY DEF CInv, ClientTypes
<1>2. \/ cmds' = cmds /\ lobby[s].phase = "done"
      \/ /\ cmds'[s] = Append(cmds[s], x)
         /\ \A t \in Socket \ {s} : cmds'[t] = cmds[t]
  BY <1>1 DEF Command, Post
<1>3. Reports(Append(cmds[s], x)) <=> Reports(cmds[s]) \/ x.type = "setReady"
  BY <1>1, ReportsStep
<1> QED
  BY <1>2, <1>3

\* The queues of other clients are left alone by whoever takes from its own.
LEMMA OtherCommands ==
  ASSUME CInv, NEW s \in Socket, NEW q, cmds' = [cmds EXCEPT ![s] = q]
  PROVE  cmds'[s] = q /\ \A t \in Socket \ {s} : cmds'[t] = cmds[t]
  BY DEF CInv, ClientTypes

\* Hearing a message: a roster goes to the drain, a start has one behind it.
LEMMA HearingAsserts ==
  ASSUME CInv, ServerIdle, NEW s \in Socket, AssertsReady(s), lobby[s].phase = "idle",
         NEW m \in NewsMessage, NEW after \in TaskType, after.phase = "idle", NEW rest,
         Hears(s, m, after, rest), drain' = drain, cmds' = cmds \/ ~Working(s)',
         Unasserted(s) /\ RosterAfterStarts(s) =>
           /\ Behind(rest) /\ (Silent(rest) => Behind(after.stray))
           /\ m.type = "starting" => ~Silent(after.stray) \/ ~Silent(rest)
           /\ m.type # "roster" /\ Silent(rest) /\ Silent(after.stray) =>
                Silent(down[s]) /\ Silent(lobby[s].stray)
  PROVE  AssertsReady(s)'
<1> SUFFICES ASSUME Unasserted(s), Working(s)', drain[s] # "over",
                    RosterAfterStarts(s), ReportIsComing(s)
             PROVE  /\ RosterAfterMerge(s)' /\ RosterAfterStarts(s)'
                    /\ HoldsAll(s, RomsOf(Players(s))) =>
                         \/ ~Silent(events'[s]) \/ ~Silent(lobby'[s].stray)
                         \/ ~Silent(down'[s]) \/ Reports(up'[s]) \/ Reports(cmds'[s])
  <2>1. Working(s)
    BY DEF Working
  <2> QED
    BY <2>1, OwnAsserts DEF Unasserted
<1>1. /\ up' = up /\ down'[s] = rest /\ lobby'[s].stray = after.stray
      /\ \/ m.type = "roster" /\ events' = Emit(s, m)
         \/ m.type # "roster" /\ events' = events
         \/ m.type # "roster" /\ \E x \in EventMessage : events' = Emit(s, x)
  <2>1. /\ up' = up /\ down' = [down EXCEPT ![s] = rest]
        /\ lobby'[s].stray = after.stray
        /\ \/ m.type = "roster" /\ events' = Emit(s, m)
           \/ m.type # "roster" /\ events' = events
           \/ m.type # "roster" /\ events' = Emit(s, Plain("joined"))
           \/ m.type # "roster" /\ events' = Emit(s, Plain("error"))
           \/ m.type # "roster" /\ events' = Emit(s, Plain("starting"))
    BY HearsIs
  <2> QED
    BY <2>1, PlainEvents DEF CInv, ClientTypes
<1>2. lobby'[s].phase \in {"mesh", "boot"} => m.type = "starting"
  <2>1. lobby \in [Socket -> TaskType]
    BY DEF CInv, ClientTypes
  <2>2. m.type # "starting" => lobby' = [lobby EXCEPT ![s] = after] \/ ~Working(s)'
    <3>1. Dies(s, "fatal") \/ Dies(s, "kicked") => ~Working(s)'
      BY <2>1 DEF Dies, Returns, Task, Working
    <3> QED
      BY <3>1 DEF Hears
  <2> QED
    BY <2>1, <2>2
<1>3. CASE m.type = "roster"
  <2>1. m \in EventMessage
    BY <1>3, Forwarded
  <2>2. events[s] \in Seq(EventMessage) /\ events'[s] = Append(events[s], m)
    BY <1>1, <1>3, EmittedRoster DEF CInv, ClientTypes
  <2>3. ~Silent(events'[s])
    BY <1>3, <2>1, <2>2, SilentStep
  <2> QED
    BY <1>1, <1>2, <1>3, <2>3 DEF RosterAfterMerge, RosterAfterStarts
<1>4. CASE m.type # "roster"
  <2>1. ~Silent(events[s]) => ~Silent(events'[s])
    BY <1>1, <1>4, EmitKeeps
  <2> QED
    BY <1>1, <1>2, <1>4, <2>1 DEF RosterAfterMerge, RosterAfterStarts, ReportIsComing
<1> QED
  BY <1>3, <1>4

\* A working client that hears has its commands left alone.
LEMMA HeardCommands ==
  ASSUME CInv, NEW s \in Socket, NEW m, NEW after, NEW rest, Hears(s, m, after, rest)
  PROVE  /\ cmds' = cmds \/ ~Working(s)'
         /\ \A t \in Socket \ {s} : cmds'[t] = cmds[t]
<1>1. cmds' = cmds \/ (cmds' = [cmds EXCEPT ![s] = <<>>] /\ ~Working(s)')
  BY DEF Hears, Dies, Returns, Task, Working, CInv, ClientTypes
<1> QED
  BY <1>1, OtherCommands

LEMMA ReplayAsserts ==
  ASSUME CInv, NEW s \in Socket, AssertsReady(s), ReplayStray(s)
  PROVE  AssertsReady(s)' /\ \A t \in Socket \ {s} : cmds'[t] = cmds[t]
<1> DEFINE st == lobby[s].stray
           m  == Head(st)
           after == [lobby[s] EXCEPT !.stray = Tail(@)]
<1>1. /\ ServerIdle /\ st # <<>> /\ lobby[s].phase = "idle"
      /\ drain' = drain /\ Hears(s, m, after, down[s])
  BY DEF ReplayStray
<1>2. lobby[s] \in TaskType /\ st \in Seq(StrayMessage)
  BY TypedQueues DEF CInv, ClientTypes, TaskType
<1>3. m \in StrayMessage /\ Tail(st) \in Seq(StrayMessage)
  BY <1>1, <1>2, HeadTailProperties
<1>4. /\ m \in NewsMessage /\ after \in TaskType /\ after.stray = Tail(st)
      /\ after.phase = "idle"
  BY <1>1, <1>2, <1>3, Forwarded DEF TaskType
<1>5. (cmds' = cmds \/ ~Working(s)') /\ \A t \in Socket \ {s} : cmds'[t] = cmds[t]
  BY <1>1, HeardCommands
<1> HIDE DEF after
<1>6. /\ Behind(st) => Behind(Tail(st)) /\ (m.type = "starting" => ~Silent(Tail(st)))
      /\ m.type # "roster" /\ Silent(Tail(st)) => Silent(st)
  BY <1>1, <1>2, BehindStep, SilentStep
<1>7. RosterAfterStarts(s) =>
        /\ Behind(down[s]) /\ (Silent(down[s]) => Behind(after.stray))
        /\ m.type = "starting" => ~Silent(after.stray) \/ ~Silent(down[s])
        /\ m.type # "roster" /\ Silent(down[s]) /\ Silent(after.stray) =>
             Silent(down[s]) /\ Silent(st)
  BY <1>4, <1>6 DEF RosterAfterStarts
<1> HIDE DEF m
<1>8. AssertsReady(s)'
  BY <1>1, <1>4, <1>5, <1>7, HearingAsserts
<1> QED
  BY <1>5, <1>8

LEMMA HearServerAsserts ==
  ASSUME CInv, NEW s \in Socket, AssertsReady(s), HearServer(s)
  PROVE  AssertsReady(s)' /\ \A t \in Socket \ {s} : cmds'[t] = cmds[t]
<1> DEFINE d == down[s]
           m == Head(d)
<1>1. /\ ServerIdle /\ d # <<>> /\ lobby[s].phase = "idle" /\ lobby[s].stray = <<>>
      /\ drain' = drain /\ Hears(s, m, lobby[s], Tail(d))
  BY DEF HearServer, Selecting
<1>2. lobby[s] \in TaskType /\ d \in Seq(NewsMessage)
  BY TypedQueues DEF CInv, ClientTypes
<1>3. m \in NewsMessage
  BY <1>1, <1>2, HeadTailProperties
<1>4. (cmds' = cmds \/ ~Working(s)') /\ \A t \in Socket \ {s} : cmds'[t] = cmds[t]
  BY <1>1, HeardCommands
<1>5. /\ Behind(d) => Behind(Tail(d)) /\ (m.type = "starting" => ~Silent(Tail(d)))
      /\ m.type # "roster" /\ Silent(Tail(d)) => Silent(d)
  BY <1>1, <1>2, BehindStep, SilentStep
<1>6. Behind(<<>>)
  BY DEF Behind
<1>7. RosterAfterStarts(s) =>
        /\ Behind(Tail(d)) /\ (Silent(Tail(d)) => Behind(lobby[s].stray))
        /\ m.type = "starting" => ~Silent(lobby[s].stray) \/ ~Silent(Tail(d))
        /\ m.type # "roster" /\ Silent(Tail(d)) /\ Silent(lobby[s].stray) =>
             Silent(d) /\ Silent(lobby[s].stray)
  BY <1>1, <1>5, <1>6 DEF RosterAfterStarts
<1> HIDE DEF m, d
<1> DEFINE rest == Tail(d)
<1>8. /\ Hears(s, m, lobby[s], rest)
      /\ RosterAfterStarts(s) =>
        /\ Behind(rest) /\ (Silent(rest) => Behind(lobby[s].stray))
        /\ m.type = "starting" => ~Silent(lobby[s].stray) \/ ~Silent(rest)
        /\ m.type # "roster" /\ Silent(rest) /\ Silent(lobby[s].stray) =>
             Silent(d) /\ Silent(lobby[s].stray)
  BY <1>1, <1>7
<1> HIDE DEF rest
<1>9. AssertsReady(s)'
  BY <1>1, <1>2, <1>3, <1>4, <1>8, HearingAsserts DEF d
<1> QED
  BY <1>4, <1>9

\* A mesh build sets rosters and starts aside in their order.
LEMMA MeshAsserts ==
  ASSUME CInv, NEW s \in Socket, AssertsReady(s), HearInMesh(s)
  PROVE  AssertsReady(s)' /\ cmds' = cmds
<1> DEFINE d == down[s]
           m == Head(d)
           st == lobby[s].stray
<1>1. /\ ServerIdle /\ d # <<>> /\ lobby[s].phase = "mesh"
      /\ up' = up /\ events' = events /\ drain' = drain /\ cmds' = cmds
  BY DEF HearInMesh
<1>2. d \in Seq(NewsMessage) /\ st \in Seq(StrayMessage)
  BY TypedQueues DEF QueuesOf, Queues
<1>3. m \in NewsMessage
  BY <1>1, <1>2, HeadTailProperties
<1>4. /\ lobby'[s].stray = IF m.type \in {"roster", "starting", "error"}
                           THEN Append(st, m) ELSE st
      /\ down'[s] = Tail(d)
  BY DEF HearInMesh, Take, CInv, ClientTypes, TaskType
<1>5. /\ Silent(d) <=> Silent(Tail(d)) /\ m.type # "roster"
      /\ Behind(d) => Behind(Tail(d)) /\ (m.type = "starting" => ~Silent(Tail(d)))
  BY <1>1, <1>2, SilentStep, BehindStep
<1>6. m.type \in {"roster", "starting", "error"} =>
        /\ Silent(Append(st, m)) <=> Silent(st) /\ m.type # "roster"
        /\ m.type = "roster" \/ (m.type # "starting" /\ Behind(st)) => Behind(Append(st, m))
  BY <1>2, <1>3, Forwarded, SilentStep, BehindStep
<1> HIDE DEF m, d, st
<1>7. ~Silent(d) \/ ~Silent(st) => ~Silent(lobby'[s].stray) \/ ~Silent(down'[s])
  BY <1>4, <1>5, <1>6
<1>8. Behind(d) /\ (Silent(d) => Behind(st)) =>
        Behind(down'[s]) /\ (Silent(down'[s]) => Behind(lobby'[s].stray))
  BY <1>4, <1>5, <1>6
<1>9. Working(s)
  BY <1>1 DEF Working
<1> QED
  BY <1>1, <1>7, <1>8, <1>9, OwnAsserts
     DEF RosterAfterMerge, RosterAfterStarts, ReportIsComing, d, st

LEMMA OverAsserts ==
  ASSUME CInv, NEW s \in Socket, NEW bye, Returns(s, bye)
  PROVE  AssertsReady(s)' /\ \A t \in Socket \ {s} : cmds'[t] = cmds[t]
<1>1. lobby'[s].phase = "done" /\ cmds' = [cmds EXCEPT ![s] = <<>>]
  BY DEF Returns, Task, CInv, ClientTypes
<1> QED
  BY <1>1, OtherCommands DEF AssertsReady, Unasserted, Working

\* A phase that ends, or reads a command that it drops, leaves the rest as it is.
LEMMA CommandsAssert ==
  ASSUME CInv, NEW s \in Socket, AssertsReady(s), ReadCommand(s)
  PROVE  AssertsReady(s)' /\ \A t \in Socket \ {s} : cmds'[t] = cmds[t]
<1> DEFINE q == cmds[s]
           m == Head(q)
           phase == lobby[s].phase
<1>1. /\ ServerIdle /\ drain' = drain /\ events' = events /\ q # <<>>
      /\ phase \in {"boot", "pause", "idle"}
      /\ \/ Quits(s)
         \/ /\ down' = down /\ cmds' = Take(cmds, s)
            /\ \/ lobby' = [lobby EXCEPT ![s] = lobby[s]]
               \/ \E b : lobby' = [lobby EXCEPT ![s] = [lobby[s] EXCEPT !.dance = b]]
               \/ lobby' = [lobby EXCEPT ![s] = [lobby[s] EXCEPT !.phase = "exchange"]]
            /\ \/ m.type \in Asks /\ phase # "boot" /\ up' = [up EXCEPT ![s] = @ \o <<m>>]
               \/ (m.type \notin Asks \/ phase = "boot") /\ up' = [up EXCEPT ![s] = @ \o <<>>]
  BY DEF ReadCommand, Quits, Selecting, Asks
<1>2. q \in Seq(CommandMessage) /\ up[s] \in Seq(UpMessage) /\ Working(s)
  BY <1>1, TypedQueues DEF Working
<1>3. m \in CommandMessage /\ (Reports(q) <=> Reports(Tail(q)) \/ m.type = "setReady")
  BY <1>1, <1>2, HeadTailProperties, ReportsStep
<1> HIDE DEF m
<1>4. CASE Quits(s)
  BY <1>4, OverAsserts DEF Quits
<1>5. CASE ~Quits(s)
  <2>1. cmds'[s] = Tail(q) /\ \A t \in Socket \ {s} : cmds'[t] = cmds[t]
    BY <1>1, <1>5 DEF Take, CInv, ClientTypes
  <2>2. /\ lobby'[s].stray = lobby[s].stray
        /\ lobby'[s].phase \in {phase, "exchange"}
    BY <1>1, <1>5 DEF CInv, ClientTypes, TaskType
  <2>3. m.type \in Asks => <<m>> \in Seq(UpMessage) /\ (Reports(<<m>>) <=> m.type = "setReady")
    <3>1. m.type \in Asks => m \in UpMessage
      BY <1>3, Forwarded
    <3>2. ToSet(<<m>>) = {m}
      BY OneInOne
    <3> QED
      BY <3>1, <3>2, OneType DEF Reports
  <2>4. CASE m.type \in Asks /\ phase # "boot" /\ up' = [up EXCEPT ![s] = @ \o <<m>>]
    <3>1. up'[s] = up[s] \o <<m>>
      BY <2>4 DEF CInv, ClientTypes
    <3>2. Reports(up'[s]) <=> Reports(up[s]) \/ m.type = "setReady"
      <4> DEFINE b == <<m>>
      <4>1. b \in Seq(UpMessage) /\ (Reports(b) <=> m.type = "setReady") /\ up'[s] = up[s] \o b
        BY <2>3, <2>4, <3>1
      <4> HIDE DEF b
      <4>2. Reports(up[s] \o b) <=> Reports(up[s]) \/ Reports(b)
        BY <1>2, <4>1, ReportsStep
      <4> QED
        BY <4>1, <4>2
    <3> HIDE DEF q
    <3> QED
      BY <1>1, <1>2, <1>3, <1>5, <2>1, <2>2, <3>2, KeepingAsserts DEF q
  <2>5. CASE /\ m.type \notin Asks \/ phase = "boot"
             /\ up' = [up EXCEPT ![s] = @ \o <<>>]
    <3>1. up'[s] = up[s]
      BY <1>2, <2>5, ConcatEmptySeq DEF CInv, ClientTypes
    <3>2. m.type = "setReady" => phase = "boot"
      BY <2>5 DEF Asks
    <3> QED
      BY <1>1, <1>2, <1>3, <1>5, <2>1, <2>2, <3>1, <3>2, KeepingAsserts
  <2> QED
    BY <1>1, <1>5, <2>1, <2>4, <2>5
<1> QED
  BY <1>4, <1>5

LEMMA TimersAssert ==
  ASSUME CInv, NEW s \in Socket, AssertsReady(s),
         DanceStep(s) \/ PauseEnds(s) \/ MeshUp(s) \/ ExchangeDone(s)
  PROVE  AssertsReady(s)' /\ cmds' = cmds
<1>1. /\ ServerIdle /\ down' = down /\ drain' = drain /\ cmds' = cmds
      /\ up' = up \/ up' = Post(up, s, Ready(FALSE))
      /\ events' = events
           \/ events' = Emit(s, [type |-> "sessionReady", roms |-> lobby[s].roms])
      /\ Working(s)
      /\ \/ lobby' = [lobby EXCEPT ![s].dance = FALSE]
         \/ lobby' = [lobby EXCEPT ![s].phase = "idle"]
         \/ lobby' = [lobby EXCEPT ![s].phase = "boot"] /\ lobby[s].phase = "mesh"
  BY DEF DanceStep, PauseEnds, MeshUp, ExchangeDone, wire, Selecting, Working
<1>2. /\ lobby'[s].stray = lobby[s].stray
      /\ lobby'[s].phase \in {"mesh", "boot"} => lobby[s].phase \in {"mesh", "boot"}
  <2>1. lobby \in [Socket -> TaskType]
    BY DEF CInv, ClientTypes
  <2> QED
    BY <1>1, <2>1 DEF TaskType
<1>3. Reports(up[s]) => Reports(up'[s])
  <2> DEFINE x == Ready(FALSE)
  <2>1. up \in [Socket -> Seq(UpMessage)] /\ x \in UpMessage
    BY PlainMessages DEF CInv, ClientTypes
  <2>2. up'[s] = up[s] \/ up'[s] = Append(up[s], x)
    BY <1>1, <2>1 DEF Post
  <2> HIDE DEF x
  <2>3. up[s] \in Seq(UpMessage)
    BY <2>1
  <2>4. Reports(up[s]) => Reports(Append(up[s], x))
    BY <2>1, <2>3, ReportsStep
  <2> QED
    BY <2>2, <2>4
<1>4. drain[s] # "over" /\ ~Silent(events[s]) => ~Silent(events'[s])
  <2> DEFINE x == [type |-> "sessionReady", roms |-> lobby[s].roms]
  <2>1. x \in EventMessage
    BY DEF EventMessage, CInv, ClientTypes, TaskType
  <2>2. events' = events \/ events' = Emit(s, x)
    BY <1>1
  <2> HIDE DEF x
  <2> QED
    BY <2>1, <2>2, EmitKeeps
<1>5. drain' = drain /\ down' = down /\ cmds' = cmds
  BY <1>1
<1>6. AssertsReady(s)'
  BY <1>1, <1>2, <1>3, <1>4, <1>5, KeepingAsserts
<1> QED
  BY <1>5, <1>6

LEMMA FailuresAssert ==
  ASSUME CInv, NEW s \in Socket, AssertsReady(s), MergeFails(s)
  PROVE  AssertsReady(s)' /\ \A t \in Socket \ {s} : cmds'[t] = cmds[t]
<1>1. /\ ServerIdle /\ drain' = drain /\ Working(s)
      /\ \/ Dies(s, "kicked")
         \/ /\ events' = Emit(s, Plain("mergeFailed")) /\ UNCHANGED wire /\ cmds' = cmds
            /\ lobby' = [lobby EXCEPT ![s].phase = IF peripheral[s] THEN "pause" ELSE "idle"]
  BY DEF MergeFails, Working
<1>2. CASE Dies(s, "kicked")
  BY <1>2, OverAsserts DEF Dies
<1>3. CASE /\ events' = Emit(s, Plain("mergeFailed")) /\ UNCHANGED wire /\ cmds' = cmds
           /\ lobby' = [lobby EXCEPT ![s].phase = IF peripheral[s] THEN "pause" ELSE "idle"]
  <2>1. /\ lobby'[s].stray = lobby[s].stray /\ lobby'[s].phase \notin {"mesh", "boot"}
        /\ up' = up /\ down' = down
    BY <1>3 DEF CInv, ClientTypes, TaskType, wire
  <2>2. drain[s] # "over" /\ ~Silent(events[s]) => ~Silent(events'[s])
    BY <1>3, PlainEvents, EmitKeeps
  <2> QED
    BY <1>1, <1>3, <2>1, <2>2, KeepingAsserts
<1> QED
  BY <1>1, <1>2, <1>3

LEMMA LobbyAsserts ==
  ASSUME CInv, NEW s \in Socket, AssertsReady(s), LobbyTask(s)
  PROVE  AssertsReady(s)' /\ \A t \in Socket \ {s} : cmds'[t] = cmds[t]
<1>1. CASE ReplayStray(s) \/ HearServer(s)
  BY <1>1, ReplayAsserts, HearServerAsserts
<1>2. CASE ReadCommand(s)
  BY <1>2, CommandsAssert
<1>3. CASE HearInMesh(s)
  BY <1>3, MeshAsserts
<1>4. CASE DanceStep(s) \/ PauseEnds(s) \/ MeshUp(s) \/ ExchangeDone(s)
  BY <1>4, TimersAssert
<1>5. CASE MergeFails(s)
  BY <1>5, FailuresAssert
<1> QED
  BY <1>1, <1>2, <1>3, <1>4, <1>5 DEF LobbyTask

-----------------------------------------------------------------------------
(* ... its drain or its user does *)

\* What the drain and the user say to the lobby.
Commands(s) == cmds' = cmds \/ \E x \in CommandMessage : cmds' = Command(s, x)

LEMMA DrainCommands ==
  ASSUME CInv, NEW s \in Socket, DrainTask(s)
  PROVE  Commands(s)
<1>1. ASSUME NEW kind \in {"start", "boot", "dropped", "leave"}, cmds' = Command(s, Plain(kind))
      PROVE  Commands(s)
  BY <1>1, PlainMessages DEF Commands
<1>2. ASSUME NEW m, LinkFailed(s, m) PROVE Commands(s)
  BY <1>1, <1>2 DEF LinkFailed
<1>3. ASSUME Capture(s) PROVE Commands(s)
  BY <1>1, <1>2, <1>3 DEF Capture
<1>4. CASE DrainRoster(s)
  BY <1>4, PlainMessages DEF DrainRoster, Commands, HoldsAll
<1>5. CASE cmds' = cmds
  BY <1>5 DEF Commands
<1>6. CASE DrainStarting(s)
  BY <1>1, <1>2, <1>5, <1>6 DEF DrainStarting
<1>7. CASE DrainSessionReady(s) \/ DrainEnd(s) \/ PlugIn(s)
  BY <1>2, <1>5, <1>7 DEF DrainSessionReady, DrainEnd, PlugIn
<1>8. CASE Unplugged(s)
  BY <1>3, <1>8 DEF Unplugged
<1>9. CASE DrainJoined(s) \/ DrainError(s) \/ DrainMergeFailed(s) \/ DrainEpilogue(s)
  BY <1>5, <1>9 DEF DrainJoined, DrainError, DrainMergeFailed, DrainEpilogue
<1> QED
  BY <1>4, <1>6, <1>7, <1>8, <1>9 DEF DrainTask

LEMMA UserCommands ==
  ASSUME CInv, NEW s \in Socket,
         \/ PumpUnplugs(s) \/ PeerGone(s) \/ LaunchGame(s) \/ LinkUp(s)
         \/ EjectPlayer(s) \/ LeaveRoom(s) \/ QuitGame(s)
  PROVE  Commands(s)
<1>1. ASSUME NEW kind \in {"start", "boot", "dropped", "leave"}, cmds' = Command(s, Plain(kind))
      PROVE  Commands(s)
  BY <1>1, PlainMessages DEF Commands
<1>2. CASE EjectPlayer(s)
  <2>1. PICK i \in DOMAIN ui[s].players : cmds' = Command(s, Kick(ui[s].players[i].seat))
    BY <1>2 DEF EjectPlayer
  <2>2. ui[s].players[i].seat \in Nat
    <3>1. ui[s].players \in Seq(Player)
      BY DEF CInv, ClientTypes, PanelType
    <3>2. ui[s].players[i] \in Player
      BY <3>1, ElementOfSeq, LenProperties
    <3> QED
      BY <3>2 DEF Player
  <2> QED
    BY <2>1, <2>2, PlainMessages DEF Commands
<1>3. CASE cmds' = cmds
  BY <1>3 DEF Commands
<1> QED
  BY <1>1, <1>2, <1>3 DEF PumpUnplugs, PeerGone, LaunchGame, LinkUp, LeaveRoom, QuitGame

\* What takes no roster from the drain.
LEMMA ApartAsserts ==
  ASSUME CInv, NEW s \in Socket, AssertsReady(s), Apart(s), Commands(s),
         drain'[s] # "over" => drain[s] # "over",
         drain'[s] # "over" /\ ~Silent(events[s]) => ~Silent(events'[s])
  PROVE  AssertsReady(s)' /\ \A t \in Socket \ {s} : cmds'[t] = cmds[t]
<1>1. ServerIdle /\ up' = up /\ down' = down /\ lobby' = lobby
  BY DEF Apart
<1>2. /\ Reports(cmds[s]) => Reports(cmds'[s])
      /\ \A t \in Socket \ {s} : cmds'[t] = cmds[t]
  BY CommandKeeps DEF Commands
<1>3. CASE Working(s)
  BY <1>1, <1>2, <1>3, KeepingAsserts
<1>4. CASE ~Working(s)
  BY <1>1, <1>2, <1>4 DEF AssertsReady, Unasserted, Working
<1> QED
  BY <1>3, <1>4

LEMMA TailKeeps ==
  ASSUME CInv, NEW s \in Socket, events[s] # <<>>, Head(events[s]).type # "roster",
         events' = Take(events, s), ~Silent(events[s])
  PROVE  ~Silent(events'[s])
<1>1. events[s] \in Seq(EventMessage) /\ events'[s] = Tail(events[s])
  BY DEF Take, CInv, ClientTypes
<1> QED
  BY <1>1, SilentStep

LEMMA DrainKeeps ==
  ASSUME CInv, NEW s \in Socket, DrainTask(s), ~DrainRoster(s), drain'[s] # "over"
  PROVE  drain[s] # "over" /\ (~Silent(events[s]) => ~Silent(events'[s]))
<1>1. ASSUME NEW m, LinkFailed(s, m) PROVE FALSE
  BY <1>1 DEF LinkFailed, CInv, ClientTypes
<1>2. ASSUME NEW type \in {"joined", "error", "starting", "mergeFailed", "sessionReady"},
             Drains(s, type), events' = Take(events, s)
      PROVE  drain[s] # "over" /\ (~Silent(events[s]) => ~Silent(events'[s]))
  <2>1. drain[s] = "loop" /\ events[s] # <<>> /\ Head(events[s]).type = type
    BY <1>2, DrainFacts
  <2> QED
    BY <1>2, <2>1, TailKeeps
<1>3. CASE DrainJoined(s) \/ DrainError(s) \/ DrainMergeFailed(s)
  BY <1>2, <1>3 DEF DrainJoined, DrainError, DrainMergeFailed
<1>4. CASE DrainStarting(s) \/ DrainSessionReady(s)
  BY <1>1, <1>2, <1>4 DEF DrainStarting, DrainSessionReady
<1>5. ~DrainEnd(s) /\ ~DrainEpilogue(s)
  BY <1>1 DEF DrainEnd, DrainEpilogue, CInv, ClientTypes
<1>6. CASE Unplugged(s) \/ PlugIn(s)
  BY <1>1, <1>6 DEF Unplugged, Capture, PlugIn
<1> QED
  BY <1>3, <1>4, <1>5, <1>6 DEF DrainTask

\* The last roster is the room's: who is unready in it and need not be says so.
LEMMA RosterAsserts ==
  ASSUME CInv, NEW s \in Socket, Mirrored(s), AssertsReady(s), DrainRoster(s)
  PROVE  AssertsReady(s)' /\ \A t \in Socket \ {s} : cmds'[t] = cmds[t]
<1> DEFINE e == events[s]
           m == Head(e)
           ready == HoldsAll(s, RomsOf(m.players))
<1>1. /\ Apart(s) /\ ServerIdle /\ up' = up /\ down' = down /\ lobby' = lobby
      /\ drain' = drain /\ drain[s] = "loop" /\ e # <<>> /\ m.type = "roster"
      /\ events' = Take(events, s)
      /\ cmds' = IF m.players[m.idx].ready # ready THEN Command(s, Ready(ready)) ELSE cmds
  BY RosterMirrors, DrainFacts DEF DrainRoster, Apart
<1>2. events'[s] = Tail(e) /\ e \in Seq(EventMessage)
  BY <1>1 DEF Take, CInv, ClientTypes
<1>3. /\ Reports(cmds[s]) => Reports(cmds'[s])
      /\ \A t \in Socket \ {s} : cmds'[t] = cmds[t]
      /\ lobby[s].phase # "done" /\ m.players[m.idx].ready # ready => Reports(cmds'[s])
  <2>1. ready \in BOOLEAN
    BY DEF HoldsAll
  <2> HIDE DEF ready
  <2> DEFINE x == Ready(ready)
  <2>2. x \in CommandMessage /\ x.type = "setReady"
    BY <2>1, PlainMessages DEF Ready
  <2>3. cmds' = IF m.players[m.idx].ready # ready THEN Command(s, x) ELSE cmds
    BY <1>1
  <2> HIDE DEF x
  <2> QED
    BY <2>2, <2>3, CommandKeeps
<1>4. CASE Working(s)
  <2>1. ASSUME Unasserted(s), Silent(Tail(e)), Silent(lobby[s].stray), Silent(down[s]),
               HoldsAll(s, RomsOf(Players(s)))
        PROVE  Reports(cmds'[s])
    <3>1. Follows(e, lobby[s].stray, down[s], ui[s], Players(s), Place(s))
      BY <1>4, <2>1 DEF Unasserted, Mirrored, PanelFollows
    <3>2. ~Silent(e) /\ ~LastIs(Tail(e), Players(s), Place(s))
          /\ ~LastIs(lobby[s].stray, Players(s), Place(s))
          /\ ~LastIs(down[s], Players(s), Place(s))
      <4>1. \A q : Silent(q) => ~LastIs(q, Players(s), Place(s))
        BY DEF LastIs, Silent, ToSet
      <4> QED
        BY <1>1, <1>2, <2>1, <4>1, SilentStep
    <3>3. m.players = Players(s) /\ m.idx = Place(s)
      BY <1>1, <1>2, <3>1, <3>2, LastIsStep DEF Follows, Due
    <3> QED
      BY <1>3, <1>4, <2>1, <3>3 DEF Unasserted, Working
  <2> HIDE DEF ready, m, e
  <2> QED
    BY <1>1, <1>2, <1>3, <1>4, <2>1, OwnAsserts
       DEF RosterAfterMerge, RosterAfterStarts, ReportIsComing, e
<1>5. CASE ~Working(s)
  BY <1>1, <1>3, <1>5 DEF AssertsReady, Unasserted, Working
<1> QED
  BY <1>3, <1>4, <1>5

LEMMA DrainAsserts ==
  ASSUME CInv, NEW s \in Socket, Mirrored(s), AssertsReady(s), DrainTask(s)
  PROVE  AssertsReady(s)' /\ \A t \in Socket \ {s} : cmds'[t] = cmds[t]
<1>1. CASE DrainRoster(s)
  BY <1>1, RosterAsserts
<1>2. CASE ~DrainRoster(s)
  BY <1>2, DrainMirrors, DrainCommands, DrainKeeps, ApartAsserts
<1> QED
  BY <1>1, <1>2

LEMMA UserAsserts ==
  ASSUME CInv, NEW s \in Socket, Mirrored(s), AssertsReady(s),
         \/ PumpUnplugs(s) \/ PeerGone(s) \/ LaunchGame(s) \/ LinkUp(s)
         \/ EjectPlayer(s) \/ LeaveRoom(s) \/ QuitGame(s)
  PROVE  AssertsReady(s)' /\ \A t \in Socket \ {s} : cmds'[t] = cmds[t]
<1>1. events' = events /\ drain' = drain
  BY DEF PumpUnplugs, PeerGone, LaunchGame, LinkUp, EjectPlayer, LeaveRoom, QuitGame,
         MachineOnly
<1> QED
  BY <1>1, UserMirrors, UserCommands, ApartAsserts

-----------------------------------------------------------------------------
(* ... and as the server takes one *)

\* Who is sent a start is listed ready.
StartsConsented ==
  \A t \in Socket : Starts(sent'[t]) /\ Placed(t)' => Players(t)'[Place(t)'].ready

LEMMA StartsByConsent ==
  ASSUME IInv, IInv', Next
  PROVE  StartsConsented
<1> SUFFICES ASSUME NEW t \in Socket, Starts(sent'[t]), Placed(t)'
             PROVE  Players(t)'[Place(t)'].ready
  BY DEF StartsConsented
<1>1. PICK m \in ToSet(sent'[t]) : m.type = "starting"
  BY DEF Starts
<1>2. PICK c \in DOMAIN room, r \in Room : LinksUp(c, r)
  BY <1>1, StartingSteps DEF NoStarts
<1>3. sock[t].link = "open" /\ In(r, t)
  BY <1>1, <1>2 DEF LinksUp
<1>4. sock'[t].code = c
  BY <1>2, <1>3, StartedIsStamped
<1>5. Unanimous(room'[c])
  BY <1>2, LinkedRoom
<1> DEFINE q == room'[c]
<1>6. q \in Room /\ In(q, t)
  BY <1>4 DEF Placed, IInv, Shape
<1>7. Position(q, t) \in DOMAIN q.players
  BY <1>6, RoomFields
<1>8. Players(t)' = q.players /\ Place(t)' = Position(q, t)
  BY <1>4 DEF Players, Place, Position
<1> HIDE DEF q
<1> QED
  BY <1>5, <1>7, <1>8 DEF Unanimous, AllReady, q

\* A report of a member is answered with the roster.
LEMMA ReadyIsAnswered ==
  ASSUME IInv, NEW s \in Socket, NEW b \in BOOLEAN, SetReady(s, b), sock[s].link = "open"
  PROVE  ~Silent(sent'[s])
<1> DEFINE c    == sock[s].code
           k    == Position(room[c], s)
           r    == Asserted(room[c], k, b)
           wave == [t \in Socket |-> RosterFor(r, t) \o StartingFor(r, t)]
           news == [t \in Socket |-> RosterFor(r, t)]
<1>1. room[c] \in Room /\ k \in DOMAIN room[c].players /\ In(room[c], s)
  BY StoredRoom, RoomFields DEF IInv, SetReady, Placed
<1>2. sent' = Heard(wave) \/ sent' = Heard(news)
  BY DEF SetReady
<1> HIDE DEF c, k
<1>3. r \in Room /\ In(r, s)
  BY <1>1, AssertedListed, AssertedProperties
<1> HIDE DEF r
<1> DEFINE x == Roster(r, Position(r, s))
<1>4. x \in ToSet(RosterFor(r, s)) /\ x.type = "roster"
  BY <1>3, RosterForSet, MessageTypes
<1>5. x \in ToSet(wave[s]) /\ x \in ToSet(news[s])
  BY <1>3, <1>4, WaveSet
<1> HIDE DEF wave, news, x
<1>6. x \in ToSet(sent'[s])
  BY <1>2, <1>5, HeardSet
<1> QED
  BY <1>4, <1>6 DEF Silent

LEMMA ReportAnswered ==
  ASSUME CInv, NEW s \in Socket, ServerHandles(s), Head(up[s]).type = "setReady",
         Placed(s), sock[s].link = "open"
  PROVE  ~Silent(sent'[s])
<1> DEFINE m == Head(up[s])
<1>1. Entering(s, m) \/ Asking(s, m) \/ Going(s, m) \/ Unheard(s, m)
  BY DEF ServerHandles
<1>2. m.type = "setReady" /\ m.ready \in BOOLEAN
  <2>1. m \in UpMessage
    BY QueueSteps DEF ServerHandles, CInv, ClientTypes
  <2> QED
    BY <2>1 DEF UpMessage
<1> HIDE DEF m
<1>3. SetReady(s, m.ready)
  BY <1>1, <1>2 DEF Entering, Asking, Going, Unheard, IgnoreMessage
<1> QED
  BY <1>2, <1>3, ReadyIsAnswered DEF CInv

\* The news of a step, as they are set behind what is in flight.
LEMMA TurnAsserts ==
  ASSUME CInv, ServerTurn, StartsConsented, Flow, NEW t \in Socket, Mirrored(t), AssertsReady(t),
         lobby'[t] = lobby[t], events'[t] = events[t], drain'[t] = drain[t],
         cmds'[t] = cmds[t],
         Placed(t) /\ sock[t].link = "open" /\ Reports(up[t]) =>
           Reports(up'[t]) \/ ~Silent(sent'[t])
  PROVE  AssertsReady(t)'
<1> SUFFICES ASSUME Unasserted(t)'
             PROVE  RosterAfterMerge(t)' /\ RosterAfterStarts(t)' /\ ReportIsComing(t)'
  BY DEF AssertsReady
<1>1. /\ Working(t) /\ drain[t] # "over" /\ sock'[t].link = "open" /\ Placed(t)'
      /\ ~Players(t)'[Place(t)'].ready
  BY DEF Unasserted, Working
<1>2. sock[t].link = "open" /\ ~Ended(t)
  BY <1>1 DEF Mirrored, EndIsComing, ServerTurn, LinksOnlyClose, Ended
<1>3. /\ News(t) \in Seq(NewsMessage) /\ News(t) = sent'[t] /\ down[t] \in Seq(NewsMessage)
      /\ down'[t] = down[t] \o News(t)
  BY <1>1, <1>2, FlowIs
<1>4. ~Starts(News(t))
  BY <1>1, <1>3 DEF StartsConsented
<1>5. Silent(down'[t]) <=> Silent(down[t]) /\ Silent(News(t))
  BY <1>3, SilentStep
<1>6. Behind(down[t]) \/ ~Silent(News(t)) => Behind(down'[t])
  BY <1>3, <1>4, BehindConcat
<1>7. CASE ~Silent(News(t))
  BY <1>5, <1>6, <1>7 DEF RosterAfterMerge, RosterAfterStarts, ReportIsComing
<1>8. CASE Silent(News(t))
  <2>1. Placed(t) /\ Players(t)' = Players(t) /\ Place(t)' = Place(t)
    <3>1. ~LastIs(News(t), Players(t)', Place(t)')
      BY <1>8 DEF LastIs, Silent, ToSet
    <3> QED
      BY <1>1, <1>3, <3>1, TurnTells
  <2>2. Unasserted(t)
    BY <1>1, <1>2, <2>1 DEF Unasserted
  <2>3. RosterAfterMerge(t) /\ RosterAfterStarts(t) /\ ReportIsComing(t)
    BY <2>2 DEF AssertsReady
  <2>4. HoldsAll(t, RomsOf(Players(t)))' = HoldsAll(t, RomsOf(Players(t)))
    BY <2>1 DEF HoldsAll, RomsOf
  <2>5. Reports(up[t]) => Reports(up'[t])
    BY <1>2, <1>3, <1>8, <2>1
  <2> QED
    BY <1>5, <1>6, <1>8, <2>3, <2>4, <2>5
       DEF RosterAfterMerge, RosterAfterStarts, ReportIsComing
<1> QED
  BY <1>7, <1>8

LEMMA NothingStarts ==
  ASSUME sent' = Nothing
  PROVE  StartsConsented
  BY NoneInNothing DEF StartsConsented, Starts

LEMMA HandlingAsserts ==
  ASSUME CInv, NEW s \in Socket, ServerHandles(s), NEW t \in Socket, Mirrored(t), AssertsReady(t)
  PROVE  AssertsReady(t)'
<1>1. ServerTurn /\ StartsConsented
  <2>1. ServerTurn
    BY HandledTurn
  <2>2. ServerMoves \/ ServerIdle
    BY ServerStep DEF CInv
  <2> QED
    BY <2>1, <2>2, StartsByConsent, NothingStarts DEF ServerMoves, ServerIdle, CInv
<1>2. Flow /\ UNCHANGED <<lobby, events, drain, cmds>> /\ up' = Take(up, s) /\ up[s] # <<>>
  BY DEF ServerHandles, tasks
<1>3. up \in [Socket -> Seq(UpMessage)]
  BY DEF CInv, ClientTypes
<1>4. ASSUME Placed(t), sock[t].link = "open", Reports(up[t])
      PROVE  Reports(up'[t]) \/ ~Silent(sent'[t])
  <2>1. CASE t # s
    BY <1>2, <1>3, <1>4, <2>1 DEF Take
  <2>2. CASE t = s
    <3>1. up[s] \in Seq(UpMessage) /\ up'[s] = Tail(up[s])
      BY <1>2, <1>3 DEF Take
    <3>2. Reports(up[s]) <=> Reports(Tail(up[s])) \/ Head(up[s]).type = "setReady"
      BY <1>2, <3>1, ReportsStep
    <3> QED
      BY <1>4, <2>2, <3>1, <3>2, ReportAnswered
  <2> QED
    BY <2>1, <2>2
<1> QED
  BY <1>1, <1>2, <1>4, TurnAsserts

LEMMA BreakAsserts ==
  ASSUME CInv, NEW s \in Socket, Disconnect(s), NEW t \in Socket, Mirrored(t), AssertsReady(t)
  PROVE  AssertsReady(t)'
<1>1. ServerTurn /\ sock'[s].link # "open"
  BY BrokenTurn
<1>2. StartsConsented
  BY BreakStep, StartsByConsent DEF Disconnect, ServerMoves, CInv
<1>3. Flow /\ UNCHANGED <<lobby, events, drain, cmds>> /\ up' = [up EXCEPT ![s] = <<>>]
  BY DEF Disconnect, tasks
<1>4. CASE t # s
  <2>1. up'[t] = up[t]
    BY <1>3, <1>4 DEF CInv, ClientTypes
  <2> QED
    BY <1>1, <1>2, <1>3, <2>1, TurnAsserts
<1>5. CASE t = s
  BY <1>1, <1>5 DEF AssertsReady, Unasserted
<1> QED
  BY <1>4, <1>5

LEMMA OpenAsserts ==
  ASSUME CInv, NEW s \in Socket, NEW kind \in {"create", "join"}, OpenRoom(s, Plain(kind)),
         NEW t \in Socket, AssertsReady(t)
  PROVE  AssertsReady(t)'
<1>1. /\ Connect(s) /\ Flow /\ up' = Post(up, s, Plain(kind)) /\ events' = events
      /\ lobby' = [lobby EXCEPT ![s].phase = "idle"]
      /\ drain' = [drain EXCEPT ![s] = "loop"] /\ cmds' = cmds
  BY DEF OpenRoom
<1>2. /\ room' = room /\ sock[s].link = "new" /\ sock' = [sock EXCEPT ![s].link = "open"]
      /\ \A n \in Socket : News(n) = <<>>
  BY <1>1, ConnectStepIs DEF Connect, CInv
<1>3. /\ sock'[s].link = "open" /\ sock'[s].code = sock[s].code
      /\ \A n \in Socket \ {s} : sock'[n] = sock[n]
  BY <1>2 DEF CInv, IInv, Shape, Attached
<1>4. CASE t # s
  <2>1. /\ lobby'[t] = lobby[t] /\ up'[t] = up[t] /\ events'[t] = events[t]
        /\ drain'[t] = drain[t] /\ cmds'[t] = cmds[t]
    BY <1>1, <1>4 DEF Post, CInv, ClientTypes
  <2>2. Working(t) => down'[t] = down[t]
    <3>1. down[t] \in Seq(NewsMessage) /\ ~Ended(t)
      BY <1>3, <1>4 DEF Ended, CInv, ClientTypes
    <3>2. (down[t] \o <<>>) \o <<>> = down[t]
      BY <3>1, ConcatEmptySeq
    <3>3. Working(t) => down'[t] = (down[t] \o <<>>) \o <<>>
      BY <1>1, <1>2, <3>1 DEF Flow, Working
    <3> QED
      BY <3>2, <3>3
  <2>3. /\ Placed(t)' = Placed(t) /\ sock'[t].link = sock[t].link
        /\ Players(t)' = Players(t) /\ Place(t)' = Place(t)
    BY <1>2, <1>3, <1>4 DEF Placed, Players, Place
  <2>4. HoldsAll(t, RomsOf(Players(t)))' = HoldsAll(t, RomsOf(Players(t)))
    BY <2>3 DEF HoldsAll, RomsOf
  <2>5. Unasserted(t)' => Unasserted(t) /\ down'[t] = down[t]
    BY <2>1, <2>2, <2>3 DEF Unasserted, Working
  <2> QED
    BY <2>1, <2>4, <2>5
       DEF AssertsReady, RosterAfterMerge, RosterAfterStarts, ReportIsComing
<1>5. CASE t = s
  <2>1. ~Placed(s)
    BY <1>2, StoredRoom DEF Placed, CInv, IInv
  <2>2. ~Placed(s)'
    BY <1>2, <1>3, <2>1 DEF Placed
  <2> QED
    BY <1>5, <2>2 DEF AssertsReady, Unasserted
<1> QED
  BY <1>4, <1>5

LEMMA InitAssert == ClientInit => AssertInv
<1> SUFFICES ASSUME ClientInit PROVE AssertInv
  OBVIOUS
<1>1. \A s \in Socket : drain[s] = "over"
  BY DEF ClientInit
<1> QED
  BY <1>1, InitMirror DEF AssertInv, AssertsReady, Unasserted

LEMMA StepAssert == AssertInv /\ [ClientNext]_allVars => AssertInv'
<1> SUFFICES ASSUME AssertInv, [ClientNext]_allVars PROVE AssertInv'
  OBVIOUS
<1>1. CInv /\ MirrorInv /\ MirrorInv'
  BY StepMirror DEF AssertInv, MirrorInv
<1>2. SUFFICES ASSUME NEW t \in Socket, AssertsReady(t), Mirrored(t) PROVE AssertsReady(t)'
  BY <1>1 DEF AssertInv, MirrorInv
<1>3. CASE UNCHANGED allVars
  <2>1. UNCHANGED <<room, sock, lobby, up, down, events, drain, cmds>>
    BY <1>3 DEF allVars, serverVars, clientVars, wire, tasks
  <2> QED
    BY <1>2, <2>1 DEF AssertsReady, Unasserted, RosterAfterMerge, RosterAfterStarts,
       ReportIsComing, Working, Placed, Players, Place, HoldsAll, RomsOf
<1>4. CASE ClientNext
  <2>1. PICK s \in Socket :
          \/ ServerHandles(s) \/ Disconnect(s) \/ LobbyTask(s) \/ DrainTask(s)
          \/ PumpUnplugs(s) \/ PeerGone(s) \/ User(s)
    BY <1>4 DEF ClientNext
  <2>2. Mirrored(s) /\ AssertsReady(s)
    BY DEF AssertInv, MirrorInv
  <2>3. CASE ServerHandles(s)
    BY <1>1, <1>2, <2>3, HandlingAsserts
  <2>4. CASE Disconnect(s)
    BY <1>1, <1>2, <2>4, BreakAsserts
  <2>5. CASE LobbyTask(s)
    <3>1. ServerIdle /\ (t # s => Rests(t))
      BY <1>1, <2>2, <2>5, LobbyMirrors
    <3>2. AssertsReady(s)' /\ (t # s => cmds'[t] = cmds[t])
      BY <1>1, <2>2, <2>5, LobbyAsserts
    <3> QED
      BY <1>2, <3>1, <3>2, RestAsserts
  <2>6. ASSUME Apart(s), AssertsReady(s)', t # s => cmds'[t] = cmds[t] PROVE AssertsReady(t)'
    BY <1>2, <2>6, ApartRests, RestAsserts DEF Apart
  <2>7. CASE DrainTask(s)
    BY <1>1, <2>2, <2>6, <2>7, DrainMirrors, DrainAsserts
  <2>8. CASE PumpUnplugs(s) \/ PeerGone(s)
    BY <1>1, <2>2, <2>6, <2>8, UserMirrors, UserAsserts
  <2>9. CASE User(s)
    <3>1. CASE OpenRoom(s, Plain(IF s = Creator THEN "create" ELSE "join"))
      <4>1. PICK kind \in {"create", "join"} : OpenRoom(s, Plain(kind))
        BY <3>1
      <4> QED
        BY <1>1, <1>2, <4>1, OpenAsserts
    <3>2. CASE LinkUp(s) \/ EjectPlayer(s) \/ LeaveRoom(s) \/ QuitGame(s) \/ LaunchGame(s)
      BY <1>1, <2>2, <2>6, <3>2, UserMirrors, UserAsserts
    <3> QED
      BY <2>9, <3>1, <3>2 DEF User
  <2> QED
    BY <2>1, <2>3, <2>4, <2>5, <2>7, <2>8, <2>9
<1> QED
  BY <1>3, <1>4

\* Whenever a client comes to rest in a room all of whose ROMs it holds, the
\* server lists it ready: no report is lost for good to the phases of a merge
\* that drop it, or to the resets that cross it.
THEOREM ReadyAlwaysKept == ClientSpec => []ReadyKept
<1>1. ClientSpec => []AssertInv
  BY InitAssert, StepAssert, PTL DEF ClientSpec
<1>2. AssertInv => ReadyKept
  BY AssertingMeansKept
<1> QED
  BY <1>1, <1>2, PTL

-----------------------------------------------------------------------------
(* Links on their way.  A member of the last merge of its room is linked,  *)
(* or is on the way into the link, or has something under way that voids   *)
(* this merge or brings the next.                                          *)

Has(q, kind) == \E m \in ToSet(q) : m.type = kind
Withdraws(q) == \E m \in ToSet(q) : m.type = "setReady" /\ ~m.ready

\* A session in q is ready, and no later merge starts in q.
Joins(q) ==
  \E i \in DOMAIN q : /\ q[i].type = "sessionReady"
                      /\ \A j \in DOMAIN q : j > i => q[j].type # "starting"

LEMMA HasStep ==
  ASSUME NEW S, NEW q \in Seq(S)
  PROVE  /\ \A x \in S : Starts(Append(q, x)) <=> Starts(q) \/ x.type = "starting"
         /\ q # <<>> => (Starts(q) <=> Starts(Tail(q)) \/ Head(q).type = "starting")
         /\ \A b \in Seq(S) : Starts(q \o b) <=> Starts(q) \/ Starts(b)
         /\ \A kind : \A x \in S : Has(Append(q, x), kind) <=> Has(q, kind) \/ x.type = kind
         /\ \A kind : q # <<>> => (Has(q, kind) <=> Has(Tail(q), kind) \/ Head(q).type = kind)
         /\ \A x \in S : Withdraws(Append(q, x)) <=>
              Withdraws(q) \/ (x.type = "setReady" /\ ~x.ready)
         /\ q # <<>> => (Withdraws(q) <=>
              Withdraws(Tail(q)) \/ (Head(q).type = "setReady" /\ ~Head(q).ready))
         /\ \A b \in Seq(S) : Withdraws(q) => Withdraws(q \o b)
         /\ ~Starts(<<>>) /\ ~Withdraws(<<>>) /\ \A kind : ~Has(<<>>, kind)
<1>1. ASSUME NEW x \in S
      PROVE  /\ Starts(Append(q, x)) <=> Starts(q) \/ x.type = "starting"
             /\ \A kind : Has(Append(q, x), kind) <=> Has(q, kind) \/ x.type = kind
             /\ Withdraws(Append(q, x)) <=> Withdraws(q) \/ (x.type = "setReady" /\ ~x.ready)
  <2>1. ToSet(Append(q, x)) = ToSet(q) \cup {x}
    BY SetOfQueue
  <2> QED
    BY <2>1 DEF Starts, Has, Withdraws
<1>2. ASSUME q # <<>>
      PROVE  /\ Starts(q) <=> Starts(Tail(q)) \/ Head(q).type = "starting"
             /\ \A kind : Has(q, kind) <=> Has(Tail(q), kind) \/ Head(q).type = kind
             /\ Withdraws(q) <=>
                  Withdraws(Tail(q)) \/ (Head(q).type = "setReady" /\ ~Head(q).ready)
  <2>1. ToSet(q) = ToSet(Tail(q)) \cup {Head(q)}
    BY <1>2, SetOfQueue
  <2> QED
    BY <2>1 DEF Starts, Has, Withdraws
<1>3. ASSUME NEW b \in Seq(S)
      PROVE  (Starts(q \o b) <=> Starts(q) \/ Starts(b)) /\ (Withdraws(q) => Withdraws(q \o b))
  <2>1. ToSet(q \o b) = ToSet(q) \cup ToSet(b)
    BY SetOfQueue
  <2> QED
    BY <2>1 DEF Starts, Withdraws
<1>4. ~Starts(<<>>) /\ ~Withdraws(<<>>) /\ \A kind : ~Has(<<>>, kind)
  BY NoneInNothing DEF Starts, Withdraws, Has
<1> QED
  BY <1>1, <1>2, <1>3, <1>4

LEMMA JoinsStep ==
  ASSUME NEW S, NEW q \in Seq(S)
  PROVE  /\ \A x \in S : x.type = "sessionReady" \/ (x.type # "starting" /\ Joins(q)) =>
              Joins(Append(q, x))
         /\ q # <<>> /\ Joins(q) =>
              \/ Joins(Tail(q))
              \/ Head(q).type = "sessionReady" /\ ~Starts(Tail(q))
         /\ ~Joins(<<>>)
<1> DEFINE n == Len(q)
<1>1. n \in Nat /\ DOMAIN q = 1 .. n
  BY LenProperties
<1>2. ASSUME NEW x \in S, x.type = "sessionReady" \/ (x.type # "starting" /\ Joins(q))
      PROVE  Joins(Append(q, x))
  <2> DEFINE c == Append(q, x)
  <2>1. /\ DOMAIN c = 1 .. n + 1 /\ c[n + 1] = x
        /\ \A i \in 1 .. n : c[i] = q[i]
    BY <1>1, AppendProperties
  <2> HIDE DEF c, n
  <2>2. n + 1 \in DOMAIN c /\ \A i \in DOMAIN c : ~(i > n + 1)
    BY <1>1, <2>1
  <2>3. \A i \in DOMAIN c : i # n + 1 => i \in DOMAIN q /\ c[i] = q[i]
    BY <1>1, <2>1
  <2>4. \A i \in DOMAIN q : i \in DOMAIN c /\ c[i] = q[i]
    BY <1>1, <2>1
  <2>5. CASE x.type = "sessionReady"
    BY <2>1, <2>2, <2>5 DEF Joins, c
  <2>6. CASE x.type # "starting" /\ Joins(q)
    <3>1. PICK i \in DOMAIN q : /\ q[i].type = "sessionReady"
                                /\ \A j \in DOMAIN q : j > i => q[j].type # "starting"
      BY <2>6 DEF Joins
    <3>2. \A j \in DOMAIN c : j > i => c[j].type # "starting"
      BY <2>1, <2>3, <2>6, <3>1
    <3> QED
      BY <2>4, <3>1, <3>2 DEF Joins, c
  <2> QED
    BY <1>2, <2>5, <2>6
<1>3. ASSUME q # <<>>, Joins(q)
      PROVE  \/ Joins(Tail(q))
             \/ Head(q).type = "sessionReady" /\ ~Starts(Tail(q))
  <2> DEFINE c == Tail(q)
  <2>1. /\ n # 0 /\ DOMAIN c = 1 .. n - 1 /\ Head(q) = q[1]
        /\ \A i \in 1 .. n - 1 : c[i] = q[i + 1]
    <3>1. c \in Seq(S) /\ Len(c) = n - 1 /\ n # 0
          /\ \A i \in 1 .. Len(c) : c[i] = q[i + 1]
      BY <1>3, HeadTailProperties, EmptySeq
    <3>2. DOMAIN c = 1 .. Len(c)
      BY <3>1, LenProperties
    <3> QED
      BY <1>3, <3>1, <3>2, HeadTailProperties
  <2> HIDE DEF c, n
  <2>2. \A i \in DOMAIN c : i + 1 \in DOMAIN q /\ c[i] = q[i + 1] /\ i + 1 > 1
    BY <1>1, <2>1
  <2>3. \A i \in DOMAIN q : i # 1 =>
          i - 1 \in DOMAIN c /\ c[i - 1] = q[i] /\ \A j \in DOMAIN c : j > i - 1 => j + 1 > i
    BY <1>1, <2>1
  <2>4. PICK i \in DOMAIN q : /\ q[i].type = "sessionReady"
                              /\ \A j \in DOMAIN q : j > i => q[j].type # "starting"
    BY <1>3 DEF Joins
  <2>5. CASE i = 1
    <3>1. \A j \in DOMAIN c : c[j].type # "starting"
      BY <2>2, <2>4, <2>5
    <3> QED
      BY <2>1, <2>4, <2>5, <3>1 DEF Starts, ToSet, c
  <2>6. CASE i # 1
    <3>1. i - 1 \in DOMAIN c /\ c[i - 1].type = "sessionReady"
      BY <2>3, <2>4, <2>6
    <3>2. \A j \in DOMAIN c : j > i - 1 => c[j].type # "starting"
      BY <2>2, <2>3, <2>4, <2>6
    <3> QED
      BY <3>1, <3>2 DEF Joins, c
  <2> QED
    BY <2>5, <2>6
<1>4. ~Joins(<<>>)
  BY DEF Joins
<1> QED
  BY <1>2, <1>3, <1>4

\* A drain is only at work behind a lobby, only a link is pulled, and a player
\* that is not shown the room any more has had its lobby told so.
Prepared(s) ==
  /\ drain[s] # "over" => lobby[s].phase # "off"
  /\ machine[s].unplug => Linked(s)
  /\ Working(s) /\ ~ui[s].here => Has(cmds[s], "leave")

\* A member at work whose socket is open.
Attends(s) == Working(s) /\ sock[s].link = "open" /\ Placed(s)

Wrong(q, s) == \E m \in ToSet(q) : m.type = "roster" /\ m.wireless # peripheral[s]

\* Whoever plays on the other peripheral than its room has yet to learn it.
WrongIsComing(s) ==
  Attends(s) /\ room[sock[s].code].wireless # peripheral[s] =>
    Wrong(down[s], s) \/ Wrong(lobby[s].stray, s)

\* The last merge of the room is about to be voided, or followed by another,
\* or is on its way to the drain.
MergeIsComing(s) ==
  \/ Starts(down[s]) \/ Starts(lobby[s].stray)
  \/ lobby[s].phase \in {"mesh", "boot", "exchange", "pause"} \/ lobby[s].dance
  \/ Has(cmds[s], "dropped") \/ Has(cmds[s], "leave") \/ Withdraws(up[s])

\* The link of the last merge the drain has heard of is there, or in hand.
LinkIsComing(s) ==
  \/ Joins(events[s])
  \/ /\ ~Starts(events[s])
     /\ \/ drain[s] = "reading"
        \/ drain[s] = "loop" /\ Linked(s) /\ ~machine[s].unplug

InLastMerge(s) ==
  Attends(s) /\ peripheral[s] /\ s \in ToSet(room[sock[s].code].lastMerge)

Held(s) == InLastMerge(s) /\ drain[s] # "over" => MergeIsComing(s) \/ LinkIsComing(s)

Links(s) == Prepared(s) /\ WrongIsComing(s) /\ Held(s)

LinkInv == AssertInv /\ RInv /\ \A s \in Socket : Links(s)

\* At rest nothing is on its way, so that the link is there.
LEMMA LinksMeanNobodyLeft ==
  ASSUME LinkInv
  PROVE  NobodyLeftBehind
<1> SUFFICES ASSUME \A s \in Socket : lobby[s].phase # "off" => Quiet(s),
                    NEW c \in DOMAIN room, room[c].wireless, Unanimous(room[c]),
                    NEW s \in ToSet(Ids(room[c])), drain[s] = "loop"
             PROVE  Linked(s)
  BY DEF NobodyLeftBehind, Linked
<1>1. IInv /\ CInv /\ MergedOnce(room[c])
  BY DEF LinkInv, RInv, AssertInv, MirrorInv
<1>2. room[c] \in Room /\ \A t : In(room[c], t) =>
        t \in Socket /\ sock[t].code = c /\ Placed(t)
  BY <1>1, StoredRoom DEF IInv
<1>3. In(room[c], s)
  BY <1>2, IdsOfRoom
<1>4. s \in Socket /\ sock[s].code = c /\ Placed(s)
  BY <1>2, <1>3
<1>5. room[c].lastMerge = Ids(room[c])
  BY <1>1 DEF MergedOnce
<1>6. Links(s)
  BY <1>4 DEF LinkInv
<1>7. Quiet(s) /\ lobby[s].phase = "idle"
  BY <1>4, <1>6 DEF Links, Prepared, Quiet, Settled
<1>8. /\ up[s] = <<>> /\ down[s] = <<>> /\ events[s] = <<>>
      /\ lobby[s].stray = <<>> /\ cmds[s] = <<>> /\ ~lobby[s].dance
  BY <1>7 DEF Quiet, Settled
<1>9. /\ ~Starts(<<>>) /\ ~Withdraws(<<>>) /\ ~Has(<<>>, "dropped") /\ ~Has(<<>>, "leave")
      /\ ~Ends(<<>>) /\ ~Joins(<<>>) /\ ~Wrong(<<>>, s)
  BY NoneInNothing DEF Starts, Withdraws, Has, Ends, Joins, Wrong
<1>10. Working(s) /\ sock[s].link = "open"
  BY <1>4, <1>7, <1>8, <1>9
     DEF Working, LinkInv, AssertInv, MirrorInv, Mirrored, EndIsComing
<1>11. peripheral[s]
  <2>1. peripheral[s] \in BOOLEAN
    BY <1>1, <1>4 DEF CInv, ClientTypes
  <2> QED
    BY <1>4, <1>6, <1>8, <1>9, <1>10, <2>1 DEF Links, WrongIsComing, Attends
<1>12. InLastMerge(s)
  BY <1>4, <1>5, <1>10, <1>11 DEF InLastMerge, Attends
<1>13. ~MergeIsComing(s)
  BY <1>7, <1>8, <1>9 DEF MergeIsComing
<1> QED
  BY <1>6, <1>8, <1>9, <1>12, <1>13 DEF Links, Held, LinkIsComing

-----------------------------------------------------------------------------
(* ... as the server takes a step *)

\* A room stays what it is, and whoever is in it was, or had no room.
SameRoom(r, q) ==
  q.wireless = r.wireless /\ \A t : In(q, t) /\ sock[t].code # NoCode => In(r, t)

LEMMA RecordsStay ==
  ASSUME IInv, RecordStep, NEW c \in DOMAIN room \cap DOMAIN room'
  PROVE  SameRoom(room[c], room'[c])
<1>1. \A d \in DOMAIN room : /\ d # NoCode /\ room[d] \in Room /\ WellListed(room[d])
                             /\ SameRoom(room[d], room[d])
                             /\ \A t : In(room[d], t) => sock[t].code = d
  BY StoredRoom DEF IInv, SameRoom
<1>2. ASSUME NEW d \in DOMAIN room, NEW q, room' = Put(d, q), SameRoom(room[d], q)
      PROVE  SameRoom(room[c], room'[c])
  <2>1. IF d = c THEN room'[c] = q ELSE room'[c] = room[c]
    BY <1>2, PutFacts
  <2> QED
    BY <1>1, <1>2, <2>1
<1>3. ASSUME NEW C, room' = Delete(C)
      PROVE  SameRoom(room[c], room'[c])
  BY <1>1, <1>3, DeleteFacts
<1>4. CASE room' = room
  BY <1>1, <1>4
<1>5. CASE Founding
  <2>1. PICK d \in Code \ DOMAIN room : \E q : room' = Put(d, q)
    BY <1>5 DEF Founding
  <2>2. room'[c] = room[c]
    BY <2>1, PutFacts
  <2> QED
    BY <1>1, <2>2
<1>6. CASE Seating
  <2>1. PICK d \in DOMAIN room, s \in Socket, rom \in Rom :
          sock[s].code = NoCode /\ room' = Put(d, Seated(room[d], s, rom))
    BY <1>6 DEF Seating
  <2>2. ~In(room[d], s)
    BY <1>1, <2>1
  <2>3. /\ Seated(room[d], s, rom).wireless = room[d].wireless
        /\ \A t : In(Seated(room[d], s, rom), t) <=> In(room[d], t) \/ t = s
    BY <1>1, <2>2, SeatedListed, SeatedProperties
  <2>4. SameRoom(room[d], Seated(room[d], s, rom))
    BY <2>1, <2>3 DEF SameRoom
  <2> QED
    BY <1>2, <2>1, <2>4
<1>7. CASE Parting
  <2>1. PICK d \in DOMAIN room : \E k \in DOMAIN room[d].players :
          LET left == Without(room[d], k) IN
          room' = IF left.players = <<>> THEN Delete({d}) ELSE Put(d, left)
    BY <1>7 DEF Parting
  <2>2. PICK k \in DOMAIN room[d].players :
          room' = Delete({d}) \/ room' = Put(d, Without(room[d], k))
    BY <2>1
  <2>3. SameRoom(room[d], Without(room[d], k))
    BY <1>1, WithoutListed, WithoutProperties DEF SameRoom
  <2> QED
    BY <1>2, <1>3, <2>2, <2>3
<1>8. CASE Asserting
  <2>1. PICK d \in DOMAIN room : \E k \in DOMAIN room[d].players, b \in BOOLEAN :
          room' = Put(d, Asserted(room[d], k, b))
    BY <1>8 DEF Asserting
  <2>2. PICK k \in DOMAIN room[d].players, b \in BOOLEAN :
          room' = Put(d, Asserted(room[d], k, b))
    BY <2>1
  <2>3. SameRoom(room[d], Asserted(room[d], k, b))
    BY <1>1, AssertedListed, AssertedProperties DEF SameRoom
  <2> QED
    BY <1>2, <2>2, <2>3
<1>9. CASE Converging
  <2>1. PICK d \in DOMAIN room : \E k \in DOMAIN room[d].players, b \in BOOLEAN :
          room' = Put(d, Merged(Asserted(room[d], k, b)))
    BY <1>9 DEF Converging
  <2>2. PICK k \in DOMAIN room[d].players, b \in BOOLEAN :
          room' = Put(d, Merged(Asserted(room[d], k, b)))
    BY <2>1
  <2> DEFINE r == Asserted(room[d], k, b)
  <2>3. /\ r \in Room /\ r.wireless = room[d].wireless
        /\ \A t : In(r, t) <=> In(room[d], t)
    BY <1>1, AssertedListed, AssertedProperties
  <2>4. room' = Put(d, Merged(r))
    BY <2>2
  <2> HIDE DEF r
  <2>5. SameRoom(room[d], Merged(r))
    BY <2>3, MergedListed, MergedProperties DEF SameRoom
  <2> QED
    BY <1>2, <2>4, <2>5
<1>10. CASE LinkingUp
  <2>1. PICK d \in DOMAIN room : room' = Put(d, Merged(room[d]))
    BY <1>10 DEF LinkingUp
  <2>2. SameRoom(room[d], Merged(room[d]))
    BY <1>1, MergedListed, MergedProperties DEF SameRoom
  <2> QED
    BY <1>2, <2>1, <2>2
<1>11. CASE Ageing
  <2>1. PICK d \in DOMAIN room : room' = Put(d, [room[d] EXCEPT !.expired = TRUE])
    BY <1>11 DEF Ageing
  <2> DEFINE r == room[d]
             q == [r EXCEPT !.expired = TRUE]
  <2>2. q.players = r.players /\ q.wireless = r.wireless
    BY <1>1 DEF Room
  <2> HIDE DEF q, r
  <2>3. SameRoom(r, q)
    BY <2>2 DEF SameRoom, In
  <2> QED
    BY <1>2, <2>1, <2>3 DEF q, r
<1>12. CASE Collecting
  BY <1>3, <1>12 DEF Collecting
<1> QED
  BY <1>4, <1>5, <1>6, <1>7, <1>8, <1>9, <1>10, <1>11, <1>12 DEF RecordStep

\* Who is newly of the last merge of a room, and connected, is sent its start.
MergesTold ==
  \A c \in DOMAIN room' : \A t \in Socket :
    t \in ToSet(room'[c].lastMerge) /\ sock[t].link = "open" =>
      Starts(sent'[t]) \/ (c \in DOMAIN room /\ t \in ToSet(room[c].lastMerge))

LEMMA SameMergesTold ==
  ASSUME room' = room \/ \E C : room' = Delete(C)
  PROVE  MergesTold
<1> SUFFICES ASSUME NEW c \in DOMAIN room'
             PROVE  c \in DOMAIN room /\ room'[c] = room[c]
  BY DEF MergesTold
<1> QED
  BY DeleteFacts

LEMMA KeptMergesTold ==
  ASSUME NEW d, NEW q, room' = Put(d, q),
         q.lastMerge = NoMerge \/ (d \in DOMAIN room /\ q.lastMerge = room[d].lastMerge)
  PROVE  MergesTold
<1> SUFFICES ASSUME NEW c \in DOMAIN room', NEW t \in ToSet(room'[c].lastMerge)
             PROVE  c \in DOMAIN room /\ t \in ToSet(room[c].lastMerge)
  BY DEF MergesTold
<1>1. /\ DOMAIN room' = DOMAIN room \cup {d} /\ room'[d] = q
      /\ \A e \in DOMAIN room : e # d => room'[e] = room[e]
  BY PutFacts
<1>2. CASE c = d
  <2>1. ToSet(NoMerge) = {}
    BY NoneInNothing DEF NoMerge
  <2> QED
    BY <1>1, <1>2, <2>1
<1>3. CASE c # d
  BY <1>1, <1>3
<1> QED
  BY <1>2, <1>3

LEMMA StartedMergesTold ==
  ASSUME IInv, NEW c \in DOMAIN room, NEW r \in Room, LinksUp(c, r)
  PROVE  MergesTold
<1> SUFFICES ASSUME NEW d \in DOMAIN room', NEW t \in Socket,
                    t \in ToSet(room'[d].lastMerge), sock[t].link = "open"
             PROVE  Starts(sent'[t]) \/ (d \in DOMAIN room /\ t \in ToSet(room[d].lastMerge))
  BY DEF MergesTold
<1>1. /\ DOMAIN room' = DOMAIN room \cup {c} /\ room'[c] = Merged(r)
      /\ \A e \in DOMAIN room : e # c => room'[e] = room[e]
  BY PutFacts DEF LinksUp
<1>2. CASE d = c
  <2>1. In(r, t)
    BY <1>1, <1>2, MergedProperties, IdsOfRoom
  <2>2. Starting(r, Position(r, t)) \in ToSet(sent'[t])
    BY <2>1 DEF LinksUp
  <2> QED
    BY <2>2, MessageTypes DEF Starts
<1>3. CASE d # c
  BY <1>1, <1>3
<1> QED
  BY <1>2, <1>3

LEMMA DepartureMergesTold ==
  ASSUME IInv, NEW s \in Socket, NEW link, Depart(s, link)
  PROVE  MergesTold
<1> DEFINE c == sock[s].code
           k == Position(room[c], s)
<1>1. \/ room' = room
      \/ Placed(s) /\ (room' = Delete({c}) \/ room' = Put(c, Without(room[c], k)))
  BY DEF Depart
<1>2. Placed(s) => c \in DOMAIN room /\ room[c] \in Room /\ k \in DOMAIN room[c].players
  BY StoredRoom, RoomFields DEF IInv, Placed
<1> HIDE DEF c, k
<1>3. Placed(s) => Without(room[c], k).lastMerge = room[c].lastMerge
  BY <1>2, WithoutProperties
<1> QED
  BY <1>1, <1>2, <1>3, SameMergesTold, KeptMergesTold

LEMMA KickMergesTold ==
  ASSUME IInv, NEW s \in Socket, NEW seat, NEW link \in {"closing", "broken"},
         KickPlayer(s, seat, link)
  PROVE  MergesTold
<1> DEFINE c == sock[s].code
           k == CHOOSE i \in DOMAIN room[c].players : room[c].players[i].seat = seat
<1>1. /\ room' = Put(c, Without(room[c], k)) /\ Placed(s)
      /\ \E i \in DOMAIN room[c].players : room[c].players[i].seat = seat
  BY DEF KickPlayer
<1>2. k \in DOMAIN room[c].players
  BY <1>1
<1>3. c \in DOMAIN room /\ room[c] \in Room
  BY <1>1, StoredRoom DEF IInv, Placed
<1> HIDE DEF c, k
<1>4. Without(room[c], k).lastMerge = room[c].lastMerge
  BY <1>2, <1>3, WithoutProperties
<1> QED
  BY <1>1, <1>3, <1>4, KeptMergesTold

LEMMA ReadyMergesTold ==
  ASSUME IInv, NEW s \in Socket, NEW b \in BOOLEAN, SetReady(s, b)
  PROVE  MergesTold
<1> DEFINE c    == sock[s].code
           k    == Position(room[c], s)
           r    == Asserted(room[c], k, b)
           wave == [t \in Socket |-> RosterFor(r, t) \o StartingFor(r, t)]
<1>1. c \in DOMAIN room /\ room[c] \in Room /\ k \in DOMAIN room[c].players
  BY StoredRoom, RoomFields DEF IInv, SetReady, Placed
<1>2. \/ room' = Put(c, Merged(r)) /\ sent' = Heard(wave)
      \/ room' = Put(c, r)
  BY DEF SetReady
<1> HIDE DEF c, k
<1>3. r \in Room /\ r.lastMerge \in {room[c].lastMerge, NoMerge}
  BY <1>1, AssertedProperties
<1> HIDE DEF r
<1>4. CASE room' = Put(c, r)
  BY <1>1, <1>3, <1>4, KeptMergesTold
<1>5. CASE room' = Put(c, Merged(r)) /\ sent' = Heard(wave)
  <2> SUFFICES ASSUME NEW d \in DOMAIN room', NEW t \in Socket,
                      t \in ToSet(room'[d].lastMerge), sock[t].link = "open"
               PROVE  \/ Starts(sent'[t])
                      \/ d \in DOMAIN room /\ t \in ToSet(room[d].lastMerge)
    BY DEF MergesTold
  <2>1. /\ DOMAIN room' = DOMAIN room \cup {c} /\ room'[c] = Merged(r)
        /\ \A e \in DOMAIN room : e # c => room'[e] = room[e]
    BY <1>5, PutFacts
  <2>2. CASE d = c
    <3>1. In(r, t)
      BY <1>3, <2>1, <2>2, MergedProperties, IdsOfRoom
    <3> DEFINE x == Starting(r, Position(r, t))
    <3>2. x.type = "starting" /\ x \in ToSet(StartingFor(r, t))
      BY <3>1, StartingForSet, MessageTypes
    <3> HIDE DEF x
    <3>3. x \in ToSet(wave[t])
      BY <1>3, <3>2, WaveSet
    <3>4. sent'[t] = wave[t]
      BY <1>5, HeardSet
    <3> QED
      BY <3>2, <3>3, <3>4 DEF Starts
  <2>3. CASE d # c
    BY <2>1, <2>3
  <2> QED
    BY <2>2, <2>3
<1> QED
  BY <1>2, <1>4, <1>5

\* A member that withdraws is not of the last merge any more.
LEMMA WithdrawalVoids ==
  ASSUME IInv, NEW s \in Socket, SetReady(s, FALSE)
  PROVE  s \notin ToSet(room'[sock'[s].code].lastMerge)
<1> DEFINE c == sock[s].code
           k == Position(room[c], s)
           r == Asserted(room[c], k, FALSE)
<1>1. /\ c \in DOMAIN room /\ room[c] \in Room
      /\ k \in DOMAIN room[c].players /\ room[c].players[k].id = s
  BY StoredRoom, RoomFields DEF IInv, SetReady, Placed
<1>2. ~Converged(r) => room' = Put(c, r) /\ sock' = sock
  BY DEF SetReady
<1> HIDE DEF c, k
<1>3. ~Converged(r)
  <2>1. r.players[k].ready = FALSE
    BY <1>1, AssertedBit
  <2>2. DOMAIN r.players = DOMAIN room[c].players
    BY <1>1, AssertedProperties
  <2> QED
    BY <1>1, <2>1, <2>2 DEF Converged, Unanimous, AllReady
<1>4. r.lastMerge = IF s \in ToSet(room[c].lastMerge) THEN NoMerge ELSE room[c].lastMerge
  BY <1>1 DEF Asserted, Room
<1> HIDE DEF r
<1>5. ToSet(NoMerge) = {}
  BY NoneInNothing DEF NoMerge
<1>6. room'[c] = r /\ sock'[s].code = c
  BY <1>2, <1>3, PutFacts DEF c
<1> QED
  BY <1>4, <1>5, <1>6

LEMMA HandledMergesTold ==
  ASSUME CInv, NEW s \in Socket, ServerHandles(s)
  PROVE  MergesTold
<1> DEFINE m == Head(up[s])
<1>1. m \in UpMessage
  BY QueueSteps DEF ServerHandles, CInv, ClientTypes
<1>2. m.type = "setReady" => m.ready \in BOOLEAN
  BY <1>1 DEF UpMessage
<1>3. Entering(s, m) \/ Asking(s, m) \/ Going(s, m) \/ Unheard(s, m)
  BY DEF ServerHandles
<1> HIDE DEF m
<1>4. CASE Entering(s, m)
  <2>1. OwnRom[s] \in Rom /\ peripheral[s] \in BOOLEAN
    BY LibraryAssumption DEF CInv, ClientTypes
  <2>2. PICK c \in Code : \/ CreateRoom(s, c, OwnRom[s], peripheral[s])
                          \/ JoinRoom(s, c, OwnRom[s]) \/ RefuseJoin(s, c)
    BY <1>4 DEF Entering
  <2>3. CASE CreateRoom(s, c, OwnRom[s], peripheral[s])
    <3>1. room' = Put(c, NewRoom(s, OwnRom[s], peripheral[s]))
      BY <2>3 DEF CreateRoom
    <3>2. NewRoom(s, OwnRom[s], peripheral[s]).lastMerge = NoMerge
      BY DEF NewRoom
    <3> QED
      BY <3>1, <3>2, KeptMergesTold
  <2>4. CASE JoinRoom(s, c, OwnRom[s])
    <3>1. c \in DOMAIN room /\ room' = Put(c, Seated(room[c], s, OwnRom[s]))
      BY <2>4 DEF JoinRoom
    <3>2. room[c] \in Room
      BY <3>1, StoredRoom DEF CInv, IInv
    <3>3. Seated(room[c], s, OwnRom[s]).lastMerge = room[c].lastMerge
      BY <2>1, <3>2, SeatedProperties
    <3> QED
      BY <3>1, <3>3, KeptMergesTold
  <2>5. CASE RefuseJoin(s, c)
    BY <2>5, SameMergesTold DEF RefuseJoin
  <2> QED
    BY <2>2, <2>3, <2>4, <2>5
<1>5. CASE Asking(s, m)
  <2>1. CASE StartRoom(s)
    BY <2>1, StartLinksUp, StartedMergesTold DEF CInv
  <2> QED
    BY <1>2, <1>5, <2>1, ReadyMergesTold, KickMergesTold, SameMergesTold
       DEF Asking, RefuseStart, RefuseKick, IgnoreMessage, CInv
<1>6. CASE Going(s, m)
  BY <1>6, DepartureMergesTold DEF Going, Leave, CloseEvent, CInv
<1>7. CASE Unheard(s, m)
  BY <1>7, SameMergesTold DEF Unheard, ServerIdle
<1> QED
  BY <1>3, <1>4, <1>5, <1>6, <1>7

\* Whoever is in a room afterwards and hears no roster was in it, and of what
\* it was.
LEMMA TurnSameRoom ==
  ASSUME CInv, ServerTurn, RecordStep, NEW t \in Socket, sock'[t].link = "open",
         Placed(t)', Silent(sent'[t])
  PROVE  /\ Placed(t) /\ sock'[t].code = sock[t].code
         /\ room'[sock'[t].code].wireless = room[sock[t].code].wireless
<1> DEFINE c == sock'[t].code
<1>1. c \in DOMAIN room' /\ In(room'[c], t)
  BY DEF Placed
<1>2. PICK i \in DOMAIN room'[c].players : room'[c].players[i].id = t
  BY <1>1 DEF In
<1>3. Rosters(sent'[t]) = {}
  BY DEF Silent, Rosters
<1>4. c \in DOMAIN room /\ room'[c].players = room[c].players
  BY <1>1, <1>2, <1>3 DEF ServerTurn, AnnouncedNow
<1>5. In(room[c], t)
  BY <1>2, <1>4 DEF In
<1>6. sock[t].code = c
  BY <1>4, <1>5, StoredRoom DEF CInv, IInv
<1>7. room'[c].wireless = room[c].wireless
  BY <1>1, <1>4, RecordsStay DEF CInv, SameRoom
<1> QED
  BY <1>4, <1>5, <1>6, <1>7 DEF Placed

\* The news of a step, as they are set behind what is in flight.
LEMMA TurnLinks ==
  ASSUME CInv, MergeKnown, ServerTurn, RecordStep, MergesTold, Flow,
         NEW t \in Socket, Mirrored(t), Links(t), peripheral' = peripheral,
         lobby'[t] = lobby[t], events'[t] = events[t], drain'[t] = drain[t],
         cmds'[t] = cmds[t], ui'[t] = ui[t], machine'[t] = machine[t],
         InLastMerge(t)' /\ Withdraws(up[t]) => Withdraws(up'[t])
  PROVE  Links(t)'
<1> DEFINE c == sock'[t].code
<1>1. Prepared(t)'
  BY DEF Links, Prepared, Working, Linked
<1>2. SUFFICES ASSUME Attends(t)' PROVE WrongIsComing(t)' /\ Held(t)'
  BY <1>1 DEF Links, WrongIsComing, Held, InLastMerge
<1>3. /\ Working(t) /\ sock'[t].link = "open" /\ Placed(t)'
      /\ c \in DOMAIN room' /\ In(room'[c], t)
  BY <1>2 DEF Attends, Working, Placed
<1>4. sock[t].link = "open" /\ ~Ended(t)
  BY <1>3 DEF Mirrored, EndIsComing, ServerTurn, LinksOnlyClose, Ended
<1>5. /\ News(t) \in Seq(NewsMessage) /\ News(t) = sent'[t] /\ down[t] \in Seq(NewsMessage)
      /\ down'[t] = down[t] \o News(t)
  BY <1>3, <1>4, FlowIs
<1>6. ToSet(down'[t]) = ToSet(down[t]) \cup ToSet(sent'[t])
  BY <1>5, SetOfQueue
<1>7. WrongIsComing(t)'
  <2> SUFFICES ASSUME room'[c].wireless # peripheral[t]
               PROVE  Wrong(down'[t], t) \/ Wrong(lobby[t].stray, t)
    BY DEF WrongIsComing, Wrong
  <2>1. CASE ~Silent(sent'[t])
    <3>1. PICK m \in ToSet(sent'[t]) : m.type = "roster"
      BY <2>1 DEF Silent
    <3>2. m = Roster(room'[c], Position(room'[c], t))
      BY <3>1 DEF ServerTurn, Tidings
    <3>3. m.wireless = room'[c].wireless
      BY <3>2 DEF Roster
    <3> QED
      BY <1>6, <3>1, <3>3 DEF Wrong
  <2>2. CASE Silent(sent'[t])
    <3>1. Placed(t) /\ room[sock[t].code].wireless = room'[c].wireless
      BY <1>3, <2>2, TurnSameRoom
    <3>2. Wrong(down[t], t) \/ Wrong(lobby[t].stray, t)
      BY <1>3, <1>4, <3>1 DEF Links, WrongIsComing, Attends
    <3> QED
      BY <1>6, <3>2 DEF Wrong
  <2> QED
    BY <2>1, <2>2
<1>8. Held(t)'
  <2> SUFFICES ASSUME InLastMerge(t)', drain'[t] # "over"
               PROVE  MergeIsComing(t)' \/ LinkIsComing(t)'
    BY DEF Held
  <2>1. t \in ToSet(room'[c].lastMerge) /\ peripheral[t]
    BY DEF InLastMerge
  <2>2. CASE Starts(sent'[t])
    BY <1>6, <2>2 DEF MergeIsComing, Starts
  <2>3. CASE c \in DOMAIN room /\ t \in ToSet(room[c].lastMerge)
    <3>1. sock[t].code = c
      BY <1>4, <2>3 DEF MergeKnown, ToSet
    <3>2. In(room[c], t)
      <4>1. c # NoCode
        BY <2>3, StoredRoom DEF CInv, IInv
      <4> QED
        BY <1>3, <2>3, <3>1, <4>1, RecordsStay DEF CInv, SameRoom
    <3>3. InLastMerge(t)
      BY <1>3, <1>4, <2>1, <2>3, <3>1, <3>2 DEF InLastMerge, Attends, Placed
    <3>4. MergeIsComing(t) \/ LinkIsComing(t)
      BY <3>3 DEF Links, Held
    <3>5. Starts(down[t]) => Starts(down'[t])
      BY <1>6 DEF Starts
    <3> QED
      BY <3>4, <3>5 DEF MergeIsComing, LinkIsComing, Linked
  <2> QED
    BY <1>3, <1>4, <2>1, <2>2, <2>3 DEF MergesTold
<1> QED
  BY <1>7, <1>8

LEMMA SameRecords ==
  ASSUME IInv, room' = room, sock' = sock
  PROVE  RecordStep
  BY SameSocketsSteady DEF RecordStep

LEMMA HandledRecords ==
  ASSUME CInv, RInv, NEW s \in Socket, ServerHandles(s)
  PROVE  RecordStep
<1>1. CASE ServerMoves
  BY <1>1, RecordSteps DEF ServerMoves, RInv
<1>2. CASE ServerIdle
  BY <1>2, SameRecords DEF ServerIdle, RInv
<1> QED
  BY <1>1, <1>2, ServerStep DEF CInv

LEMMA HandlingLinks ==
  ASSUME CInv, RInv, NEW s \in Socket, ServerHandles(s),
         NEW t \in Socket, Mirrored(t), Links(t)
  PROVE  Links(t)'
<1>1. ServerTurn /\ RecordStep /\ MergesTold /\ MergeKnown
  BY HandledTurn, HandledRecords, HandledMergesTold DEF RInv
<1>2. /\ Flow /\ UNCHANGED <<lobby, events, drain, cmds, ui, machine, peripheral>>
      /\ up' = Take(up, s) /\ up[s] # <<>>
  BY DEF ServerHandles, tasks, player, budget
<1>3. up \in [Socket -> Seq(UpMessage)]
  BY DEF CInv, ClientTypes
<1>4. ASSUME InLastMerge(t)', Withdraws(up[t])
      PROVE  Withdraws(up'[t])
  <2>1. CASE t # s
    BY <1>2, <1>3, <1>4, <2>1 DEF Take
  <2>2. CASE t = s
    <3> DEFINE m == Head(up[s])
    <3>1. up[s] \in Seq(UpMessage) /\ up'[s] = Tail(up[s]) /\ m \in UpMessage
      BY <1>2, <1>3, HeadTailProperties DEF Take
    <3>2. Withdraws(up[s]) <=> Withdraws(Tail(up[s])) \/ (m.type = "setReady" /\ ~m.ready)
      BY <1>2, <3>1, HasStep
    <3>3. Entering(s, m) \/ Asking(s, m) \/ Going(s, m) \/ Unheard(s, m)
      BY DEF ServerHandles
    <3> HIDE DEF m
    <3>4. CASE m.type = "setReady" /\ ~m.ready
      <4>1. m.ready = FALSE
        BY <3>1, <3>4 DEF UpMessage
      <4>2. SetReady(s, FALSE) \/ IgnoreMessage(s) \/ (ServerIdle /\ sock[s].link = "gone")
        BY <3>3, <3>4, <4>1 DEF Entering, Asking, Going, Unheard
      <4>3. CASE SetReady(s, FALSE)
        BY <1>4, <2>2, <4>3, WithdrawalVoids DEF InLastMerge, RInv
      <4>4. CASE IgnoreMessage(s)
        BY <1>4, <2>2, <4>4 DEF InLastMerge, Attends, IgnoreMessage, Placed
      <4>5. CASE ServerIdle /\ sock[s].link = "gone"
        BY <1>4, <2>2, <4>5 DEF InLastMerge, Attends, ServerIdle
      <4> QED
        BY <4>2, <4>3, <4>4, <4>5
    <3> QED
      BY <1>4, <2>2, <3>1, <3>2, <3>4
  <2> QED
    BY <2>1, <2>2
<1> QED
  BY <1>1, <1>2, <1>4, TurnLinks

\* A client whose connection breaks is no member that could be left behind.
LEMMA BreakingLinks ==
  ASSUME CInv, RInv, NEW s \in Socket, Disconnect(s),
         NEW t \in Socket, Mirrored(t), Links(t)
  PROVE  Links(t)'
<1>1. ServerTurn /\ sock'[s].link # "open"
  BY BrokenTurn
<1>2. RecordStep
  BY BreakStep, RecordSteps DEF Disconnect, ServerMoves, CInv
<1>3. MergesTold
  BY DepartureMergesTold, SameMergesTold DEF Disconnect, ErrorEvent, LoseSocket, CInv
<1>4. /\ Flow /\ UNCHANGED <<lobby, events, drain, cmds, ui, machine, peripheral>>
      /\ up' = [up EXCEPT ![s] = <<>>]
  BY DEF Disconnect, tasks, player
<1>5. InLastMerge(t)' /\ Withdraws(up[t]) => Withdraws(up'[t])
  BY <1>1, <1>4 DEF InLastMerge, Attends, CInv, ClientTypes
<1> QED
  BY <1>1, <1>2, <1>3, <1>4, <1>5, TurnLinks DEF RInv

LEMMA OpeningLinks ==
  ASSUME CInv, NEW s \in Socket, NEW kind \in {"create", "join"}, OpenRoom(s, Plain(kind)),
         NEW t \in Socket, Links(t)
  PROVE  Links(t)'
<1>1. /\ Connect(s) /\ Flow /\ up' = Post(up, s, Plain(kind)) /\ events' = events
      /\ lobby' = [lobby EXCEPT ![s].phase = "idle"]
      /\ drain' = [drain EXCEPT ![s] = "loop"] /\ cmds' = cmds
      /\ ui' = [ui EXCEPT ![s] = FreshUi] /\ machine' = machine /\ peripheral' = peripheral
  BY DEF OpenRoom, budget
<1>2. /\ room' = room /\ sock[s].link = "new" /\ sock' = [sock EXCEPT ![s].link = "open"]
      /\ \A n \in Socket : News(n) = <<>>
  BY <1>1, ConnectStepIs DEF Connect, CInv
<1>3. /\ sock'[s].link = "open" /\ sock'[s].code = sock[s].code
      /\ \A n \in Socket \ {s} : sock'[n] = sock[n]
  BY <1>2 DEF CInv, IInv, Shape, Attached
<1>4. CASE t # s
  <2>1. /\ lobby'[t] = lobby[t] /\ up'[t] = up[t] /\ events'[t] = events[t]
        /\ drain'[t] = drain[t] /\ cmds'[t] = cmds[t] /\ ui'[t] = ui[t]
        /\ machine'[t] = machine[t] /\ peripheral'[t] = peripheral[t]
    BY <1>1, <1>4 DEF Post, CInv, ClientTypes
  <2>2. Working(t) => down'[t] = down[t]
    <3>1. down[t] \in Seq(NewsMessage) /\ ~Ended(t)
      BY <1>3, <1>4 DEF Ended, CInv, ClientTypes
    <3>2. (down[t] \o <<>>) \o <<>> = down[t]
      BY <3>1, ConcatEmptySeq
    <3>3. Working(t) => down'[t] = (down[t] \o <<>>) \o <<>>
      BY <1>1, <1>2, <3>1 DEF Flow, Working
    <3> QED
      BY <3>2, <3>3
  <2>3. Attends(t)' => Attends(t) /\ down'[t] = down[t]
    BY <1>2, <1>3, <1>4, <2>1, <2>2 DEF Attends, Placed, Working
  <2>4. Prepared(t)'
    BY <2>1 DEF Links, Prepared, Working, Linked
  <2>5. WrongIsComing(t)'
    BY <1>2, <1>3, <1>4, <2>1, <2>3 DEF Links, WrongIsComing, Wrong
  <2>6. Held(t)'
    BY <1>2, <1>3, <1>4, <2>1, <2>3
       DEF Links, Held, InLastMerge, MergeIsComing, LinkIsComing, Linked
  <2> QED
    BY <2>4, <2>5, <2>6 DEF Links
<1>5. CASE t = s
  <2>1. ~Placed(s)
    BY <1>2, StoredRoom DEF Placed, CInv, IInv
  <2>2. ~Placed(s)'
    BY <1>2, <1>3, <2>1 DEF Placed
  <2>3. lobby'[s].phase = "idle" /\ ui'[s].here
    BY <1>1 DEF CInv, ClientTypes, TaskType, FreshUi, NoUi
  <2>4. Prepared(s)'
    BY <1>1, <1>5, <2>3 DEF Links, Prepared, Linked
  <2> QED
    BY <1>5, <2>2, <2>4 DEF Links, WrongIsComing, Held, InLastMerge, Attends
<1> QED
  BY <1>4, <1>5

LEMMA StepRecords ==
  ASSUME RInv, room' = room, sock' = sock, alarm' = alarm
  PROVE  RInv'
  BY DEF RInv, MergeKnown, IInv, Shape, MembershipCoherent, AttachmentCoherent, SessionsAgree, StampsMutual, Placed

-----------------------------------------------------------------------------
(* ... as a lobby task takes a step *)

LEMMA RestLinks ==
  ASSUME ServerIdle, NEW t \in Socket, Links(t), Rests(t), cmds'[t] = cmds[t],
         machine'[t] = machine[t], peripheral' = peripheral
  PROVE  Links(t)'
<1>1. room' = room /\ sock' = sock
  BY DEF ServerIdle
<1>2. Prepared(t)'
  BY DEF Links, Prepared, Working, Linked, Rests
<1>3. Attends(t)' = Attends(t) /\ InLastMerge(t)' = InLastMerge(t)
  BY <1>1 DEF InLastMerge, Attends, Placed, Working, Rests
<1>4. WrongIsComing(t)'
  BY <1>1, <1>3 DEF Links, WrongIsComing, Wrong, Rests
<1>5. Held(t)'
  BY <1>3 DEF Links, Held, MergeIsComing, LinkIsComing, Linked, Rests
<1> QED
  BY <1>2, <1>4, <1>5 DEF Links

\* What a step of the client must keep.
LEMMA OwnLinks ==
  ASSUME ServerIdle, NEW s \in Socket, Links(s), peripheral' = peripheral, Prepared(s)',
         Working(s)' => Working(s),
         drain'[s] # "over" => drain[s] # "over",
         Working(s)' /\ (Wrong(down[s], s) \/ Wrong(lobby[s].stray, s)) =>
           Wrong(down'[s], s) \/ Wrong(lobby'[s].stray, s),
         Working(s)' /\ drain'[s] # "over" /\ peripheral[s] /\
           (MergeIsComing(s) \/ LinkIsComing(s)) => MergeIsComing(s)' \/ LinkIsComing(s)'
  PROVE  Links(s)'
<1>1. room' = room /\ sock' = sock
  BY DEF ServerIdle
<1>2. (Attends(s)' => Attends(s)) /\ (InLastMerge(s)' => InLastMerge(s))
  BY <1>1 DEF InLastMerge, Attends, Placed
<1>3. Wrong(down[s], s)' = Wrong(down'[s], s)
      /\ Wrong(lobby[s].stray, s)' = Wrong(lobby'[s].stray, s)
  BY DEF Wrong
<1>4. WrongIsComing(s)'
  BY <1>1, <1>2, <1>3 DEF Links, WrongIsComing, Attends
<1>5. Held(s)'
  BY <1>2 DEF Links, Held, InLastMerge, Attends
<1> QED
  BY <1>4, <1>5 DEF Links

\* The lobby moves the task on and leaves drain, panel and machine alone.
LEMMA TaskLinks ==
  ASSUME ServerIdle, NEW s \in Socket, Links(s), Working(s),
         peripheral' = peripheral, drain' = drain, ui' = ui, machine' = machine,
         lobby'[s].phase # "off",
         Working(s)' =>
           /\ Has(cmds[s], "leave") => Has(cmds'[s], "leave")
           /\ Wrong(down[s], s) \/ Wrong(lobby[s].stray, s) =>
                Wrong(down'[s], s) \/ Wrong(lobby'[s].stray, s)
           /\ drain[s] # "over" /\ peripheral[s] /\ (MergeIsComing(s) \/ LinkIsComing(s)) =>
                MergeIsComing(s)' \/ LinkIsComing(s)'
  PROVE  Links(s)'
<1>1. Prepared(s)'
  BY DEF Links, Prepared, Linked, Has
<1> QED
  BY <1>1, OwnLinks

\* An event other than a start does not get between the drain and the link.
LEMMA EmitLinks ==
  ASSUME CInv, NEW s \in Socket, drain[s] # "over", LinkIsComing(s),
         drain' = drain, machine' = machine,
         \/ events' = events
         \/ \E x \in EventMessage : x.type # "starting" /\ events' = Emit(s, x)
  PROVE  LinkIsComing(s)'
<1>1. events[s] \in Seq(EventMessage)
  BY DEF CInv, ClientTypes
<1>2. CASE events' = events
  BY <1>2 DEF LinkIsComing, Linked
<1>3. ASSUME NEW x \in EventMessage, x.type # "starting", events' = Emit(s, x)
      PROVE  LinkIsComing(s)'
  <2>1. events'[s] = Append(events[s], x)
    BY <1>3, EmittedRoster
  <2>2. Joins(events[s]) => Joins(Append(events[s], x))
    BY <1>1, <1>3, JoinsStep
  <2>3. ~Starts(events[s]) => ~Starts(Append(events[s], x))
    BY <1>1, <1>3, HasStep
  <2> QED
    BY <2>1, <2>2, <2>3 DEF LinkIsComing, Linked
<1> QED
  BY <1>2, <1>3

\* What hearing a message does to a task that goes on: a merge starts, or
\* nothing of the sort.
LEMMA HeardIs ==
  ASSUME CInv, NEW s \in Socket, NEW m \in NewsMessage, NEW after \in TaskType, NEW rest,
         Hears(s, m, after, rest), Working(s)'
  PROVE  /\ up' = up /\ cmds' = cmds /\ down'[s] = rest /\ lobby'[s].stray = after.stray
         /\ m.type = "roster" => m.wireless = peripheral[s]
         /\ m.type = "starting" => lobby'[s].phase = "mesh"
         /\ m.type # "starting" => lobby'[s] = after
         /\ m.type # "starting" =>
              \/ events' = events
              \/ \E x \in EventMessage : x.type # "starting" /\ events' = Emit(s, x)
<1> DEFINE begun == [after EXCEPT !.phase = "mesh", !.roms = m.roms, !.lost = FALSE,
                                  !.dance = FALSE]
<1>1. ~Dies(s, "fatal") /\ ~Dies(s, "kicked")
  BY DEF Dies, Returns, Task, Working, CInv, ClientTypes
<1>2. lobby \in [Socket -> TaskType] /\ down \in [Socket -> Seq(NewsMessage)]
  BY DEF CInv, ClientTypes
<1>3. begun.phase = "mesh" /\ begun.stray = after.stray
  BY DEF TaskType
<1>4. /\ up' = up /\ cmds' = cmds /\ down' = [down EXCEPT ![s] = rest]
      /\ lobby' = [lobby EXCEPT ![s] = after] \/ lobby' = [lobby EXCEPT ![s] = begun]
      /\ m.type = "roster" => m.wireless = peripheral[s]
      /\ m.type = "starting" => lobby' = [lobby EXCEPT ![s] = begun]
      /\ m.type # "starting" => lobby' = [lobby EXCEPT ![s] = after]
  BY <1>1 DEF Hears
<1>5. m.type # "starting" =>
        \/ events' = events
        \/ m.type = "roster" /\ events' = Emit(s, m)
        \/ events' = Emit(s, Plain("joined")) \/ events' = Emit(s, Plain("error"))
  BY <1>1 DEF Hears
<1>6. /\ Plain("joined") \in EventMessage /\ Plain("joined").type # "starting"
      /\ Plain("error") \in EventMessage /\ Plain("error").type # "starting"
  BY PlainMessages DEF Plain
<1>7. m.type = "roster" => m \in EventMessage
  BY Forwarded
<1> HIDE DEF begun
<1> QED
  BY <1>2, <1>3, <1>4, <1>5, <1>6, <1>7

LEMMA HearingLinks ==
  ASSUME CInv, ServerIdle, NEW s \in Socket, Links(s), lobby[s].phase = "idle",
         NEW m \in NewsMessage, NEW after \in TaskType, NEW rest,
         after.phase = "idle", after.dance = lobby[s].dance, Hears(s, m, after, rest),
         drain' = drain, ui' = ui, machine' = machine, peripheral' = peripheral,
         ~(m.type = "roster" /\ m.wireless # peripheral[s]) =>
           (Wrong(down[s], s) \/ Wrong(lobby[s].stray, s) =>
              Wrong(rest, s) \/ Wrong(after.stray, s)),
         m.type # "starting" =>
           (Starts(down[s]) \/ Starts(lobby[s].stray) => Starts(rest) \/ Starts(after.stray))
  PROVE  Links(s)'
<1>1. Working(s)
  BY DEF Working
<1>2. lobby'[s].phase # "off"
  <2>1. Working(s)' => lobby'[s].phase # "off"
    BY DEF Working
  <2>2. CASE ~Working(s)'
    <3>1. Dies(s, "fatal") \/ Dies(s, "kicked") => lobby'[s].phase = "done"
      BY DEF Dies, Returns, Task, CInv, ClientTypes
    <3>2. lobby \in [Socket -> TaskType]
      BY DEF CInv, ClientTypes
    <3> DEFINE begun == [after EXCEPT !.phase = "mesh", !.roms = m.roms, !.lost = FALSE,
                                      !.dance = FALSE]
    <3>3. begun.phase = "mesh"
      BY DEF TaskType
    <3>4. \/ Dies(s, "fatal") \/ Dies(s, "kicked")
          \/ lobby' = [lobby EXCEPT ![s] = after] \/ lobby' = [lobby EXCEPT ![s] = begun]
      BY DEF Hears
    <3> HIDE DEF begun
    <3> QED
      BY <3>1, <3>2, <3>3, <3>4
  <2> QED
    BY <2>1, <2>2
<1>3. ASSUME Working(s)'
      PROVE  /\ cmds' = cmds
             /\ Wrong(down[s], s) \/ Wrong(lobby[s].stray, s) =>
                  Wrong(down'[s], s) \/ Wrong(lobby'[s].stray, s)
             /\ drain[s] # "over" /\ (MergeIsComing(s) \/ LinkIsComing(s)) =>
                  MergeIsComing(s)' \/ LinkIsComing(s)'
  <2>1. /\ up' = up /\ cmds' = cmds /\ down'[s] = rest /\ lobby'[s].stray = after.stray
        /\ m.type = "roster" => m.wireless = peripheral[s]
        /\ m.type = "starting" => lobby'[s].phase = "mesh"
        /\ m.type # "starting" => lobby'[s] = after
        /\ m.type # "starting" =>
             \/ events' = events
             \/ \E x \in EventMessage : x.type # "starting" /\ events' = Emit(s, x)
    BY <1>3, HeardIs
  <2>2. CASE m.type = "starting"
    BY <2>1, <2>2 DEF MergeIsComing
  <2>3. CASE m.type # "starting"
    <3>1. MergeIsComing(s) => MergeIsComing(s)'
      BY <2>1, <2>3 DEF MergeIsComing
    <3>2. drain[s] # "over" /\ LinkIsComing(s) => LinkIsComing(s)'
      BY <2>1, <2>3, EmitLinks
    <3> QED
      BY <2>1, <3>1, <3>2
  <2> QED
    BY <2>1, <2>2, <2>3
<1> QED
  BY <1>1, <1>2, <1>3, TaskLinks

\* What is behind the head of a queue that is about neither.
LEMMA WrongStep ==
  ASSUME NEW S, NEW q \in Seq(S), NEW s
  PROVE  /\ \A x \in S : Wrong(Append(q, x), s) <=>
              Wrong(q, s) \/ (x.type = "roster" /\ x.wireless # peripheral[s])
         /\ q # <<>> => (Wrong(q, s) <=> \/ Wrong(Tail(q), s)
                                         \/ Head(q).type = "roster"
                                            /\ Head(q).wireless # peripheral[s])
<1>1. /\ \A x \in S : ToSet(Append(q, x)) = ToSet(q) \cup {x}
      /\ q # <<>> => ToSet(q) = ToSet(Tail(q)) \cup {Head(q)}
  BY SetOfQueue
<1> QED
  BY <1>1 DEF Wrong

LEMMA ReplayLinks ==
  ASSUME CInv, NEW s \in Socket, Links(s), ReplayStray(s)
  PROVE  Links(s)'
<1> DEFINE st == lobby[s].stray
           m  == Head(st)
           after == [lobby[s] EXCEPT !.stray = Tail(@)]
<1>1. /\ ServerIdle /\ st # <<>> /\ lobby[s].phase = "idle" /\ Hears(s, m, after, down[s])
      /\ drain' = drain /\ ui' = ui /\ machine' = machine /\ peripheral' = peripheral
  BY DEF ReplayStray, player, budget
<1>2. lobby[s] \in TaskType /\ st \in Seq(StrayMessage)
  BY TypedQueues DEF CInv, ClientTypes, TaskType
<1>3. m \in StrayMessage /\ Tail(st) \in Seq(StrayMessage)
  BY <1>1, <1>2, HeadTailProperties
<1>4. /\ m \in NewsMessage /\ after \in TaskType /\ after.stray = Tail(st)
      /\ after.phase = "idle" /\ after.dance = lobby[s].dance
  BY <1>1, <1>2, <1>3, Forwarded DEF TaskType
<1>5. /\ Wrong(st, s) <=> Wrong(Tail(st), s) \/ (m.type = "roster" /\ m.wireless # peripheral[s])
      /\ Starts(st) <=> Starts(Tail(st)) \/ m.type = "starting"
  BY <1>1, <1>2, WrongStep, HasStep
<1> HIDE DEF after
<1>6. /\ ~(m.type = "roster" /\ m.wireless # peripheral[s]) =>
           (Wrong(down[s], s) \/ Wrong(st, s) => Wrong(down[s], s) \/ Wrong(after.stray, s))
      /\ m.type # "starting" =>
           (Starts(down[s]) \/ Starts(st) => Starts(down[s]) \/ Starts(after.stray))
  BY <1>4, <1>5
<1> HIDE DEF m
<1> QED
  BY <1>1, <1>4, <1>6, HearingLinks

LEMMA HearServerLinks ==
  ASSUME CInv, NEW s \in Socket, Links(s), HearServer(s)
  PROVE  Links(s)'
<1> DEFINE d == down[s]
           m == Head(d)
           rest == Tail(d)
<1>1. /\ ServerIdle /\ d # <<>> /\ lobby[s].phase = "idle" /\ Hears(s, m, lobby[s], rest)
      /\ drain' = drain /\ ui' = ui /\ machine' = machine /\ peripheral' = peripheral
  BY DEF HearServer, Selecting, player, budget
<1>2. lobby[s] \in TaskType /\ d \in Seq(NewsMessage)
  BY TypedQueues DEF CInv, ClientTypes
<1>3. m \in NewsMessage
  BY <1>1, <1>2, HeadTailProperties
<1>4. /\ Wrong(d, s) <=> Wrong(rest, s) \/ (m.type = "roster" /\ m.wireless # peripheral[s])
      /\ Starts(d) <=> Starts(rest) \/ m.type = "starting"
  BY <1>1, <1>2, WrongStep, HasStep
<1> HIDE DEF m, rest
<1>5. /\ ~(m.type = "roster" /\ m.wireless # peripheral[s]) =>
           (Wrong(d, s) \/ Wrong(lobby[s].stray, s) =>
              Wrong(rest, s) \/ Wrong(lobby[s].stray, s))
      /\ m.type # "starting" =>
           (Starts(d) \/ Starts(lobby[s].stray) => Starts(rest) \/ Starts(lobby[s].stray))
  BY <1>4
<1> QED
  BY <1>1, <1>2, <1>3, <1>5, HearingLinks

\* A mesh build sets rosters aside; while it is at work, a merge is coming.
LEMMA MeshLinks ==
  ASSUME CInv, NEW s \in Socket, Links(s), HearInMesh(s)
  PROVE  Links(s)'
<1> DEFINE d == down[s]
           m == Head(d)
           st == lobby[s].stray
<1>1. /\ ServerIdle /\ d # <<>> /\ lobby[s].phase = "mesh" /\ cmds' = cmds
      /\ drain' = drain /\ ui' = ui /\ machine' = machine /\ peripheral' = peripheral
  BY DEF HearInMesh, player, budget
<1>2. d \in Seq(NewsMessage) /\ st \in Seq(StrayMessage)
  BY TypedQueues DEF QueuesOf, Queues
<1>3. m \in NewsMessage
  BY <1>1, <1>2, HeadTailProperties
<1>4. /\ lobby'[s].stray = IF m.type \in {"roster", "starting", "error"}
                           THEN Append(st, m) ELSE st
      /\ down'[s] = Tail(d) /\ lobby'[s].phase = "mesh"
  BY <1>1 DEF HearInMesh, Take, CInv, ClientTypes, TaskType
<1>5. Wrong(d, s) <=> Wrong(Tail(d), s) \/ (m.type = "roster" /\ m.wireless # peripheral[s])
  BY <1>1, <1>2, WrongStep
<1>6. m.type \in {"roster", "starting", "error"} =>
        (Wrong(Append(st, m), s) <=>
           Wrong(st, s) \/ (m.type = "roster" /\ m.wireless # peripheral[s]))
  BY <1>2, <1>3, Forwarded, WrongStep
<1> HIDE DEF m, d, st
<1>7. Wrong(d, s) \/ Wrong(st, s) => Wrong(down'[s], s) \/ Wrong(lobby'[s].stray, s)
  BY <1>4, <1>5, <1>6
<1>8. Working(s) /\ lobby'[s].phase # "off" /\ MergeIsComing(s)'
  BY <1>1, <1>4 DEF Working, MergeIsComing
<1> QED
  BY <1>1, <1>7, <1>8, TaskLinks DEF d, st

LEMMA OverLinks ==
  ASSUME CInv, ServerIdle, NEW s \in Socket, Links(s), Working(s), NEW bye, Returns(s, bye),
         drain' = drain, ui' = ui, machine' = machine, peripheral' = peripheral
  PROVE  Links(s)'
<1>1. lobby'[s].phase = "done"
  BY DEF Returns, Task, CInv, ClientTypes
<1>2. ~Working(s)' /\ lobby'[s].phase # "off"
  BY <1>1 DEF Working
<1> QED
  BY <1>2, TaskLinks

\* A drop is read by a task that arms the dance, or that is in a merge anyway;
\* a farewell by one that quits.
LEMMA CommandsLink ==
  ASSUME CInv, NEW s \in Socket, Links(s), ReadCommand(s)
  PROVE  Links(s)'
<1> DEFINE q == cmds[s]
           m == Head(q)
           phase == lobby[s].phase
<1>1. /\ ServerIdle /\ drain' = drain /\ ui' = ui /\ machine' = machine
      /\ peripheral' = peripheral /\ q # <<>> /\ phase \in {"boot", "pause", "idle"}
  BY DEF ReadCommand, Selecting, player, budget
<1>2. \/ Quits(s)
      \/ /\ events' = events /\ down' = down /\ cmds' = Take(cmds, s) /\ m.type # "leave"
         /\ \/ lobby' = [lobby EXCEPT ![s] = lobby[s]] /\ m.type # "dropped"
            \/ /\ phase = "boot"
               /\ lobby' = [lobby EXCEPT ![s] = [lobby[s] EXCEPT !.phase = "exchange"]]
            \/ lobby' = [lobby EXCEPT ![s] = [lobby[s] EXCEPT !.dance =
                                                @ \/ (phase = "idle" /\ peripheral[s])]]
         /\ \/ m.type \in Asks /\ up' = [up EXCEPT ![s] = @ \o <<m>>]
            \/ up' = [up EXCEPT ![s] = @ \o <<>>]
  BY DEF ReadCommand, Quits, Asks
<1>3. q \in Seq(CommandMessage) /\ up[s] \in Seq(UpMessage) /\ Working(s)
  BY <1>1, TypedQueues DEF Working
<1>4. /\ m \in CommandMessage
      /\ \A kind : Has(q, kind) <=> Has(Tail(q), kind) \/ m.type = kind
  BY <1>1, <1>3, HeadTailProperties, HasStep
<1> HIDE DEF m
<1>5. CASE Quits(s)
  BY <1>1, <1>3, <1>5, OverLinks DEF Quits
<1>6. CASE ~Quits(s)
  <2>1. cmds'[s] = Tail(q) /\ (Has(q, "leave") => Has(cmds'[s], "leave"))
    <3>1. cmds' = Take(cmds, s) /\ m.type # "leave"
      BY <1>2, <1>6
    <3>2. cmds'[s] = Tail(q)
      BY <3>1 DEF Take, CInv, ClientTypes
    <3> QED
      BY <1>4, <3>1, <3>2
  <2>2. /\ lobby'[s].stray = lobby[s].stray
        /\ lobby'[s].phase = phase \/ (phase = "boot" /\ lobby'[s].phase = "exchange")
        /\ lobby[s].dance => lobby'[s].dance
        /\ m.type = "dropped" /\ phase = "idle" /\ peripheral[s] => lobby'[s].dance
    BY <1>2, <1>6 DEF CInv, ClientTypes, TaskType
  <2>3. \E out \in Seq(UpMessage) : up'[s] = up[s] \o out
    <3>1. m.type \in Asks => <<m>> \in Seq(UpMessage)
      BY <1>4, Forwarded, OneType
    <3>2. <<>> \in Seq(UpMessage)
      BY EmptySeq
    <3> QED
      BY <1>2, <1>6, <3>1, <3>2 DEF CInv, ClientTypes
  <2>4. Withdraws(up[s]) => Withdraws(up'[s])
    BY <1>3, <2>3, HasStep
  <2>5. peripheral[s] /\ MergeIsComing(s) => MergeIsComing(s)'
    <3>1. Has(q, "dropped") => Has(cmds'[s], "dropped") \/ m.type = "dropped"
      BY <1>4, <2>1
    <3> HIDE DEF q
    <3> QED
      BY <1>1, <1>2, <1>6, <2>1, <2>2, <2>4, <3>1 DEF MergeIsComing, q
  <2>6. LinkIsComing(s) => LinkIsComing(s)'
    BY <1>1, <1>2, <1>6 DEF LinkIsComing, Linked
  <2>7. lobby'[s].phase # "off" /\ down' = down
    BY <1>1, <1>2, <1>6, <2>2
  <2> HIDE DEF q
  <2> QED
    BY <1>1, <1>3, <2>1, <2>2, <2>5, <2>6, <2>7, TaskLinks DEF q
<1> QED
  BY <1>5, <1>6

\* A pause or a dance that is over withdraws; an exchange that is done tells
\* the drain of the link; a wireless merge that fails pauses.
LEMMA TimersLink ==
  ASSUME CInv, NEW s \in Socket, Links(s),
         DanceStep(s) \/ PauseEnds(s) \/ MeshUp(s) \/ ExchangeDone(s)
  PROVE  Links(s)'
<1>1. /\ ServerIdle /\ down' = down /\ drain' = drain /\ cmds' = cmds /\ ui' = ui
      /\ machine' = machine /\ peripheral' = peripheral /\ Working(s)
      /\ \/ lobby' = [lobby EXCEPT ![s].dance = FALSE]
         \/ lobby' = [lobby EXCEPT ![s].phase = "idle"]
         \/ lobby' = [lobby EXCEPT ![s].phase = "boot"]
  BY DEF DanceStep, PauseEnds, MeshUp, ExchangeDone, wire, Selecting, Working, player, budget
<1>2. lobby'[s].stray = lobby[s].stray /\ lobby'[s].phase # "off"
      /\ (lobby' = [lobby EXCEPT ![s].phase = "boot"] => lobby'[s].phase = "boot")
  <2>1. lobby \in [Socket -> TaskType]
    BY DEF CInv, ClientTypes
  <2> QED
    BY <1>1, <2>1 DEF TaskType, Working
<1>3. CASE DanceStep(s) \/ PauseEnds(s)
  <2> DEFINE x == Ready(FALSE)
  <2>1. up \in [Socket -> Seq(UpMessage)] /\ x \in UpMessage /\ x.type = "setReady" /\ ~x.ready
    BY PlainMessages DEF CInv, ClientTypes, Ready
  <2>2. up'[s] = Append(up[s], x)
    BY <1>3, <2>1 DEF Post, DanceStep, PauseEnds
  <2> HIDE DEF x
  <2>3. up[s] \in Seq(UpMessage)
    BY <2>1
  <2>4. Withdraws(up'[s])
    BY <2>1, <2>2, <2>3, HasStep
  <2>5. MergeIsComing(s)'
    BY <2>4 DEF MergeIsComing
  <2> QED
    BY <1>1, <1>2, <2>5, TaskLinks
<1>4. CASE MeshUp(s)
  <2>1. MergeIsComing(s)'
    BY <1>2, <1>4 DEF MergeIsComing, MeshUp
  <2> QED
    BY <1>1, <1>2, <2>1, TaskLinks
<1>5. CASE ExchangeDone(s)
  <2>1. drain[s] # "over" => LinkIsComing(s)'
    <3> DEFINE x == [type |-> "sessionReady", roms |-> lobby[s].roms]
    <3>1. x \in EventMessage /\ x.type = "sessionReady" /\ events' = Emit(s, x)
      BY <1>5 DEF ExchangeDone, EventMessage, CInv, ClientTypes, TaskType
    <3> HIDE DEF x
    <3>2. drain[s] # "over" => events'[s] = Append(events[s], x)
      BY <3>1, EmittedRoster
    <3>3. events[s] \in Seq(EventMessage)
      BY DEF CInv, ClientTypes
    <3>4. Joins(Append(events[s], x))
      BY <3>1, <3>3, JoinsStep
    <3> QED
      BY <3>2, <3>4 DEF LinkIsComing
  <2> QED
    BY <1>1, <1>2, <2>1, TaskLinks
<1> QED
  BY <1>3, <1>4, <1>5

LEMMA FailuresLink ==
  ASSUME CInv, NEW s \in Socket, Links(s), MergeFails(s)
  PROVE  Links(s)'
<1>1. /\ ServerIdle /\ drain' = drain /\ ui' = ui /\ machine' = machine
      /\ peripheral' = peripheral /\ Working(s)
      /\ \/ Dies(s, "kicked")
         \/ /\ UNCHANGED wire /\ cmds' = cmds
            /\ lobby' = [lobby EXCEPT ![s].phase = IF peripheral[s] THEN "pause" ELSE "idle"]
  BY DEF MergeFails, Working, player
<1>2. CASE Dies(s, "kicked")
  BY <1>1, <1>2, OverLinks DEF Dies
<1>3. CASE /\ UNCHANGED wire /\ cmds' = cmds
           /\ lobby' = [lobby EXCEPT ![s].phase = IF peripheral[s] THEN "pause" ELSE "idle"]
  <2>1. /\ lobby'[s].stray = lobby[s].stray /\ down' = down
        /\ lobby'[s].phase # "off" /\ (peripheral[s] => lobby'[s].phase = "pause")
    BY <1>3 DEF CInv, ClientTypes, TaskType, wire
  <2>2. peripheral[s] => MergeIsComing(s)'
    BY <2>1 DEF MergeIsComing
  <2> QED
    BY <1>1, <1>3, <2>1, <2>2, TaskLinks
<1> QED
  BY <1>1, <1>2, <1>3

LEMMA LobbyLinks ==
  ASSUME CInv, NEW s \in Socket, Links(s), LobbyTask(s)
  PROVE  Links(s)' /\ machine' = machine /\ peripheral' = peripheral
<1>1. machine' = machine /\ peripheral' = peripheral
  BY DEF LobbyTask, ReplayStray, HearServer, ReadCommand, HearInMesh, DanceStep, PauseEnds,
         MeshUp, MergeFails, ExchangeDone, player, budget
<1>2. CASE ReplayStray(s) \/ HearServer(s)
  BY <1>1, <1>2, ReplayLinks, HearServerLinks
<1>3. CASE ReadCommand(s)
  BY <1>1, <1>3, CommandsLink
<1>4. CASE HearInMesh(s)
  BY <1>1, <1>4, MeshLinks
<1>5. CASE DanceStep(s) \/ PauseEnds(s) \/ MeshUp(s) \/ ExchangeDone(s)
  BY <1>1, <1>5, TimersLink
<1>6. CASE MergeFails(s)
  BY <1>1, <1>6, FailuresLink
<1> QED
  BY <1>1, <1>2, <1>3, <1>4, <1>5, <1>6 DEF LobbyTask

-----------------------------------------------------------------------------
(* ... its drain or its user does *)

\* What is commanded is behind what was, and a task at work will read it.
LEMMA CommandHas ==
  ASSUME CInv, NEW s \in Socket, NEW x \in CommandMessage, cmds' = Command(s, x)
  PROVE  /\ \A kind : Has(cmds[s], kind) => Has(cmds'[s], kind)
         /\ Working(s) => Has(cmds'[s], x.type)
<1>1. cmds \in [Socket -> Seq(CommandMessage)] /\ cmds[s] \in Seq(CommandMessage)
  BY DEF CInv, ClientTypes
<1>2. \A kind : Has(Append(cmds[s], x), kind) <=> Has(cmds[s], kind) \/ x.type = kind
  BY <1>1, HasStep
<1>3. CASE lobby[s].phase = "done"
  BY <1>3 DEF Command, Working
<1>4. CASE lobby[s].phase # "done"
  <2>1. cmds'[s] = Append(cmds[s], x)
    BY <1>1, <1>4 DEF Command, Post
  <2> QED
    BY <1>2, <2>1
<1> QED
  BY <1>3, <1>4

\* A task that is told to leave, while no drain is left or a merge is on, will.
LEMMA LeaveHas ==
  ASSUME CInv, NEW s \in Socket, cmds' = Command(s, Plain("leave"))
  PROVE  Working(s) => Has(cmds'[s], "leave")
<1> DEFINE x == Plain("leave")
<1>1. x \in CommandMessage /\ x.type = "leave" /\ cmds' = Command(s, x)
  BY PlainMessages DEF Plain
<1> HIDE DEF x
<1> QED
  BY <1>1, CommandHas

\* What a step of the drain, the machine or the user must keep.
LEMMA ApartLinks ==
  ASSUME CInv, NEW s \in Socket, Links(s), Commands(s),
         ServerIdle, UNCHANGED <<up, down, lobby, peripheral>>,
         drain'[s] # "over" => drain[s] # "over",
         machine'[s].unplug => Linked(s)',
         Working(s) /\ ~ui'[s].here => ~ui[s].here \/ Has(cmds'[s], "leave"),
         drain'[s] # "over" /\ Working(s) /\ LinkIsComing(s) =>
           LinkIsComing(s)' \/ Has(cmds'[s], "dropped") \/ Has(cmds'[s], "leave")
  PROVE  Links(s)'
<1>1. \A kind : Has(cmds[s], kind) => Has(cmds'[s], kind)
  BY CommandHas DEF Commands
<1>2. Working(s)' = Working(s) /\ Has(cmds[s], "leave")' = Has(cmds'[s], "leave")
      /\ Has(cmds[s], "dropped")' = Has(cmds'[s], "dropped")
  BY DEF Working, Has
<1>3. Prepared(s)'
  BY <1>1, <1>2 DEF Links, Prepared
<1>4. MergeIsComing(s) => MergeIsComing(s)'
  BY <1>1, <1>2 DEF MergeIsComing
<1>5. Has(cmds'[s], "dropped") \/ Has(cmds'[s], "leave") => MergeIsComing(s)'
  BY <1>2 DEF MergeIsComing
<1> QED
  BY <1>2, <1>3, <1>4, <1>5, OwnLinks

\* Whatever lets a machine go leaves its link as it is.
LEMMA RunningKeeps ==
  ASSUME NEW m \in MachineType
  PROVE  /\ Running(m).kind = m.kind /\ Running(m).unplug = m.unplug
         /\ [m EXCEPT !.paused = TRUE].kind = m.kind
         /\ [m EXCEPT !.paused = TRUE].unplug = m.unplug
         /\ [m EXCEPT !.unplug = TRUE].kind = m.kind
         /\ [m EXCEPT !.unplug = @ \/ m.kind = "netplay"].kind = m.kind
         /\ [m EXCEPT !.unplug = @ \/ m.kind = "netplay"].unplug =>
              m.unplug \/ m.kind = "netplay"
         /\ [m EXCEPT !.kind = "netplay", !.paused = FALSE].kind = "netplay"
         /\ [m EXCEPT !.kind = "netplay", !.paused = FALSE].unplug = m.unplug
  BY DEF Running, MachineType

LEMMA FailedLinks ==
  ASSUME CInv, NEW s \in Socket, Links(s), NEW m \in MachineType, LinkFailed(s, m),
         m.unplug => m.kind = "netplay",
         ServerIdle, UNCHANGED <<up, down, lobby, peripheral>>
  PROVE  Links(s)'
<1>1. /\ machine'[s] = Running(m) /\ drain'[s] = "over"
      /\ cmds' = Command(s, Plain("leave"))
  BY DEF LinkFailed, CInv, ClientTypes
<1>2. machine'[s].unplug => Linked(s)'
  BY <1>1, RunningKeeps DEF Linked
<1>3. Commands(s)
  BY <1>1, PlainMessages DEF Commands
<1> QED
  BY <1>1, <1>2, <1>3, LeaveHas, ApartLinks

\* The drain goes on with its next event, its panel open or left as it was.
LEMMA GoingOnLinks ==
  ASSUME CInv, NEW s \in Socket, Links(s), Commands(s),
         ServerIdle, UNCHANGED <<up, down, lobby, peripheral>>, drain[s] # "over",
         ui'[s].here = ui[s].here, machine'[s].unplug => Linked(s)',
         LinkIsComing(s) => LinkIsComing(s)'
  PROVE  Links(s)'
  BY ApartLinks

\* An event of no merge is taken.
LEMMA TakenKeeps ==
  ASSUME CInv, NEW s \in Socket, drain[s] = "loop", drain' = drain, events[s] # <<>>,
         Head(events[s]).type # "sessionReady", events' = Take(events, s), LinkIsComing(s),
         machine'[s].kind = machine[s].kind, machine'[s].unplug = machine[s].unplug
  PROVE  LinkIsComing(s)'
<1>1. events[s] \in Seq(EventMessage) /\ events'[s] = Tail(events[s])
  BY DEF Take, CInv, ClientTypes
<1>2. /\ Joins(events[s]) => Joins(Tail(events[s]))
      /\ ~Starts(events[s]) => ~Starts(Tail(events[s]))
  BY <1>1, JoinsStep, HasStep
<1> QED
  BY <1>1, <1>2 DEF LinkIsComing, Linked

LEMMA PanelHere ==
  ASSUME CInv, NEW s \in Socket, NEW b, NEW ps, NEW k,
         \/ Panel(s, [ui[s] EXCEPT !.code = b])
         \/ Panel(s, [ui[s] EXCEPT !.starting = b])
         \/ Panel(s, [ui[s] EXCEPT !.players = ps, !.me = k])
         \/ ui' = ui
         \/ ui' = [ui EXCEPT ![s].starting = b]
  PROVE  ui'[s].here = ui[s].here
<1>1. ui \in [Socket -> PanelType] /\ ui[s] \in PanelType
  BY DEF CInv, ClientTypes
<1>2. \A x \in {[ui[s] EXCEPT !.code = b], [ui[s] EXCEPT !.starting = b],
                [ui[s] EXCEPT !.players = ps, !.me = k]} : x.here = ui[s].here
  BY <1>1 DEF PanelType
<1>3. \/ ui' = ui
      \/ \E x \in {[ui[s] EXCEPT !.code = b], [ui[s] EXCEPT !.starting = b],
                   [ui[s] EXCEPT !.players = ps, !.me = k]} :
           ui' = [ui EXCEPT ![s] = x]
  BY DEF Panel
<1> QED
  BY <1>1, <1>2, <1>3

\* A start leaves the link to the session that is ready behind it.
LEMMA StartingLinks ==
  ASSUME CInv, NEW s \in Socket, Links(s), DrainStarting(s)
  PROVE  Links(s)'
<1>1. /\ drain[s] = "loop" /\ events[s] # <<>> /\ Head(events[s]).type = "starting"
      /\ ServerIdle /\ UNCHANGED <<up, down, lobby, peripheral>> /\ machine[s] \in MachineType
  BY DrainFacts DEF DrainStarting
<1>2. Commands(s)
  BY DrainCommands DEF DrainTask
<1>3. machine[s].unplug => machine[s].kind = "netplay"
  BY DEF Links, Prepared, Linked
<1>4. CASE LinkFailed(s, machine[s])
  BY <1>1, <1>3, <1>4, FailedLinks
<1>5. CASE ~LinkFailed(s, machine[s])
  <2>1. /\ Panel(s, [ui[s] EXCEPT !.starting = TRUE]) /\ events' = Take(events, s)
        /\ \/ /\ machine[s].kind = "netplay"
              /\ machine' = [machine EXCEPT ![s] = [machine[s] EXCEPT !.unplug = TRUE]]
           \/ machine' = [machine EXCEPT ![s] = [machine[s] EXCEPT !.paused = TRUE]]
    BY <1>5 DEF DrainStarting
  <2>2. machine'[s].unplug => Linked(s)'
    <3>1. \A n : machine' = [machine EXCEPT ![s] = n] => machine'[s] = n
      BY DEF CInv, ClientTypes
    <3> QED
      BY <1>1, <1>3, <2>1, <3>1, RunningKeeps DEF Linked
  <2>3. ui'[s].here = ui[s].here
    BY <2>1, PanelHere
  <2>4. LinkIsComing(s) => LinkIsComing(s)'
    <3>1. events[s] \in Seq(EventMessage) /\ events'[s] = Tail(events[s])
      BY <2>1 DEF Take, CInv, ClientTypes
    <3>2. Starts(events[s]) /\ (Joins(events[s]) => Joins(Tail(events[s])))
      BY <1>1, <3>1, JoinsStep, HasStep
    <3> QED
      BY <3>1, <3>2 DEF LinkIsComing
  <2> QED
    BY <1>1, <1>2, <2>2, <2>3, <2>4, GoingOnLinks
<1> QED
  BY <1>4, <1>5

LEMMA SessionReadyLinks ==
  ASSUME CInv, NEW s \in Socket, Links(s), DrainSessionReady(s)
  PROVE  Links(s)'
<1>1. /\ drain[s] = "loop" /\ events[s] # <<>>
      /\ ServerIdle /\ UNCHANGED <<up, down, lobby, peripheral>> /\ machine[s] \in MachineType
  BY DrainFacts DEF DrainSessionReady
<1>2. Commands(s)
  BY DrainCommands DEF DrainTask
<1>3. machine[s].unplug => machine[s].kind = "netplay"
  BY DEF Links, Prepared, Linked
<1>4. CASE LinkFailed(s, machine[s])
  BY <1>1, <1>3, <1>4, FailedLinks
<1>5. CASE ~LinkFailed(s, machine[s])
  <2>1. /\ drain' = [drain EXCEPT ![s] = "reading"] /\ events' = Take(events, s)
        /\ ui' = ui /\ machine' = machine
    BY <1>5 DEF DrainSessionReady, player
  <2>2. LinkIsComing(s) => LinkIsComing(s)'
    <3>1. /\ events[s] \in Seq(EventMessage) /\ events'[s] = Tail(events[s])
          /\ drain'[s] = "reading"
      BY <2>1 DEF Take, CInv, ClientTypes
    <3>2. /\ Joins(events[s]) => Joins(Tail(events[s])) \/ ~Starts(Tail(events[s]))
          /\ ~Starts(events[s]) => ~Starts(Tail(events[s]))
      BY <1>1, <3>1, JoinsStep, HasStep
    <3> QED
      BY <3>1, <3>2 DEF LinkIsComing
  <2>3. machine'[s].unplug => Linked(s)'
    BY <1>3, <2>1 DEF Linked
  <2> QED
    BY <1>1, <1>2, <2>1, <2>2, <2>3, GoingOnLinks
<1> QED
  BY <1>4, <1>5

\* Nobody pulls the link of a machine that has none: what is plugged in stays.
LEMMA PluggingLinks ==
  ASSUME CInv, NEW s \in Socket, Links(s), PlugIn(s) \/ Unplugged(s)
  PROVE  Links(s)'
<1>1. /\ drain[s] \in {"reading", "unplugging"} /\ ServerIdle
      /\ UNCHANGED <<up, down, lobby, peripheral>> /\ machine[s] \in MachineType
  BY DEF PlugIn, Unplugged, wire, CInv, ClientTypes
<1>2. Commands(s)
  BY DrainCommands DEF DrainTask
<1>3. machine[s].unplug => machine[s].kind = "netplay"
  BY DEF Links, Prepared, Linked
<1>4. CASE LinkFailed(s, machine[s])
  BY <1>1, <1>3, <1>4, FailedLinks
<1>5. CASE ~LinkFailed(s, machine[s]) /\ PlugIn(s)
  <2> DEFINE n == [machine[s] EXCEPT !.kind = "netplay", !.paused = FALSE]
  <2>1. /\ machine[s].kind = "local" /\ machine' = [machine EXCEPT ![s] = n]
        /\ Panel(s, [ui[s] EXCEPT !.starting = FALSE])
        /\ drain' = [drain EXCEPT ![s] = "loop"] /\ events' = events
    BY <1>5 DEF PlugIn
  <2>2. n.kind = "netplay" /\ ~n.unplug
    <3>1. n.kind = "netplay" /\ n.unplug = machine[s].unplug
      BY <1>1, RunningKeeps
    <3>2. machine[s].unplug = FALSE
      BY <1>1, <1>3, <2>1 DEF MachineType
    <3> QED
      BY <3>1, <3>2
  <2> HIDE DEF n
  <2>3. machine'[s] = n /\ drain'[s] = "loop"
    BY <2>1 DEF CInv, ClientTypes
  <2>4. LinkIsComing(s) => LinkIsComing(s)'
    BY <2>1, <2>2, <2>3 DEF LinkIsComing, Linked
  <2> QED
    BY <1>1, <1>2, <2>1, <2>2, <2>3, <2>4, PanelHere, GoingOnLinks DEF Linked
<1>6. CASE ~LinkFailed(s, machine[s]) /\ Unplugged(s)
  <2> DEFINE n == [machine[s] EXCEPT !.paused = TRUE]
  <2>1. /\ machine' = [machine EXCEPT ![s] = n] /\ ui' = ui /\ events' = events
        /\ drain[s] = "unplugging"
    BY <1>6 DEF Unplugged, Capture
  <2>2. n.kind = machine[s].kind /\ n.unplug = machine[s].unplug
    BY <1>1, RunningKeeps
  <2> HIDE DEF n
  <2>3. machine'[s] = n
    BY <2>1 DEF CInv, ClientTypes
  <2>4. LinkIsComing(s) => LinkIsComing(s)'
    BY <2>1 DEF LinkIsComing
  <2>5. machine'[s].unplug => Linked(s)'
    BY <1>3, <2>2, <2>3 DEF Linked
  <2> QED
    BY <1>1, <1>2, <2>1, <2>4, <2>5, GoingOnLinks
<1> QED
  BY <1>4, <1>5, <1>6

\* What the drain takes of the room, and of merges that failed.
LEMMA TakingLinks ==
  ASSUME CInv, NEW s \in Socket, Links(s),
         DrainJoined(s) \/ DrainRoster(s) \/ DrainError(s) \/ DrainMergeFailed(s)
  PROVE  Links(s)'
<1>1. PICK type \in {"joined", "roster", "error", "mergeFailed"} : Drains(s, type)
  BY DEF DrainJoined, DrainRoster, DrainError, DrainMergeFailed
<1>2. /\ drain[s] = "loop" /\ events[s] # <<>> /\ Head(events[s]).type # "sessionReady"
      /\ ServerIdle /\ UNCHANGED <<up, down, lobby, peripheral>> /\ machine[s] \in MachineType
  BY <1>1, DrainFacts
<1>3. /\ drain' = drain /\ events' = Take(events, s)
      /\ machine' = machine \/ machine' = [machine EXCEPT ![s] = Running(machine[s])]
      /\ \/ Panel(s, [ui[s] EXCEPT !.code = TRUE])
         \/ Panel(s, [ui[s] EXCEPT !.starting = FALSE])
         \/ \E ps, k : Panel(s, [ui[s] EXCEPT !.players = ps, !.me = k])
         \/ ui' = ui
  BY DEF DrainJoined, DrainRoster, DrainError, DrainMergeFailed, player
<1>4. machine'[s].kind = machine[s].kind /\ machine'[s].unplug = machine[s].unplug
  <2>1. \A n : machine' = [machine EXCEPT ![s] = n] => machine'[s] = n
    BY DEF CInv, ClientTypes
  <2> QED
    BY <1>2, <1>3, <2>1, RunningKeeps
<1>5. ui'[s].here = ui[s].here
  BY <1>3, PanelHere
<1>6. Commands(s)
  BY DrainCommands DEF DrainTask
<1>7. machine'[s].unplug => Linked(s)'
  BY <1>4 DEF Links, Prepared, Linked
<1>8. LinkIsComing(s) => LinkIsComing(s)'
  BY <1>2, <1>3, <1>4, TakenKeeps
<1> QED
  BY <1>2, <1>5, <1>6, <1>7, <1>8, GoingOnLinks

LEMMA DrainLinks ==
  ASSUME CInv, NEW s \in Socket, Links(s), DrainTask(s)
  PROVE  /\ Links(s)' /\ peripheral' = peripheral
         /\ \A t \in Socket \ {s} : machine'[t] = machine[t]
<1>1. peripheral' = peripheral /\ ServerIdle /\ UNCHANGED <<up, down, lobby>>
  BY DEF DrainTask, DrainJoined, DrainRoster, DrainError, DrainStarting, DrainMergeFailed,
         DrainEnd, DrainSessionReady, DrainEpilogue, Unplugged, PlugIn, Drains, DrainOnly,
         budget, wire
<1>2. machine' = machine \/ \E n : machine' = [machine EXCEPT ![s] = n]
  BY DEF DrainTask, DrainJoined, DrainRoster, DrainError, DrainStarting, DrainMergeFailed,
         DrainEnd, DrainSessionReady, DrainEpilogue, Unplugged, PlugIn, Capture, LinkFailed,
         player
<1>3. \A t \in Socket \ {s} : machine'[t] = machine[t]
  BY <1>2 DEF CInv, ClientTypes
<1>4. CASE DrainJoined(s) \/ DrainRoster(s) \/ DrainError(s) \/ DrainMergeFailed(s)
  BY <1>1, <1>3, <1>4, TakingLinks
<1>5. CASE DrainStarting(s)
  BY <1>1, <1>3, <1>5, StartingLinks
<1>6. CASE DrainSessionReady(s)
  BY <1>1, <1>3, <1>6, SessionReadyLinks
<1>7. CASE Unplugged(s) \/ PlugIn(s)
  BY <1>1, <1>3, <1>7, PluggingLinks
<1>8. CASE DrainEnd(s)
  <2> DEFINE n == [machine[s] EXCEPT !.unplug = @ \/ machine[s].kind = "netplay"]
  <2>1. machine[s] \in MachineType /\ (machine[s].unplug => machine[s].kind = "netplay")
    BY DEF Links, Prepared, Linked, CInv, ClientTypes
  <2>2. n \in MachineType /\ (n.unplug => n.kind = "netplay")
    BY <2>1 DEF MachineType
  <2>3. LinkFailed(s, machine[s]) \/ LinkFailed(s, n)
    BY <1>8 DEF DrainEnd
  <2> HIDE DEF n
  <2> QED
    BY <1>1, <1>3, <2>1, <2>2, <2>3, FailedLinks
<1>9. CASE DrainEpilogue(s)
  <2>1. /\ machine'[s] = Running(machine[s]) /\ machine[s] \in MachineType
        /\ drain'[s] = "over" /\ ~Working(s) /\ cmds' = cmds
    BY <1>9 DEF DrainEpilogue, Working, CInv, ClientTypes
  <2>2. machine'[s].unplug => Linked(s)'
    BY <2>1, RunningKeeps DEF Links, Prepared, Linked
  <2> QED
    BY <1>1, <1>3, <2>1, <2>2, ApartLinks DEF Commands
<1> QED
  BY <1>4, <1>5, <1>6, <1>7, <1>8, <1>9 DEF DrainTask

\* A wireless link that dies of a peer is told to the lobby, unless the lobby
\* has been told to leave; whoever leaves or quits tells it so.
LEMMA UserLinks ==
  ASSUME CInv, NEW s \in Socket, Links(s),
         \/ PumpUnplugs(s) \/ PeerGone(s) \/ LaunchGame(s) \/ LinkUp(s)
         \/ EjectPlayer(s) \/ LeaveRoom(s) \/ QuitGame(s)
  PROVE  /\ Links(s)' /\ peripheral' = peripheral
         /\ \A t \in Socket \ {s} : machine'[t] = machine[t]
<1>1. /\ ServerIdle /\ UNCHANGED <<up, down, lobby, peripheral>>
      /\ drain' = drain /\ events' = events
  BY DEF PumpUnplugs, PeerGone, LaunchGame, LinkUp, EjectPlayer, LeaveRoom, QuitGame,
         MachineOnly, wire
<1>2. Commands(s)
  BY UserCommands
<1>3. machine' = machine \/ \E n : machine' = [machine EXCEPT ![s] = n]
  BY DEF PumpUnplugs, PeerGone, LaunchGame, LinkUp, EjectPlayer, LeaveRoom, QuitGame, player
<1>4. \A t \in Socket \ {s} : machine'[t] = machine[t]
  BY <1>3 DEF CInv, ClientTypes
<1>5. /\ machine[s] \in MachineType /\ (machine[s].unplug => machine[s].kind = "netplay")
      /\ \A n : machine' = [machine EXCEPT ![s] = n] => machine'[s] = n
      /\ \A n : ui' = [ui EXCEPT ![s] = n] => ui'[s] = n
  BY DEF Links, Prepared, Linked, CInv, ClientTypes
<1>6. ASSUME ui'[s].here = ui[s].here, machine'[s].unplug => Linked(s)',
             /\ drain[s] = "loop" /\ Linked(s) /\ ~machine[s].unplug =>
                  (Linked(s)' /\ ~machine'[s].unplug)
      PROVE  Links(s)'
  <2>1. LinkIsComing(s) => LinkIsComing(s)'
    BY <1>1, <1>6 DEF LinkIsComing
  <2> QED
    BY <1>1, <1>2, <1>6, <2>1, ApartLinks
<1>7. CASE LinkUp(s) \/ EjectPlayer(s)
  <2>1. ui' = ui \/ ui' = [ui EXCEPT ![s].starting = TRUE]
    BY <1>7 DEF LinkUp, EjectPlayer, player
  <2>2. machine' = machine
    BY <1>7 DEF LinkUp, EjectPlayer, player
  <2> QED
    BY <1>1, <1>4, <1>5, <1>6, <2>1, <2>2, PanelHere DEF Linked
<1>8. CASE PumpUnplugs(s) \/ LaunchGame(s)
  <2>1. /\ ui' = ui /\ (machine[s].unplug \/ machine[s].kind = "none")
        /\ machine'[s] \in {Solo(machine[s].game), NoGame, Solo("other")}
    BY <1>5, <1>8 DEF PumpUnplugs, LaunchGame
  <2>2. ~machine'[s].unplug
    BY <2>1 DEF Solo, NoGame
  <2> QED
    BY <1>1, <1>4, <1>6, <2>1, <2>2 DEF Linked
<1>9. ASSUME ~machine'[s].unplug \/ Linked(s)',
             Working(s) => (Has(cmds'[s], "dropped") /\ ui'[s].here = ui[s].here)
                             \/ Has(cmds'[s], "leave")
      PROVE  Links(s)'
  BY <1>1, <1>2, <1>9, ApartLinks
<1>10. Working(s) /\ ~ui[s].here /\ cmds' = cmds => Has(cmds'[s], "leave")
  BY DEF Links, Prepared
<1>11. CASE PeerGone(s)
  <2> DEFINE x == Plain("dropped")
  <2>1. /\ ui' = ui /\ cmds' = IF ui[s].here THEN Command(s, x) ELSE cmds
        /\ \E b : machine' = [machine EXCEPT ![s] = [Solo(@.game) EXCEPT !.paused = b]]
    BY <1>11 DEF PeerGone
  <2>2. x \in CommandMessage /\ x.type = "dropped"
    BY PlainMessages DEF Plain
  <2>3. ~machine'[s].unplug
    BY <1>5, <2>1 DEF Solo
  <2> HIDE DEF x
  <2>4. Working(s) /\ ui[s].here => Has(cmds'[s], "dropped")
    BY <2>1, <2>2, CommandHas
  <2> QED
    BY <1>1, <1>4, <1>9, <1>10, <2>1, <2>3, <2>4
<1>12. CASE LeaveRoom(s) \/ QuitGame(s)
  <2>1. cmds' = Command(s, Plain("leave")) \/ (cmds' = cmds /\ ~ui[s].here)
    BY <1>12 DEF LeaveRoom, QuitGame
  <2>2. Working(s) => Has(cmds'[s], "leave")
    BY <1>10, <2>1, LeaveHas
  <2>3. \/ machine' = [machine EXCEPT ![s] = NoGame]
        \/ /\ machine[s].kind = "netplay"
           /\ machine' = [machine EXCEPT ![s] = [machine[s] EXCEPT !.unplug = TRUE]]
        \/ machine' = [machine EXCEPT ![s] = Running(machine[s])]
    BY <1>12 DEF LeaveRoom, QuitGame
  <2>4. machine'[s].unplug => Linked(s)'
    <3>1. CASE machine' = [machine EXCEPT ![s] = NoGame]
      BY <1>5, <3>1 DEF NoGame
    <3>2. CASE machine' = [machine EXCEPT ![s] = Running(machine[s])]
      BY <1>5, <3>2, RunningKeeps DEF Linked
    <3>3. CASE /\ machine[s].kind = "netplay"
               /\ machine' = [machine EXCEPT ![s] = [machine[s] EXCEPT !.unplug = TRUE]]
      BY <1>5, <3>3, RunningKeeps DEF Linked
    <3> QED
      BY <2>3, <3>1, <3>2, <3>3
  <2> QED
    BY <1>1, <1>4, <1>9, <2>2, <2>4
<1> QED
  BY <1>7, <1>8, <1>11, <1>12

LEMMA InitLink == ClientInit => LinkInv
<1> SUFFICES ASSUME ClientInit PROVE LinkInv
  OBVIOUS
<1>1. AssertInv /\ RInv
  BY InitAssert, InitRInv DEF ClientInit
<1>2. ASSUME NEW s \in Socket
      PROVE  /\ drain[s] = "over" /\ lobby[s].phase = "off" /\ ~machine[s].unplug
             /\ ~Working(s)
  BY DEF ClientInit, Task, Solo, Working
<1>3. \A s \in Socket : Links(s)
  BY <1>2 DEF Links, Prepared, WrongIsComing, Held, InLastMerge, Attends
<1> QED
  BY <1>1, <1>3 DEF LinkInv

LEMMA ServedRecords ==
  ASSUME CInv, RInv, [Next]_<<room, sock, alarm>>
  PROVE  RInv'
<1>1. CASE Next
  BY <1>1, StepRInv
<1>2. CASE UNCHANGED <<room, sock, alarm>>
  BY <1>2, StepRecords
<1> QED
  BY <1>1, <1>2

LEMMA StepLink == LinkInv /\ [ClientNext]_allVars => LinkInv'
<1> SUFFICES ASSUME LinkInv, [ClientNext]_allVars PROVE LinkInv'
  OBVIOUS
<1>1. CInv /\ RInv /\ AssertInv'
  BY StepAssert DEF LinkInv, AssertInv, MirrorInv
<1>2. RInv'
  BY <1>1, ClientsStepServer, ServedRecords
<1>3. SUFFICES ASSUME NEW t \in Socket, AssertsReady(t), Mirrored(t), Links(t)
               PROVE  Links(t)'
  BY <1>1, <1>2 DEF LinkInv, AssertInv, MirrorInv
<1>4. CASE UNCHANGED allVars
  <2>1. UNCHANGED <<room, sock, lobby, up, down, events, drain, cmds, ui, machine, peripheral>>
    BY <1>4 DEF allVars, serverVars, clientVars, wire, tasks, player, budget
  <2> QED
    BY <1>3, <2>1 DEF Links, Prepared, WrongIsComing, Wrong, Held, InLastMerge, Attends,
       MergeIsComing, LinkIsComing, Working, Placed, Linked
<1>5. CASE ClientNext
  <2>1. PICK s \in Socket :
          \/ ServerHandles(s) \/ Disconnect(s) \/ LobbyTask(s) \/ DrainTask(s)
          \/ PumpUnplugs(s) \/ PeerGone(s) \/ User(s)
    BY <1>5 DEF ClientNext
  <2>2. Mirrored(s) /\ AssertsReady(s) /\ Links(s)
    BY DEF LinkInv, AssertInv, MirrorInv
  <2>3. CASE ServerHandles(s)
    BY <1>1, <1>3, <2>3, HandlingLinks
  <2>4. CASE Disconnect(s)
    BY <1>1, <1>3, <2>4, BreakingLinks
  <2>5. ASSUME Links(s)', ServerIdle, t # s => Rests(t), t # s => cmds'[t] = cmds[t],
               t # s => machine'[t] = machine[t], peripheral' = peripheral
        PROVE  Links(t)'
    BY <1>3, <2>5, RestLinks
  <2>6. CASE LobbyTask(s)
    BY <1>1, <2>2, <2>5, <2>6, LobbyMirrors, LobbyAsserts, LobbyLinks
  <2>7. CASE DrainTask(s)
    <3>1. Apart(s) /\ (t # s => Rests(t)) /\ (t # s => cmds'[t] = cmds[t])
      BY <1>1, <2>2, <2>7, DrainMirrors, DrainAsserts, ApartRests
    <3> QED
      BY <1>1, <2>2, <2>5, <2>7, <3>1, DrainLinks DEF Apart
  <2>8. ASSUME \/ PumpUnplugs(s) \/ PeerGone(s) \/ LaunchGame(s) \/ LinkUp(s)
               \/ EjectPlayer(s) \/ LeaveRoom(s) \/ QuitGame(s)
        PROVE  Links(t)'
    <3>1. Apart(s) /\ (t # s => Rests(t)) /\ (t # s => cmds'[t] = cmds[t])
      BY <1>1, <2>2, <2>8, UserMirrors, UserAsserts, ApartRests
    <3> QED
      BY <1>1, <2>2, <2>5, <2>8, <3>1, UserLinks DEF Apart
  <2>9. CASE OpenRoom(s, Plain(IF s = Creator THEN "create" ELSE "join"))
    <3>1. PICK kind \in {"create", "join"} : OpenRoom(s, Plain(kind))
      BY <2>9
    <3> QED
      BY <1>1, <1>3, <3>1, OpeningLinks
  <2> QED
    BY <2>1, <2>3, <2>4, <2>6, <2>7, <2>8, <2>9 DEF User
<1> QED
  BY <1>4, <1>5

\* Nobody is left behind: however merges fail, sessions drop, members come and
\* go and connections break, when all is at rest each member of a wireless room
\* with company and everyone's consent, if its game still runs, is linked.
THEOREM NobodyEverLeftBehind == ClientSpec => []NobodyLeftBehind
<1>1. ClientSpec => []LinkInv
  BY InitLink, StepLink, PTL DEF ClientSpec
<1>2. LinkInv => NobodyLeftBehind
  BY LinksMeanNobodyLeft
<1> QED
  BY <1>1, <1>2, PTL

=============================================================================
