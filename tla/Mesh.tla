-------------------------------- MODULE Mesh --------------------------------
(***************************************************************************)
(* How a merge becomes a link: the full-mesh WebRTC bring-up of a room's   *)
(* members and the exchange of their boot payloads                         *)
(* (gbaroll/src/net/mesh.rs, webrtc.rs, with the phases of net/lobby.rs    *)
(* around them).                                                           *)
(*                                                                         *)
(* Every member hears Starting, builds one peer connection per other       *)
(* member and relays descriptions and candidates through the server.  A    *)
(* build reads the same websocket as the idle lobby does, and no signal    *)
(* says which merge it is of; merges are numbered here, but the code does  *)
(* not see the numbers.  A build that fails withdraws the member's ready   *)
(* bit after a pause; the others' bits stand, so the room merges again     *)
(* whatever the others are doing.                                          *)
(*                                                                         *)
(* Membership only shrinks here: a departure clears all ready bits, and a  *)
(* member that builds does not report again, so no merge of other members  *)
(* begins before every build of this one is over (module Rooms).  The room *)
(* is wireless; in a cable room the host's button takes the place of the   *)
(* retry.                                                                  *)
(*                                                                         *)
(* The transport is external: two connections are joined when each has the *)
(* other's description installed and one has a candidate of the other.     *)
(***************************************************************************)
EXTENDS Integers, Sequences, FiniteSets

CONSTANTS
  Members,    \* how many members the room has
  Trickling,  \* members whose descriptions go out before their candidates
  MaxMerges,  \* bound: merges
  Upsets,     \* what may go wrong: an edge, for no reason, or a player leaves
  MaxUpsets   \* bound: how often it does

ASSUME MeshAssumption ==
  /\ Members \in Nat \ {0, 1} /\ Trickling \subseteq 1 .. Members
  /\ MaxMerges \in Nat \ {0} /\ MaxUpsets \in Nat
  /\ Upsets \subseteq {"edge", "leave"}

VARIABLES
  merges,   \* how often the server has broadcast Starting
  asks,     \* members that withdrew and asked again since the last Starting
  inbox,    \* what the server has sent each member and it has not read
  phase,    \* where each member's lobby task is
  merge,    \* the newest merge it has begun to build
  stray,    \* Startings a build has set aside
  edge,     \* edge[p][q]: p's connection to q
  mail,     \* mail[p][q]: what p has yet to read on the control channel from q
  departed, \* pending peers whose departure a build has heard of
  boots,    \* boots[p][q]: the payload of q that p has, by the merge it is for
  upsets    \* failures and departures so far

vars == <<merges, asks, inbox, phase, merge, stray, edge, mail, departed,
          boots, upsets>>

server == <<merges, asks>>
local  == <<merge, stray>>

-----------------------------------------------------------------------------
(* Data *)

Member   == 1 .. Members
Peers(p) == Member \ {p}
Build    == 0 .. MaxMerges   \* 0 is none

\* remote: the build of the peer whose description is installed.  near: one of
\* its candidates is, too.  kept: candidates queued until then.  told: the own
\* candidate went out.  open: the control channel opened and our hello is sent.
\* done: the handshake is through and the edge a PeerLink.
FreshEdge == [remote |-> 0, near |-> FALSE, kept |-> {}, told |-> FALSE,
              open |-> FALSE, done |-> FALSE]
Edge == [remote : Build, near : BOOLEAN, kept : SUBSET Build, told : BOOLEAN,
         open : BOOLEAN, done : BOOLEAN]

Starting           == [type |-> "starting"]
PeerLeft(q)        == [type |-> "peerLeft", from |-> q]
Signal(kind, q, m) == [type |-> kind, from |-> q, of |-> m]
SignalKind == {"offer", "answer", "candidate"}
Message == {Starting} \cup {PeerLeft(q) : q \in Member}
             \cup {Signal(k, q, m) : k \in SignalKind, q \in Member, m \in Build}

Hello   == [type |-> "hello", of |-> 0]
Boot(m) == [type |-> "boot", of |-> m]
End     == [type |-> "end", of |-> 0]
Control == {Hello, End} \cup {Boot(m) : m \in Build}

Phase == {"idle", "dance", "build", "boot", "exchange", "linked", "pause", "out"}

\* The lobby reads its socket like an idle one.
Idling(p) == phase[p] \in {"idle", "dance", "linked"}

\* The connections of the newest merge exist.
Holds(p) == phase[p] \in {"build", "boot", "exchange", "linked"}

Pending(p) == {q \in Peers(p) : ~edge[p][q].done}
\* What the server relays to a member that has left drops.
Heading(box, q, m) == IF phase[q] = "out" THEN box[q] ELSE Append(box[q], m)
Post(box, q, m)    == [box EXCEPT ![q] = Heading(box, q, m)]
Upset(kind)  == kind \in Upsets /\ upsets < MaxUpsets /\ upsets' = upsets + 1

-----------------------------------------------------------------------------
(* The transport *)

Paired(p, q) ==
  /\ Holds(p) /\ Holds(q)
  /\ edge[p][q].remote = merge[q] /\ edge[q][p].remote = merge[p]

Joined(p, q) ==
  Paired(p, q) /\ ({p, q} \subseteq Trickling => edge[p][q].near \/ edge[q][p].near)

\* What arrives where p sends x on its control channels to Q.
Sent(p, Q, x) == [q \in Member |->
                    IF q \in Q /\ Paired(p, q) THEN [mail[q] EXCEPT ![p] = Append(@, x)]
                    ELSE mail[q]]

\* p drops its connections: each peer that had the channel open finds it
\* closed, behind what was under way or instead of it.
Hangs(p, lossy) ==
  [q \in Member |->
     IF q = p THEN [r \in Member |-> <<>>]
     ELSE IF Paired(p, q) /\ edge[q][p].open
     THEN [mail[q] EXCEPT ![p] = Append(IF lossy THEN <<>> ELSE @, End)]
     ELSE mail[q]]

TornDown(p) == edge' = [edge EXCEPT ![p] = [q \in Member |-> FreshEdge]]
Forgets(p) ==
  /\ departed' = [departed EXCEPT ![p] = {}]
  /\ boots' = [boots EXCEPT ![p] = [q \in Member |-> 0]]

\* Every way out of the merge but the link.
Quits(p, after) ==
  /\ phase' = [phase EXCEPT ![p] = after]
  /\ \E lossy \in BOOLEAN : mail' = Hangs(p, lossy)
  /\ TornDown(p) /\ Forgets(p)

-----------------------------------------------------------------------------
(* The lobby around a merge *)

\* The room is ready once more and the server merges it.
Remerge ==
  /\ merges < MaxMerges /\ asks # {}
  /\ \A p \in Member : phase[p] # "out"
  /\ merges' = merges + 1 /\ asks' = {}
  /\ inbox' = [p \in Member |-> Append(inbox[p], Starting)]
  /\ UNCHANGED <<phase, local, edge, mail, departed, boots, upsets>>

\* Mutant: only the host offers.
OffersOfHost(p, q) == p = 1

\* Deterministic roles: the lower index offers.
Offers(p, q) == p < q

\* Starting, replayed from what a build set aside or read from the socket.  A
\* linked machine walks out of its link.  The offers go out before anything is
\* read.
Begin(p) ==
  LET fresh == stray[p] = 0
      read  == IF fresh THEN Tail(inbox[p]) ELSE inbox[p]
      m     == merge[p] + 1
  IN /\ Idling(p)
     /\ fresh => inbox[p] # <<>> /\ Head(inbox[p]) = Starting
     /\ phase' = [phase EXCEPT ![p] = "build"]
     /\ merge' = [merge EXCEPT ![p] = m]
     /\ stray' = IF fresh THEN stray ELSE [stray EXCEPT ![p] = @ - 1]
     /\ inbox' = [q \in Member |->
                    IF q = p THEN read
                    ELSE IF Offers(p, q) THEN Heading(inbox, q, Signal("offer", p, m))
                    ELSE inbox[q]]
     /\ \E lossy \in BOOLEAN : mail' = Hangs(p, lossy)
     /\ TornDown(p) /\ Forgets(p)
     /\ UNCHANGED <<server, upsets>>

\* Departures and leftover signals mean nothing to an idle lobby.
Overhear(p) ==
  /\ Idling(p) /\ stray[p] = 0
  /\ inbox[p] # <<>> /\ Head(inbox[p]) # Starting
  /\ inbox' = [inbox EXCEPT ![p] = Tail(@)]
  /\ UNCHANGED <<server, phase, local, edge, mail, departed, boots, upsets>>

\* MERGE_RETRY_MS after a failure, DROP_DANCE_MS after a dropped session: the
\* ready bit comes down and goes up again.
AskAgain(p) ==
  /\ phase[p] \in {"pause", "dance"}
  /\ phase[p] = "dance" => stray[p] = 0
  /\ phase' = [phase EXCEPT ![p] = "idle"]
  /\ asks' = asks \cup {p}
  /\ UNCHANGED <<merges, inbox, local, edge, mail, departed, boots, upsets>>

\* A session whose peer is gone ends.
Drop(p) ==
  /\ phase[p] = "linked" /\ \E q \in Peers(p) : ~Paired(p, q)
  /\ Quits(p, "dance")
  /\ UNCHANGED <<server, inbox, local, upsets>>

-----------------------------------------------------------------------------
(* build_inner: the select over socket, connection events, handshakes and  *)
(* the timer.  A branch runs to its end but for the calls into the         *)
(* browser, which only this connection answers.                            *)

Building(p) == phase[p] = "build"
Head1(p)    == Head(inbox[p])
Heard(p)    == [inbox EXCEPT ![p] = Tail(@)]
HasMail(p)  == Building(p) /\ inbox[p] # <<>>

\* Mutant: the next merge is not set aside.
HearStartingOnly(p) ==
  /\ HasMail(p) /\ Head1(p) = Starting
  /\ inbox' = Heard(p)
  /\ UNCHANGED <<server, phase, local, edge, mail, departed, boots, upsets>>

\* Set aside for the lobby.
HearStarting(p) ==
  /\ HasMail(p) /\ Head1(p) = Starting
  /\ stray' = [stray EXCEPT ![p] = @ + 1]
  /\ inbox' = Heard(p)
  /\ UNCHANGED <<server, phase, merge, edge, mail, departed, boots, upsets>>

\* Mutant: whoever leaves is waited for no longer, finished with us or not.
HearPeerLeftAny(p) ==
  /\ HasMail(p) /\ Head1(p).type = "peerLeft"
  /\ departed' = [departed EXCEPT ![p] = @ \cup {Head1(p).from}]
  /\ inbox' = Heard(p)
  /\ UNCHANGED <<server, phase, local, edge, mail, boots, upsets>>

HearPeerLeft(p) ==
  /\ HasMail(p) /\ Head1(p).type = "peerLeft"
  /\ departed' = [departed EXCEPT ![p] = @ \cup ({Head1(p).from} \cap Pending(p))]
  /\ inbox' = Heard(p)
  /\ UNCHANGED <<server, phase, local, edge, mail, boots, upsets>>

\* A description is in: the candidates queued for it are, too.
Described(e, m) == [e EXCEPT !.remote = m, !.near = m \in e.kept, !.kept = {}]

\* A signal of a peer whose edge is up means nothing any more.
HearStale(p) ==
  /\ HasMail(p) /\ Head1(p).type \in SignalKind
  /\ Head1(p).from \notin Pending(p)
  /\ inbox' = Heard(p)
  /\ UNCHANGED <<server, phase, local, edge, mail, departed, boots, upsets>>

Hears(p, kind) ==
  HasMail(p) /\ Head1(p).type = kind /\ Head1(p).from \in Pending(p)

\* An offer is installed and answered, also on a connection that has another
\* one already, as long as that one has not come up.
HearOffer(p) ==
  /\ Hears(p, "offer")
  /\ LET q == Head1(p).from IN
       /\ ~edge[p][q].open
       /\ edge' = [edge EXCEPT ![p][q] = Described(@, Head1(p).of)]
       /\ mail' = [mail EXCEPT ![p][q] = <<>>]
       /\ inbox' = Post(Heard(p), q, Signal("answer", p, merge[p]))
  /\ UNCHANGED <<server, phase, local, departed, boots, upsets>>

\* Only an offer that waits for its answer takes one.
HearAnswer(p) ==
  /\ Hears(p, "answer")
  /\ LET q == Head1(p).from IN
       /\ edge[p][q].remote = 0
       /\ edge' = [edge EXCEPT ![p][q] = Described(@, Head1(p).of)]
  /\ inbox' = Heard(p)
  /\ UNCHANGED <<server, phase, local, mail, departed, boots, upsets>>

\* A description that the connection refuses ends the build.
HearRefused(p) ==
  /\ \/ Hears(p, "offer") /\ edge[p][Head1(p).from].remote # 0
     \/ Hears(p, "answer") /\ edge[p][Head1(p).from].remote # 0
  /\ inbox' = Heard(p)
  /\ Quits(p, "pause")
  /\ UNCHANGED <<server, local, upsets>>

\* A candidate is queued until there is a description for it to go with.
Supplied(e, m) ==
  IF e.remote = 0 THEN [e EXCEPT !.kept = @ \cup {m}]
  ELSE [e EXCEPT !.near = @ \/ m = e.remote]

HearCandidate(p) ==
  /\ Hears(p, "candidate")
  /\ edge' = [edge EXCEPT ![p][Head1(p).from] = Supplied(@, Head1(p).of)]
  /\ inbox' = Heard(p)
  /\ UNCHANGED <<server, phase, local, mail, departed, boots, upsets>>

\* A connection with a local description finds candidates; what it finds when
\* the build is over is lost.
Gathers(p, q) ==
  {p, q} \subseteq Trickling /\ ~edge[p][q].told /\ (Offers(p, q) \/ edge[p][q].remote # 0)

Trickle(p, q) ==
  /\ Building(p) /\ Gathers(p, q)
  /\ edge' = [edge EXCEPT ![p][q].told = TRUE]
  /\ inbox' = Post(inbox, q, Signal("candidate", p, merge[p]))
  /\ UNCHANGED <<server, phase, local, mail, departed, boots, upsets>>

\* The control channel opens, and the hello goes out.
Open(p, q) ==
  /\ Building(p) /\ Joined(p, q) /\ ~edge[p][q].open
  /\ edge' = [edge EXCEPT ![p][q].open = TRUE]
  /\ mail' = Sent(p, {q}, Hello)
  /\ UNCHANGED <<server, inbox, phase, local, departed, boots, upsets>>

\* The peer's hello: the edge is up.  The build is over with the last one.
Handshake(p, q) ==
  /\ Building(p) /\ edge[p][q].open /\ ~edge[p][q].done
  /\ mail[p][q] # <<>> /\ Head(mail[p][q]) = Hello
  /\ mail' = [mail EXCEPT ![p][q] = Tail(@)]
  /\ edge' = [edge EXCEPT ![p][q].done = TRUE]
  /\ departed' = [departed EXCEPT ![p] = @ \ {q}]
  /\ phase' = IF Pending(p) = {q} THEN [phase EXCEPT ![p] = "boot"] ELSE phase
  /\ UNCHANGED <<server, inbox, local, boots, upsets>>

-----------------------------------------------------------------------------
(* exchange_boots *)

\* Mutant: the own slot keeps the first capture that was made.
CaptureKept(p) ==
  /\ phase[p] = "boot"
  /\ phase' = [phase EXCEPT ![p] = "exchange"]
  /\ mail' = Sent(p, Peers(p), Boot(merge[p]))
  /\ boots' = [boots EXCEPT ![p][p] = 1]
  /\ UNCHANGED <<server, inbox, local, edge, departed, upsets>>

\* The drain hands over the capture, which goes out to every peer, unless a
\* channel has closed by then.
Capture(p) ==
  /\ phase[p] = "boot"
  /\ phase' = [phase EXCEPT ![p] = "exchange"]
  /\ mail' = Sent(p, Peers(p), Boot(merge[p]))
  /\ boots' = [boots EXCEPT ![p][p] = merge[p]]
  /\ UNCHANGED <<server, inbox, local, edge, departed, upsets>>

Receive(p, q) ==
  /\ phase[p] = "exchange" /\ boots[p][q] = 0
  /\ mail[p][q] # <<>> /\ Head(mail[p][q]).type = "boot"
  /\ mail' = [mail EXCEPT ![p][q] = Tail(@)]
  /\ boots' = [boots EXCEPT ![p][q] = Head(mail[p][q]).of]
  /\ phase' = IF \A r \in Member \ {q} : boots[p][r] # 0
              THEN [phase EXCEPT ![p] = "linked"] ELSE phase
  /\ UNCHANGED <<server, inbox, local, edge, departed, upsets>>

-----------------------------------------------------------------------------
(* Failures *)

GivesUp(p) == Quits(p, "pause") /\ UNCHANGED <<server, inbox, local>>

\* A closed control channel where a hello or a payload is awaited.
ChannelClosed(p, q) ==
  /\ \/ Building(p) /\ edge[p][q].open /\ ~edge[p][q].done
     \/ phase[p] = "exchange" /\ boots[p][q] = 0
  /\ mail[p][q] # <<>> /\ Head(mail[p][q]) = End
  /\ GivesUp(p) /\ UNCHANGED upsets

\* The transport gives up on an edge whose other end is not there or speaks to
\* another build, be it an edge that was up.
Astray(p, q) ==
  LET m == edge[p][q].remote IN
  m # 0 /\ (m # merge[q] \/ ~Holds(q) \/ edge[q][p].remote \notin {0, merge[p]})

ConnectionFailed(p, q) ==
  /\ Building(p) /\ Astray(p, q)
  /\ GivesUp(p) /\ UNCHANGED upsets


\* DEPARTED_GRACE_MS after a pending peer's departure, which is long enough
\* for what is under way.
GraceEnds(p) ==
  /\ Building(p)
  /\ \E q \in departed[p] : mail[p][q] = <<>>
  /\ GivesUp(p) /\ UNCHANGED upsets

\* What takes no more than messages to arrive, or a capture, has happened.
Rests(p) ==
  /\ phase[p] # "boot"
  /\ phase[p] \in {"idle", "dance", "linked", "build"} => inbox[p] = <<>>
  /\ Idling(p) => stray[p] = 0
  /\ Building(p) => \A q \in Pending(p) :
       mail[p][q] = <<>> /\ ~Gathers(p, q) /\ (Joined(p, q) => edge[p][q].open)
  /\ phase[p] = "exchange" => \A q \in Peers(p) : mail[p][q] = <<>> \/ boots[p][q] # 0

\* MESH_TIMEOUT_MS and EXCHANGE_TIMEOUT_MS, a minute each: nothing will come
\* of waiting.
MeshTimeout(p) ==
  /\ Building(p) /\ departed[p] = {}
  /\ \A q \in Member : Rests(q)
  /\ GivesUp(p) /\ UNCHANGED upsets
ExchangeTimeout(p) ==
  /\ phase[p] = "exchange"
  /\ \A q \in Member : Rests(q)
  /\ GivesUp(p) /\ UNCHANGED upsets

\* An edge fails for reasons of the network.
EdgeFails(p) == Building(p) /\ GivesUp(p) /\ Upset("edge")

\* The player leaves, in whatever way: its connections close, and the server
\* tells the newest merge's peers.
Leave(p) ==
  /\ phase[p] # "out"
  /\ Upset("leave")
  /\ Quits(p, "out")
  /\ inbox' = [q \in Member |->
                 IF q = p THEN <<>> ELSE Heading(inbox, q, PeerLeft(p))]
  /\ UNCHANGED <<server, local>>

-----------------------------------------------------------------------------
(* The specification *)

Init ==
  /\ merges = 1 /\ asks = {}
  /\ inbox = [p \in Member |-> <<Starting>>]
  /\ phase = [p \in Member |-> "idle"]
  /\ merge = [p \in Member |-> 0] /\ stray = [p \in Member |-> 0]
  /\ edge = [p \in Member |-> [q \in Member |-> FreshEdge]]
  /\ mail = [p \in Member |-> [q \in Member |-> <<>>]]
  /\ departed = [p \in Member |-> {}]
  /\ boots = [p \in Member |-> [q \in Member |-> 0]]
  /\ upsets = 0

\* One turn of the select over socket, connections, handshakes and timer.
Reads(p) ==
  \/ HearStarting(p) \/ HearPeerLeft(p) \/ HearStale(p) \/ HearOffer(p)
  \/ HearAnswer(p) \/ HearRefused(p) \/ HearCandidate(p) \/ GraceEnds(p)
  \/ \E q \in Peers(p) : Trickle(p, q) \/ Open(p, q) \/ Handshake(p, q)

Exchanges(p) == Capture(p) \/ \E q \in Peers(p) : Receive(p, q)

Lobby(p) == Begin(p) \/ Overhear(p) \/ AskAgain(p) \/ Drop(p)

\* What the transport reports.
Breaks(p) == \E q \in Peers(p) : ChannelClosed(p, q) \/ ConnectionFailed(p, q)

Next ==
  \/ Remerge
  \/ \E p \in Member :
       \/ Lobby(p) \/ Reads(p) \/ Exchanges(p) \/ Breaks(p)
       \/ MeshTimeout(p) \/ ExchangeTimeout(p) \/ EdgeFails(p) \/ Leave(p)

Spec == Init /\ [][Next]_vars

\* Each player's one thread runs, and the transport reports what it finds.
\* Nothing rests on the two timeouts.
FairSpec ==
  Spec /\ \A p \in Member :
            WF_vars(Lobby(p) \/ Reads(p) \/ Exchanges(p) \/ Breaks(p))

-----------------------------------------------------------------------------
(* Properties *)

Starts(s) == {i \in 1 .. Len(s) : s[i] = Starting}

\* Records and queues keep their shapes; a build is of a merge the server has
\* broadcast, and what is set aside or unread makes up for the rest.
MeshTypeOK ==
  /\ merges \in 1 .. MaxMerges /\ asks \subseteq Member
  /\ inbox \in [Member -> Seq(Message)]
  /\ phase \in [Member -> Phase]
  /\ merge \in [Member -> Build] /\ stray \in [Member -> Build]
  /\ edge \in [Member -> [Member -> Edge]]
  /\ mail \in [Member -> [Member -> Seq(Control)]]
  /\ departed \in [Member -> SUBSET Member]
  /\ boots \in [Member -> [Member -> Build]]
  /\ upsets \in 0 .. MaxUpsets
  /\ \A p \in Member : phase[p] # "out" =>
       merge[p] + stray[p] + Cardinality(Starts(inbox[p])) = merges

\* Starting says "every peer builds the same link": two players that came out
\* of the exchange and are connected to each other hold the same payloads of
\* everybody, though one may have been in a build of the merge before when
\* they met.  Otherwise they would emulate different machines.
SameBoots ==
  \A p, q \in Member :
    phase[p] = "linked" /\ phase[q] = "linked" /\ (p # q => Paired(p, q)) =>
      boots[p] = boots[q]

\* "Left during connection setup" is held against nobody whose edge is up, and
\* against nobody who is still in the room: a peer that finished its mesh and
\* left does not fail the build that has its hello.
BlameIsFair ==
  \A p \in Member : departed[p] \subseteq {q \in Pending(p) : phase[q] = "out"}

\* A merge that nothing disturbs links everyone up: in whatever order the
\* members begin, read, answer, find candidates and open channels, nobody
\* waits for ever for somebody who waits, too.
UndisturbedLinks ==
  [](upsets = 0) => <>(\A p \in Member : phase[p] = "linked")


-----------------------------------------------------------------------------
(* What the sources say and a build does not keep *)

\* index.ts: "a peer still building that merge's mesh must stop waiting for the
\* departed edge".  No build sits out its minute waiting for a player who has
\* left.
TimeoutIsForTheLiving ==
  [][\A p \in Member : MeshTimeout(p) =>
       \A q \in Pending(p) : phase[q] # "out"]_vars
=============================================================================
