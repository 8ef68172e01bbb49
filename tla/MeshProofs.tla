----------------------------- MODULE MeshProofs -----------------------------
(***************************************************************************)
(* Proofs about connection setup, for any number of members, merges and    *)
(* upsets: departures are held against those that left, no merge is lost,  *)
(* and the players that come out of it hold the same payloads.             *)
(***************************************************************************)
EXTENDS Mesh, TLAPS, FiniteSetTheorems, FunctionTheorems

\* What a socket may carry: of departures, only those that took place.
Said == {Starting} \cup {PeerLeft(q) : q \in Member}
          \cup {Signal(k, q, m) : k \in SignalKind, q \in Member, m \in Nat}
Truth == {m \in Said : m.type = "peerLeft" => phase[m.from] = "out"}

Link == [remote : Nat, near : BOOLEAN, kept : SUBSET Nat, told : BOOLEAN,
         open : BOOLEAN, done : BOOLEAN]

Shapes ==
  /\ phase \in [Member -> Phase]
  /\ merge \in [Member -> Nat]
  /\ edge \in [Member -> [Member -> Link]]
  /\ departed \in [Member -> SUBSET Member]

Truthful == inbox \in [Member -> Seq(Truth)]

\* BlameIsFair holds because a departure is only ever announced of a player who
\* is out, and out is where a player stays.
BlameInv == Shapes /\ Truthful /\ BlameIsFair

-----------------------------------------------------------------------------
(* Facts about the data *)

LEMMA SeqGrows ==
  ASSUME NEW A, NEW B, A \subseteq B
  PROVE  Seq(A) \subseteq Seq(B)
OBVIOUS

LEMMA SeqExtends ==
  ASSUME NEW S, NEW s \in Seq(S), NEW x \in S
  PROVE  <<>> \in Seq(S) /\ Append(s, x) \in Seq(S)
OBVIOUS

LEMMA KindsApart ==
  /\ Starting.type = "starting"
  /\ \A q : PeerLeft(q).type = "peerLeft" /\ PeerLeft(q).from = q
  /\ \A k, q, m : /\ Signal(k, q, m).type = k
                  /\ Signal(k, q, m).from = q /\ Signal(k, q, m).of = m
BY DEF Starting, PeerLeft, Signal

LEMMA SignalsAreTrue ==
  ASSUME NEW k \in SignalKind, NEW q \in Member, NEW m \in Nat
  PROVE  Signal(k, q, m) \in Truth
<1>1. Signal(k, q, m) \in Said
  BY DEF Said
<1>2. k # "peerLeft"
  BY DEF SignalKind
<1> QED
  BY <1>1, <1>2, KindsApart DEF Truth

LEMMA FreshIsLink ==
  FreshEdge \in Link /\ ~FreshEdge.done
BY DEF FreshEdge, Link

LEMMA DescribedIsLink ==
  ASSUME NEW e \in Link, NEW m \in Nat
  PROVE  Described(e, m) \in Link /\ Described(e, m).done = e.done
<1> DEFINE n == m \in e.kept
<1>1. n \in BOOLEAN
  OBVIOUS
<1> HIDE DEF n
<1>2. [e EXCEPT !.remote = m, !.near = n, !.kept = {}] \in Link
  BY <1>1 DEF Link
<1>3. Described(e, m) = [e EXCEPT !.remote = m, !.near = n, !.kept = {}]
  BY DEF Described, n
<1>4. [e EXCEPT !.remote = m, !.near = n, !.kept = {}].done = e.done
  BY DEF Link
<1> QED
  BY <1>2, <1>3, <1>4

\* A signal names a player and a build.
LEMMA SignalHeard ==
  ASSUME NEW x \in Truth, x.type \in SignalKind
  PROVE  x.from \in Member /\ x.of \in Nat
<1>1. x \in Said
  BY DEF Truth
<1>2. x # Starting /\ \A q \in Member : x # PeerLeft(q)
  BY KindsApart DEF SignalKind
<1>3. PICK k \in SignalKind, q \in Member, m \in Nat : x = Signal(k, q, m)
  BY <1>1, <1>2 DEF Said
<1> QED
  BY <1>3, KindsApart

LEMMA DepartureHeard ==
  ASSUME NEW x \in Truth, x.type = "peerLeft"
  PROVE  x.from \in Member /\ phase[x.from] = "out"
<1>1. x \in Said /\ phase[x.from] = "out"
  BY DEF Truth
<1>2. x # Starting /\ \A k \in SignalKind, q \in Member, m \in Nat : x # Signal(k, q, m)
  BY KindsApart DEF SignalKind
<1>3. PICK q \in Member : x = PeerLeft(q)
  BY <1>1, <1>2 DEF Said
<1> QED
  BY <1>1, <1>3, KindsApart

\* As long as nobody returns, what was true of departures stays true.
LEMMA TruthStays ==
  ASSUME \A q \in Member : phase[q] = "out" => phase'[q] = "out"
  PROVE  Truth \subseteq Truth'
<1>1. ASSUME NEW x \in Truth
      PROVE  x \in Truth'
  <2>1. x \in Said
    BY DEF Truth
  <2>2. CASE x.type = "peerLeft"
    BY <2>1, <2>2, DepartureHeard DEF Truth, Said, Starting, PeerLeft, Signal, Member, SignalKind
  <2>3. CASE x.type # "peerLeft"
    BY <2>1, <2>3 DEF Truth, Said, Starting, PeerLeft, Signal, Member, SignalKind
  <2> QED
    BY <2>2, <2>3
<1> QED
  BY <1>1

-----------------------------------------------------------------------------
(* What the steps do to phases, edges and those held departed *)

OutIsOut == \A q \in Member : phase[q] = "out" => phase'[q] = "out"

LEMMA QuitsFair ==
  ASSUME Shapes, BlameIsFair, NEW p \in Member, NEW after \in Phase,
         Quits(p, after), phase[p] = "out" => after = "out", merge' = merge
  PROVE  Shapes' /\ BlameIsFair' /\ OutIsOut
<1>1. /\ phase' = [phase EXCEPT ![p] = after]
      /\ edge' = [edge EXCEPT ![p] = [q \in Member |-> FreshEdge]]
      /\ departed' = [departed EXCEPT ![p] = {}]
  BY DEF Quits, TornDown, Forgets
<1>2. Shapes' /\ OutIsOut
  BY <1>1, FreshIsLink DEF Shapes, OutIsOut
<1>3. ASSUME NEW r \in Member
      PROVE  departed'[r] \subseteq {q \in Pending(r)' : phase'[q] = "out"}
  <2>1. CASE r = p
    BY <1>1, <2>1 DEF Shapes
  <2>2. CASE r # p
    BY <1>1, <1>2, <2>2 DEF Shapes, OutIsOut, BlameIsFair, Pending, Peers
  <2> QED
    BY <2>1, <2>2
<1> QED
  BY <1>2, <1>3 DEF BlameIsFair

LEMMA BeginFair ==
  ASSUME Shapes, BlameIsFair, NEW p \in Member, Begin(p)
  PROVE  Shapes' /\ BlameIsFair' /\ OutIsOut
<1>1. /\ phase' = [phase EXCEPT ![p] = "build"] /\ phase[p] # "out"
      /\ merge' = [merge EXCEPT ![p] = merge[p] + 1]
      /\ edge' = [edge EXCEPT ![p] = [q \in Member |-> FreshEdge]]
      /\ departed' = [departed EXCEPT ![p] = {}]
  BY DEF Begin, TornDown, Forgets, Idling
<1>2. Shapes' /\ OutIsOut
  BY <1>1, FreshIsLink DEF Shapes, OutIsOut, Phase
<1>3. ASSUME NEW r \in Member
      PROVE  departed'[r] \subseteq {q \in Pending(r)' : phase'[q] = "out"}
  <2>1. CASE r = p
    BY <1>1, <2>1 DEF Shapes
  <2>2. CASE r # p
    BY <1>1, <1>2, <2>2 DEF Shapes, OutIsOut, BlameIsFair, Pending, Peers
  <2> QED
    BY <2>1, <2>2
<1> QED
  BY <1>2, <1>3 DEF BlameIsFair

\* Asking again, capturing and receiving move on a player who is not out.
LEMMA MovesFair ==
  ASSUME Shapes, BlameIsFair, NEW p \in Member, NEW to \in Phase,
         phase[p] # "out", phase' = [phase EXCEPT ![p] = to],
         UNCHANGED <<merge, edge, departed>>
  PROVE  Shapes' /\ BlameIsFair' /\ OutIsOut
BY DEF Shapes, BlameIsFair, OutIsOut, Pending

\* A signal, a candidate or an opened channel leaves an edge up or not up.
LEMMA EdgesFair ==
  ASSUME Shapes, BlameIsFair, NEW p \in Member, NEW q \in Member, NEW e \in Link,
         e.done = edge[p][q].done, edge' = [edge EXCEPT ![p][q] = e],
         UNCHANGED <<phase, merge, departed>>
  PROVE  Shapes' /\ BlameIsFair' /\ OutIsOut
<1>1. Shapes' /\ OutIsOut
  BY DEF Shapes, OutIsOut
<1>2. \A r, s \in Member : edge'[r][s].done = edge[r][s].done
  BY DEF Shapes
<1> QED
  BY <1>1, <1>2 DEF Shapes, BlameIsFair, Pending, Peers

LEMMA HandshakeFair ==
  ASSUME Shapes, BlameIsFair, NEW p \in Member, NEW q \in Peers(p), Handshake(p, q)
  PROVE  Shapes' /\ BlameIsFair' /\ OutIsOut
<1>1. /\ edge' = [edge EXCEPT ![p][q].done = TRUE]
      /\ departed' = [departed EXCEPT ![p] = departed[p] \ {q}]
      /\ merge' = merge /\ phase[p] = "build"
      /\ phase' = [phase EXCEPT ![p] = "boot"] \/ phase' = phase
  BY DEF Handshake, Building, local
<1>2. /\ \A r, s \in Member : r # p \/ s # q => edge'[r][s] = edge[r][s]
      /\ edge' \in [Member -> [Member -> Link]]
  <2>1. edge' = [edge EXCEPT ![p] = [edge[p] EXCEPT ![q] = [edge[p][q] EXCEPT !.done = TRUE]]]
    BY <1>1
  <2>2. q \in Member /\ edge[p][q] \in Link
    BY DEF Shapes, Peers
  <2>3. [edge[p][q] EXCEPT !.done = TRUE] \in Link
    BY <2>2 DEF Link
  <2> QED
    BY <2>1, <2>2, <2>3 DEF Shapes
<1>3. Shapes' /\ OutIsOut
  BY <1>1, <1>2 DEF Shapes, OutIsOut, Phase
<1>4. ASSUME NEW r \in Member
      PROVE  departed'[r] \subseteq {s \in Pending(r)' : phase'[s] = "out"}
  <2>1. departed'[r] \subseteq departed[r] /\ (r = p => q \notin departed'[r])
    BY <1>1 DEF Shapes
  <2>2. departed[r] \subseteq {s \in Peers(r) : ~edge[r][s].done /\ phase[s] = "out"}
    BY DEF BlameIsFair, Pending
  <2> QED
    BY <1>2, <1>3, <2>1, <2>2 DEF Pending, Peers, OutIsOut
<1> QED
  BY <1>3, <1>4 DEF BlameIsFair

LEMMA HearPeerLeftFair ==
  ASSUME BlameInv, NEW p \in Member, HearPeerLeft(p)
  PROVE  Shapes' /\ BlameIsFair' /\ OutIsOut
<1> DEFINE who == Head(inbox[p]).from
<1>1. /\ departed' = [departed EXCEPT ![p] = departed[p] \cup ({who} \cap Pending(p))]
      /\ UNCHANGED <<phase, merge, edge>>
      /\ inbox[p] # <<>> /\ Head(inbox[p]).type = "peerLeft"
  BY DEF HearPeerLeft, HasMail, Head1, local
<1>2. Head(inbox[p]) \in Truth
  BY <1>1 DEF BlameInv, Truthful
<1>3. phase[who] = "out"
  BY <1>1, <1>2, DepartureHeard
<1>4. Pending(p) \subseteq Member
  BY DEF Pending, Peers
<1> QED
  BY <1>1, <1>3, <1>4 DEF BlameInv, Shapes, BlameIsFair, OutIsOut, Pending

-----------------------------------------------------------------------------
(* What the steps do to the sockets *)

LEMMA HeardIsTrue ==
  ASSUME Truthful, OutIsOut, NEW p \in Member, inbox[p] # <<>>,
         inbox' \in {inbox, Heard(p)}
  PROVE  Truthful'
<1>1. Seq(Truth) \subseteq Seq(Truth')
  BY TruthStays, SeqGrows DEF OutIsOut
<1>2. Tail(inbox[p]) \in Seq(Truth)
  BY DEF Truthful
<1> QED
  BY <1>1, <1>2 DEF Truthful, Heard

LEMMA SameIsTrue ==
  ASSUME Truthful, OutIsOut, inbox' = inbox
  PROVE  Truthful'
<1>1. Seq(Truth) \subseteq Seq(Truth')
  BY TruthStays, SeqGrows DEF OutIsOut
<1> QED
  BY <1>1 DEF Truthful

\* What is true may be sent to anybody.
LEMMA PostIsTrue ==
  ASSUME OutIsOut, NEW box \in [Member -> Seq(Truth)], NEW q \in Member,
         NEW x \in Truth', inbox' = Post(box, q, x)
  PROVE  Truthful'
<1>1. Seq(Truth) \subseteq Seq(Truth')
  BY TruthStays, SeqGrows DEF OutIsOut
<1>2. box \in [Member -> Seq(Truth')]
  BY <1>1
<1>3. Heading(box, q, x) \in Seq(Truth')
  BY <1>2 DEF Heading
<1> QED
  BY <1>2, <1>3 DEF Truthful, Post

\* Starting, an offer or a departure goes to many at once.
LEMMA CastIsTrue ==
  ASSUME OutIsOut, NEW box \in [Member -> Seq(Truth)], NEW x \in Truth',
         inbox' = [q \in Member |-> inbox'[q]],
         \A q \in Member : inbox'[q] \in {<<>>, box[q], Append(box[q], x)}
  PROVE  Truthful'
<1>1. Seq(Truth) \subseteq Seq(Truth')
  BY TruthStays, SeqGrows DEF OutIsOut
<1>2. ASSUME NEW q \in Member
      PROVE  inbox'[q] \in Seq(Truth')
  <2>1. box[q] \in Seq(Truth')
    BY <1>1
  <2>2. <<>> \in Seq(Truth') /\ Append(box[q], x) \in Seq(Truth')
    BY <2>1, SeqExtends
  <2> QED
    BY <2>1, <2>2
<1> QED
  BY <1>2 DEF Truthful

LEMMA BeginIsTrue ==
  ASSUME Shapes, Truthful, OutIsOut, NEW p \in Member, Begin(p)
  PROVE  Truthful'
<1> DEFINE fresh == stray[p] = 0
           read  == IF fresh THEN Tail(inbox[p]) ELSE inbox[p]
           x     == Signal("offer", p, merge[p] + 1)
           box   == [inbox EXCEPT ![p] = read]
<1>1. /\ fresh => inbox[p] # <<>>
      /\ inbox' = [q \in Member |->
                    IF q = p THEN read
                    ELSE IF Offers(p, q) THEN Heading(inbox, q, x) ELSE inbox[q]]
  BY DEF Begin
<1>2. x \in Truth'
  <2>1. x \in Truth
    BY SignalsAreTrue DEF Shapes, SignalKind
  <2> QED
    BY <2>1, TruthStays DEF OutIsOut
<1>3. box \in [Member -> Seq(Truth)]
  BY <1>1 DEF Truthful
<1>4. \A q \in Member : inbox'[q] \in {<<>>, box[q], Append(box[q], x)}
  BY <1>1, Zenon DEF Truthful, Heading
<1>5. inbox' = [q \in Member |-> inbox'[q]]
  BY <1>1
<1> HIDE DEF box, x
<1> QED
  BY <1>2, <1>3, <1>4, <1>5, CastIsTrue

LEMMA LeaveIsTrue ==
  ASSUME Shapes, Truthful, OutIsOut, NEW p \in Member, Leave(p)
  PROVE  Truthful'
<1>1. /\ inbox' = [q \in Member |->
                     IF q = p THEN <<>> ELSE Heading(inbox, q, PeerLeft(p))]
      /\ phase' = [phase EXCEPT ![p] = "out"]
  BY DEF Leave, Quits
<1>2. PeerLeft(p) \in Truth'
  <2>1. PeerLeft(p) \in Said /\ phase'[p] = "out"
    BY <1>1 DEF Said, Shapes
  <2> QED
    BY <2>1, KindsApart DEF Truth, Said, Member, SignalKind, Starting, PeerLeft, Signal
<1>3. \A q \in Member : inbox'[q] \in {<<>>, inbox[q], Append(inbox[q], PeerLeft(p))}
  BY <1>1 DEF Heading
<1>4. inbox' = [q \in Member |-> inbox'[q]]
  BY <1>1
<1> QED
  BY <1>2, <1>3, <1>4, CastIsTrue DEF Truthful

LEMMA RemergeIsTrue ==
  ASSUME Truthful, OutIsOut, Remerge
  PROVE  Truthful'
<1>1. Starting \in Truth
  BY KindsApart DEF Truth, Said
<1>2. Starting \in Truth'
  BY <1>1, TruthStays DEF OutIsOut
<1>3. inbox' = [q \in Member |-> Append(inbox[q], Starting)]
  BY DEF Remerge
<1>4. \A q \in Member : inbox'[q] \in {<<>>, inbox[q], Append(inbox[q], Starting)}
  BY <1>3
<1>5. inbox' = [q \in Member |-> inbox'[q]]
  BY <1>3
<1> QED
  BY <1>2, <1>4, <1>5, CastIsTrue DEF Truthful

-----------------------------------------------------------------------------
(* The invariant *)

\* What an action has to show.
Blames == Shapes' /\ BlameIsFair' /\ OutIsOut /\ Truthful'

LEMMA LobbyBlames ==
  ASSUME BlameInv, NEW p \in Member, Lobby(p)
  PROVE  Blames
<1>1. CASE Begin(p)
  BY <1>1, BeginFair, BeginIsTrue DEF BlameInv, Blames
<1>2. CASE Overhear(p)
  <2>1. /\ inbox' = Heard(p) /\ inbox[p] # <<>>
        /\ UNCHANGED <<phase, merge, edge, departed>>
    BY <1>2 DEF Overhear, Heard, local
  <2>2. Shapes' /\ BlameIsFair' /\ OutIsOut
    BY <2>1 DEF BlameInv, Shapes, BlameIsFair, OutIsOut, Pending
  <2> QED
    BY <2>1, <2>2, HeardIsTrue DEF BlameInv, Blames
<1>3. CASE AskAgain(p)
  <2>1. /\ phase[p] # "out" /\ phase' = [phase EXCEPT ![p] = "idle"]
        /\ UNCHANGED <<inbox, merge, edge, departed>>
    BY <1>3 DEF AskAgain, local
  <2> QED
    BY <2>1, MovesFair, SameIsTrue DEF BlameInv, Blames, Phase
<1>4. CASE Drop(p)
  <2>1. phase[p] # "out" /\ Quits(p, "dance") /\ UNCHANGED <<inbox, merge>>
    BY <1>4 DEF Drop, local
  <2> QED
    BY <2>1, QuitsFair, SameIsTrue DEF BlameInv, Blames, Phase
<1> QED
  BY <1>1, <1>2, <1>3, <1>4 DEF Lobby

LEMMA FailureBlames ==
  ASSUME BlameInv, NEW p \in Member, phase[p] # "out", GivesUp(p)
  PROVE  Blames
<1>1. Quits(p, "pause") /\ UNCHANGED <<inbox, merge>>
  BY DEF GivesUp, local
<1> QED
  BY <1>1, QuitsFair, SameIsTrue DEF BlameInv, Blames, Phase

\* Signals that touch no edge, or one only.
LEMMA SignalBlames ==
  ASSUME BlameInv, NEW p \in Member,
         HearStarting(p) \/ HearStale(p) \/ HearAnswer(p) \/ HearCandidate(p) \/ HearRefused(p)
  PROVE  Blames
<1>1. inbox[p] # <<>> /\ inbox' = Heard(p) /\ phase[p] = "build" /\ merge' = merge
  BY DEF HearStarting, HearStale, HearAnswer, HearCandidate, HearRefused, Hears, HasMail,
         Building, local
<1>2. Shapes' /\ BlameIsFair' /\ OutIsOut
  <2>1. CASE HearStarting(p) \/ HearStale(p)
    <3>1. UNCHANGED <<phase, edge, departed>>
      BY <2>1 DEF HearStarting, HearStale
    <3> QED
      BY <1>1, <3>1 DEF BlameInv, Shapes, BlameIsFair, OutIsOut, Pending
  <2>2. CASE HearAnswer(p) \/ HearCandidate(p)
    <3> DEFINE q == Head(inbox[p]).from
               m == Head(inbox[p]).of
    <3>1. /\ Head(inbox[p]) \in Truth /\ Head(inbox[p]).type \in SignalKind
          /\ UNCHANGED <<phase, departed>>
      <4>1. inbox[p] \in Seq(Truth)
        BY DEF BlameInv, Truthful
      <4>2. Head(inbox[p]).type \in {"answer", "candidate"} /\ UNCHANGED <<phase, departed>>
        BY <2>2 DEF HearAnswer, HearCandidate, Hears, Head1
      <4> QED
        BY <1>1, <4>1, <4>2 DEF SignalKind
    <3>2. q \in Member /\ m \in Nat
      BY <3>1, SignalHeard
    <3>3. edge[p][q] \in Link
      BY <3>2 DEF BlameInv, Shapes
    <3>4. PICK f \in Link : f.done = edge[p][q].done /\ edge' = [edge EXCEPT ![p][q] = f]
      <4>1. CASE HearAnswer(p)
        <5>1. edge' = [edge EXCEPT ![p][q] = Described(edge[p][q], m)]
          BY <4>1 DEF HearAnswer, Head1
        <5>2. /\ Described(edge[p][q], m) \in Link
              /\ Described(edge[p][q], m).done = edge[p][q].done
          BY <3>2, <3>3, DescribedIsLink
        <5> QED
          BY <5>1, <5>2
      <4>2. CASE HearCandidate(p)
        <5>1. edge' = [edge EXCEPT ![p][q] = Supplied(edge[p][q], m)]
          BY <4>2 DEF HearCandidate, Head1
        <5>2. /\ Supplied(edge[p][q], m) \in Link
              /\ Supplied(edge[p][q], m).done = edge[p][q].done
          BY <3>2, <3>3 DEF Supplied, Link
        <5> QED
          BY <5>1, <5>2
      <4> QED
        BY <2>2, <4>1, <4>2
    <3> QED
      BY <1>1, <3>1, <3>2, <3>4, EdgesFair DEF BlameInv
  <2>3. CASE HearRefused(p)
    <3>1. Quits(p, "pause")
      BY <2>3 DEF HearRefused
    <3> QED
      BY <1>1, <3>1, QuitsFair DEF BlameInv, Phase
  <2> QED
    BY <2>1, <2>2, <2>3
<1> QED
  BY <1>1, <1>2, HeardIsTrue DEF BlameInv, Blames
LEMMA OfferBlames ==
  ASSUME BlameInv, NEW p \in Member, HearOffer(p)
  PROVE  Blames
<1> DEFINE q == Head(inbox[p]).from
           m == Head(inbox[p]).of
           x == Signal("answer", p, merge[p])
<1>1. /\ inbox[p] # <<>> /\ Head(inbox[p]).type = "offer"
      /\ edge' = [edge EXCEPT ![p][q] = Described(edge[p][q], m)]
      /\ inbox' = Post(Heard(p), q, x)
      /\ UNCHANGED <<phase, merge, departed>>
  BY DEF HearOffer, Hears, HasMail, Head1, local
<1>2. inbox \in [Member -> Seq(Truth)]
  BY DEF BlameInv, Truthful
<1>3. Head(inbox[p]) \in Truth
  BY <1>1, <1>2
<1>4. q \in Member /\ m \in Nat
  BY <1>1, <1>3, SignalHeard DEF SignalKind
<1>5. edge[p][q] \in Link
  BY <1>4 DEF BlameInv, Shapes
<1>6. Shapes' /\ BlameIsFair' /\ OutIsOut
  BY <1>1, <1>4, <1>5, DescribedIsLink, EdgesFair DEF BlameInv
<1>7. x \in Truth'
  <2>1. x \in Truth
    BY SignalsAreTrue DEF BlameInv, Shapes, SignalKind
  <2> QED
    BY <1>6, <2>1, TruthStays DEF OutIsOut
<1>8. Heard(p) \in [Member -> Seq(Truth)]
  BY <1>1, <1>2 DEF Heard
<1> HIDE DEF x, q
<1> QED
  BY <1>1, <1>4, <1>6, <1>7, <1>8, PostIsTrue DEF Blames

LEMMA TrickleBlames ==
  ASSUME BlameInv, NEW p \in Member, NEW q \in Member, Trickle(p, q)
  PROVE  Blames
<1> DEFINE x == Signal("candidate", p, merge[p])
           e == [edge[p][q] EXCEPT !.told = TRUE]
<1>1. /\ edge' = [edge EXCEPT ![p][q] = e]
      /\ inbox' = Post(inbox, q, x)
      /\ UNCHANGED <<phase, merge, departed>>
  BY DEF Trickle, local
<1>2. e \in Link /\ e.done = edge[p][q].done
  <2>1. edge[p][q] \in Link
    BY DEF BlameInv, Shapes
  <2> QED
    BY <2>1 DEF Link
<1>3. Shapes' /\ BlameIsFair' /\ OutIsOut
  BY <1>1, <1>2, EdgesFair DEF BlameInv
<1>4. x \in Truth'
  <2>1. x \in Truth
    BY SignalsAreTrue DEF BlameInv, Shapes, SignalKind
  <2> QED
    BY <1>3, <2>1, TruthStays DEF OutIsOut
<1>5. inbox \in [Member -> Seq(Truth)]
  BY DEF BlameInv, Truthful
<1> HIDE DEF x
<1> QED
  BY <1>1, <1>3, <1>4, <1>5, PostIsTrue DEF Blames

LEMMA OpenBlames ==
  ASSUME BlameInv, NEW p \in Member, NEW q \in Member, Open(p, q)
  PROVE  Blames
<1> DEFINE e == [edge[p][q] EXCEPT !.open = TRUE]
<1>1. /\ edge' = [edge EXCEPT ![p][q] = e]
      /\ UNCHANGED <<inbox, phase, merge, departed>>
  BY DEF Open, local
<1>2. e \in Link /\ e.done = edge[p][q].done
  <2>1. edge[p][q] \in Link
    BY DEF BlameInv, Shapes
  <2> QED
    BY <2>1 DEF Link
<1>3. Shapes' /\ BlameIsFair' /\ OutIsOut
  BY <1>1, <1>2, EdgesFair DEF BlameInv
<1> QED
  BY <1>1, <1>3, SameIsTrue DEF BlameInv, Blames

LEMMA ReadsBlame ==
  ASSUME BlameInv, NEW p \in Member, Reads(p)
  PROVE  Blames
<1>1. CASE HearStarting(p) \/ HearStale(p) \/ HearAnswer(p) \/ HearCandidate(p) \/ HearRefused(p)
  BY <1>1, SignalBlames
<1>2. CASE HearPeerLeft(p)
  <2>1. inbox[p] # <<>> /\ inbox' = Heard(p)
    BY <1>2 DEF HearPeerLeft, HasMail
  <2> QED
    BY <1>2, <2>1, HearPeerLeftFair, HeardIsTrue DEF BlameInv, Blames
<1>3. CASE HearOffer(p)
  BY <1>3, OfferBlames
<1>4. CASE GraceEnds(p)
  BY <1>4, FailureBlames DEF GraceEnds, Building
<1>5. ASSUME NEW q \in Peers(p), Trickle(p, q) \/ Open(p, q) \/ Handshake(p, q)
      PROVE  Blames
  <2>1. q \in Member
    BY DEF Peers
  <2>2. CASE Handshake(p, q)
    <3>1. inbox' = inbox
      BY <2>2 DEF Handshake
    <3> QED
      BY <2>2, <3>1, HandshakeFair, SameIsTrue DEF BlameInv, Blames
  <2> QED
    BY <1>5, <2>1, <2>2, TrickleBlames, OpenBlames
<1> QED
  BY <1>1, <1>2, <1>3, <1>4, <1>5 DEF Reads

LEMMA ExchangesBlame ==
  ASSUME BlameInv, NEW p \in Member, Exchanges(p)
  PROVE  Blames
<1>1. /\ phase[p] # "out" /\ UNCHANGED <<inbox, merge, edge, departed>>
      /\ \/ phase' = [phase EXCEPT ![p] = "exchange"]
         \/ phase' = [phase EXCEPT ![p] = "linked"]
         \/ phase' = phase
  BY DEF Exchanges, Capture, Receive, local
<1>2. CASE phase' = phase
  BY <1>1, <1>2, SameIsTrue DEF BlameInv, Blames, Shapes, BlameIsFair, OutIsOut, Pending
<1>3. CASE \/ phase' = [phase EXCEPT ![p] = "exchange"]
           \/ phase' = [phase EXCEPT ![p] = "linked"]
  BY <1>1, <1>3, MovesFair, SameIsTrue DEF BlameInv, Blames, Phase
<1> QED
  BY <1>1, <1>2, <1>3

LEMMA LeaveBlames ==
  ASSUME BlameInv, NEW p \in Member, Leave(p)
  PROVE  Blames
<1>1. Quits(p, "out") /\ merge' = merge
  BY DEF Leave, local
<1>2. Shapes' /\ BlameIsFair' /\ OutIsOut
  BY <1>1, QuitsFair DEF BlameInv, Phase
<1> QED
  BY <1>2, LeaveIsTrue DEF BlameInv, Blames

LEMMA RemergeBlames ==
  ASSUME BlameInv, Remerge
  PROVE  Blames
<1>1. UNCHANGED <<phase, merge, edge, departed>>
  BY DEF Remerge, local
<1>2. Shapes' /\ BlameIsFair' /\ OutIsOut
  BY <1>1 DEF BlameInv, Shapes, BlameIsFair, OutIsOut, Pending
<1> QED
  BY <1>2, RemergeIsTrue DEF BlameInv, Blames

LEMMA BlameHolds ==
  BlameInv /\ [Next]_vars => BlameInv'
<1> SUFFICES ASSUME BlameInv, [Next]_vars
             PROVE  BlameInv'
  OBVIOUS
<1>1. CASE Remerge
  BY <1>1, RemergeBlames DEF Blames, BlameInv
<1>2. ASSUME NEW p \in Member,
             Lobby(p) \/ Reads(p) \/ Exchanges(p) \/ Leave(p)
      PROVE  BlameInv'
  BY <1>2, LobbyBlames, ReadsBlame, ExchangesBlame, LeaveBlames DEF Blames, BlameInv
<1>3. ASSUME NEW p \in Member,
             Breaks(p) \/ MeshTimeout(p) \/ ExchangeTimeout(p) \/ EdgeFails(p)
      PROVE  BlameInv'
  <2>1. GivesUp(p) /\ phase[p] # "out"
    BY <1>3 DEF Breaks, ChannelClosed, ConnectionFailed, MeshTimeout, ExchangeTimeout,
                EdgeFails, Building
  <2> QED
    BY <2>1, FailureBlames DEF Blames, BlameInv
<1>4. CASE UNCHANGED vars
  <2>1. UNCHANGED <<phase, merge, edge, departed, inbox>>
    BY <1>4 DEF vars
  <2>2. Shapes' /\ BlameIsFair' /\ OutIsOut
    BY <2>1 DEF BlameInv, Shapes, BlameIsFair, OutIsOut, Pending
  <2> QED
    BY <2>1, <2>2, SameIsTrue DEF BlameInv
<1> QED
  BY <1>1, <1>2, <1>3, <1>4 DEF Next

LEMMA BlameStarts ==
  Init => BlameInv
<1> SUFFICES ASSUME Init
             PROVE  BlameInv
  OBVIOUS
<1>1. Starting \in Truth
  BY KindsApart DEF Truth, Said
<1>2. <<Starting>> \in Seq(Truth)
  BY <1>1
<1>3. Truthful
  BY <1>2 DEF Init, Truthful
<1>4. Shapes
  BY FreshIsLink DEF Init, Shapes, Phase
<1>5. BlameIsFair
  BY DEF Init, BlameIsFair
<1> QED
  BY <1>3, <1>4, <1>5 DEF BlameInv

\* For any number of members, merges and failures: a build that gives up because
\* a peer "left during connection setup" names one that did leave, and whose
\* hello it never had (mesh.rs, the grace clock of PeerLeft).
THEOREM BlameIsAlwaysFair ==
  Spec => []BlameIsFair
<1>1. BlameInv => BlameIsFair
  BY DEF BlameInv
<1> QED
  BY <1>1, BlameStarts, BlameHolds, PTL DEF Spec

-----------------------------------------------------------------------------
(* Counting what is unread *)

\* How many Startings a member has yet to read.
Count(s) == Cardinality(Starts(s))

LEMMA CountsAreFinite ==
  ASSUME NEW S, NEW s \in Seq(S)
  PROVE  IsFiniteSet(Starts(s)) /\ Count(s) \in Nat
<1>1. IsFiniteSet(1 .. Len(s)) /\ Starts(s) \subseteq 1 .. Len(s)
  BY FS_Interval DEF Starts
<1> QED
  BY <1>1, FS_Subset, FS_CardinalityType DEF Count

LEMMA CountOfAppend ==
  ASSUME NEW S, NEW s \in Seq(S), NEW x \in S
  PROVE  Count(Append(s, x)) = IF x = Starting THEN Count(s) + 1 ELSE Count(s)
<1>1. /\ Len(Append(s, x)) = Len(s) + 1
      /\ \A i \in 1 .. Len(s) : Append(s, x)[i] = s[i]
      /\ Append(s, x)[Len(s) + 1] = x
  OBVIOUS
<1>2. Len(s) + 1 \notin Starts(s) /\ IsFiniteSet(Starts(s))
  BY CountsAreFinite DEF Starts
<1>3. CASE x = Starting
  <2>1. Starts(Append(s, x)) = Starts(s) \cup {Len(s) + 1}
    BY <1>1, <1>3 DEF Starts
  <2> QED
    BY <1>2, <1>3, <2>1, FS_AddElement DEF Count
<1>4. CASE x # Starting
  <2>1. Starts(Append(s, x)) = Starts(s)
    BY <1>1, <1>4 DEF Starts
  <2> QED
    BY <1>4, <2>1 DEF Count
<1> QED
  BY <1>3, <1>4

LEMMA CountOfTail ==
  ASSUME NEW S, NEW s \in Seq(S), s # <<>>
  PROVE  Count(Tail(s)) = IF Head(s) = Starting THEN Count(s) - 1 ELSE Count(s)
<1> DEFINE rest == Starts(s) \ {1}
           back == [i \in Starts(Tail(s)) |-> i + 1]
<1>1. /\ Tail(s) \in Seq(S) /\ Len(Tail(s)) = Len(s) - 1 /\ Len(s) \in Nat \ {0}
      /\ \A i \in 1 .. Len(s) - 1 : Tail(s)[i] = s[i + 1]
      /\ Head(s) = s[1]
  OBVIOUS
<1>2. IsFiniteSet(Starts(s)) /\ IsFiniteSet(Starts(Tail(s)))
  BY <1>1, CountsAreFinite
<1>3. back \in Bijection(Starts(Tail(s)), rest)
  <2>1. back \in [Starts(Tail(s)) -> rest]
    BY <1>1 DEF Starts
  <2>2. \A a, b \in Starts(Tail(s)) : back[a] = back[b] => a = b
    BY DEF Starts
  <2>3. \A j \in rest : \E i \in Starts(Tail(s)) : back[i] = j
    <3> TAKE j \in rest
    <3>1. j - 1 \in Starts(Tail(s))
      BY <1>1 DEF Starts
    <3>2. back[j - 1] = j
      BY <3>1 DEF Starts
    <3> QED
      BY <3>1, <3>2
  <2> HIDE DEF back, rest
  <2> QED
    BY <2>1, <2>2, <2>3, Fun_IsBij
<1>4. Cardinality(rest) = Count(Tail(s))
  <2> HIDE DEF back, rest
  <2>1. ExistsBijection(Starts(Tail(s)), rest)
    BY <1>3 DEF ExistsBijection
  <2> QED
    BY <1>2, <2>1, FS_Bijection DEF Count
<1>5. 1 \in Starts(s) <=> Head(s) = Starting
  BY <1>1 DEF Starts
<1> QED
  BY <1>2, <1>4, <1>5, FS_RemoveElement DEF Count

-----------------------------------------------------------------------------
(* What the steps do to the shapes *)

\* MeshTypeOK, with the two halves apart.
Typed ==
  /\ merges \in 1 .. MaxMerges /\ asks \subseteq Member
  /\ inbox \in [Member -> Seq(Message)]
  /\ phase \in [Member -> Phase]
  /\ merge \in [Member -> Build] /\ stray \in [Member -> Build]
  /\ edge \in [Member -> [Member -> Edge]]
  /\ mail \in [Member -> [Member -> Seq(Control)]]
  /\ departed \in [Member -> SUBSET Member]
  /\ boots \in [Member -> [Member -> Build]]
  /\ upsets \in 0 .. MaxUpsets

Accounted ==
  \A p \in Member : phase[p] # "out" =>
    merge[p] + stray[p] + Count(inbox[p]) = merges

LEMMA MeshTypeParts ==
  MeshTypeOK <=> Typed /\ Accounted
BY DEF MeshTypeOK, Typed, Accounted, Count

LEMMA BuildsAreNumbers ==
  Build \subseteq Nat /\ 0 \in Build /\ MaxMerges \in Nat /\ MaxUpsets \in Nat
BY MeshAssumption DEF Build

LEMMA MessagesApart ==
  /\ Starting \in Message
  /\ \A q \in Member : PeerLeft(q) \in Message /\ PeerLeft(q) # Starting
  /\ \A k \in SignalKind, q \in Member, m \in Build :
       Signal(k, q, m) \in Message /\ Signal(k, q, m) # Starting
<1>1. \A q : PeerLeft(q).type = "peerLeft" /\ Starting.type = "starting"
  BY DEF PeerLeft, Starting
<1>2. \A k, q, m : Signal(k, q, m).type = k
  BY DEF Signal
<1>3. "starting" \notin SignalKind
  BY DEF SignalKind
<1> QED
  BY <1>1, <1>2, <1>3 DEF Message

\* A signal names a player and a build the server has a number for.
LEMMA SignalTyped ==
  ASSUME NEW x \in Message, x.type \in SignalKind
  PROVE  x.from \in Member /\ x.of \in Build /\ x # Starting
<1>1. Starting.type = "starting" /\ \A q : PeerLeft(q).type = "peerLeft"
  BY DEF PeerLeft, Starting
<1>2. x # Starting /\ \A q \in Member : x # PeerLeft(q)
  BY <1>1 DEF SignalKind
<1>3. PICK k \in SignalKind, q \in Member, m \in Build : x = Signal(k, q, m)
  BY <1>2 DEF Message
<1>4. x.from = q /\ x.of = m
  BY <1>3 DEF Signal
<1> QED
  BY <1>2, <1>4

LEMMA DepartureTyped ==
  ASSUME NEW x \in Message, x.type = "peerLeft"
  PROVE  x.from \in Member /\ x # Starting
<1>1. Starting.type = "starting" /\ \A k, q, m : Signal(k, q, m).type = k
  BY DEF Signal, Starting
<1>2. x # Starting /\ \A k \in SignalKind, q \in Member, m \in Build : x # Signal(k, q, m)
  BY <1>1 DEF SignalKind
<1>3. PICK q \in Member : x = PeerLeft(q)
  BY <1>2 DEF Message
<1> QED
  BY <1>2, <1>3 DEF PeerLeft

LEMMA ControlTyped ==
  /\ Hello \in Control /\ End \in Control
  /\ \A m \in Build : Boot(m) \in Control
  /\ \A x \in Control : x.of \in Build
<1>1. Hello.of = 0 /\ End.of = 0 /\ \A m \in Build : Boot(m).of = m
  BY DEF Hello, End, Boot
<1>2. 0 \in Build
  BY BuildsAreNumbers
<1> QED
  BY <1>1, <1>2 DEF Control

\* A step that takes no Starting from anybody and begins no build leaves the
\* account as it is.
LEMMA StillAccounted ==
  ASSUME Accounted, UNCHANGED <<merges, merge, stray>>,
         \A q \in Member : phase'[q] # "out" =>
           phase[q] # "out" /\ Count(inbox'[q]) = Count(inbox[q])
  PROVE  Accounted'
BY DEF Accounted

LEMMA HeardTyped ==
  ASSUME inbox \in [Member -> Seq(Message)], NEW p \in Member, inbox[p] # <<>>
  PROVE  /\ Head(inbox[p]) \in Message
         /\ Heard(p) \in [Member -> Seq(Message)]
         /\ Head(inbox[p]) # Starting => \A q \in Member : Count(Heard(p)[q]) = Count(inbox[q])
         /\ \A q \in Member \ {p} : Heard(p)[q] = inbox[q]
         /\ Heard(p)[p] = Tail(inbox[p])
<1>1. inbox[p] \in Seq(Message)
  OBVIOUS
<1>2. /\ \A q \in Member \ {p} : Heard(p)[q] = inbox[q]
      /\ Heard(p)[p] = Tail(inbox[p])
      /\ Heard(p) \in [Member -> Seq(Message)]
  BY <1>1 DEF Heard
<1>3. Head(inbox[p]) \in Message
  BY <1>1
<1> QED
  BY <1>1, <1>2, <1>3, CountOfTail

LEMMA PostTyped ==
  ASSUME NEW box \in [Member -> Seq(Message)], NEW q \in Member,
         NEW x \in Message, x # Starting
  PROVE  /\ Post(box, q, x) \in [Member -> Seq(Message)]
         /\ \A r \in Member : Count(Post(box, q, x)[r]) = Count(box[r])
<1>1. box[q] \in Seq(Message) /\ Append(box[q], x) \in Seq(Message)
  OBVIOUS
<1>2. Count(Append(box[q], x)) = Count(box[q])
  BY <1>1, CountOfAppend
<1> QED
  BY <1>1, <1>2 DEF Post, Heading

LEMMA HangsTyped ==
  ASSUME mail \in [Member -> [Member -> Seq(Control)]], NEW p \in Member,
         NEW lossy \in BOOLEAN
  PROVE  Hangs(p, lossy) \in [Member -> [Member -> Seq(Control)]]
<1>1. ASSUME NEW q \in Member
      PROVE  Hangs(p, lossy)[q] \in [Member -> Seq(Control)]
  <2>1. /\ <<>> \in Seq(Control) /\ mail[q] \in [Member -> Seq(Control)]
        /\ Append(<<>>, End) \in Seq(Control) /\ Append(mail[q][p], End) \in Seq(Control)
    BY ControlTyped
  <2>2. Hangs(p, lossy)[q] \in {mail[q], [r \in Member |-> <<>>],
                                [mail[q] EXCEPT ![p] = Append(<<>>, End)],
                                [mail[q] EXCEPT ![p] = Append(mail[q][p], End)]}
    BY DEF Hangs
  <2> QED
    BY <2>1, <2>2
<1>2. Hangs(p, lossy) = [q \in Member |-> Hangs(p, lossy)[q]]
  BY DEF Hangs
<1> QED
  BY <1>1, <1>2

LEMMA SentTyped ==
  ASSUME mail \in [Member -> [Member -> Seq(Control)]], NEW p \in Member,
         NEW Q, NEW x \in Control
  PROVE  Sent(p, Q, x) \in [Member -> [Member -> Seq(Control)]]
<1>1. ASSUME NEW q \in Member
      PROVE  Sent(p, Q, x)[q] \in [Member -> Seq(Control)]
  <2>1. mail[q] \in [Member -> Seq(Control)] /\ Append(mail[q][p], x) \in Seq(Control)
    OBVIOUS
  <2>2. Sent(p, Q, x)[q] \in {mail[q], [mail[q] EXCEPT ![p] = Append(mail[q][p], x)]}
    BY DEF Sent
  <2> QED
    BY <2>1, <2>2
<1>2. Sent(p, Q, x) = [q \in Member |-> Sent(p, Q, x)[q]]
  BY DEF Sent
<1> QED
  BY <1>1, <1>2

LEMMA EdgesTyped ==
  /\ FreshEdge \in Edge
  /\ \A e \in Edge, m \in Build :
       Described(e, m) \in Edge /\ Supplied(e, m) \in Edge
  /\ \A e \in Edge : /\ [e EXCEPT !.told = TRUE] \in Edge
                     /\ [e EXCEPT !.open = TRUE] \in Edge
                     /\ [e EXCEPT !.done = TRUE] \in Edge
<1>1. FreshEdge \in Edge
  BY BuildsAreNumbers DEF FreshEdge, Edge
<1>2. ASSUME NEW e \in Edge, NEW m \in Build
      PROVE  Described(e, m) \in Edge /\ Supplied(e, m) \in Edge
  <2>1. Described(e, m) \in Edge
    <3> DEFINE n == m \in e.kept
    <3>1. n \in BOOLEAN
      OBVIOUS
    <3> HIDE DEF n
    <3>2. [e EXCEPT !.remote = m, !.near = n, !.kept = {}] \in Edge
      BY <3>1 DEF Edge
    <3> QED
      BY <3>2 DEF Described, n
  <2>2. Supplied(e, m) \in Edge
    <3> DEFINE n == e.near \/ m = e.remote
    <3>1. n \in BOOLEAN
      BY DEF Edge
    <3>2. [e EXCEPT !.kept = e.kept \cup {m}] \in Edge
      BY DEF Edge
    <3> HIDE DEF n
    <3>3. [e EXCEPT !.near = n] \in Edge
      BY <3>1 DEF Edge
    <3> QED
      BY <3>2, <3>3 DEF Supplied, n
  <2> QED
    BY <2>1, <2>2
<1>3. ASSUME NEW e \in Edge
      PROVE  /\ [e EXCEPT !.told = TRUE] \in Edge
             /\ [e EXCEPT !.open = TRUE] \in Edge
             /\ [e EXCEPT !.done = TRUE] \in Edge
  BY DEF Edge
<1> QED
  BY <1>1, <1>2, <1>3

\* What an action has to show.
Shaped == Typed' /\ Accounted'

LEMMA QuitsShaped ==
  ASSUME Typed, NEW p \in Member, phase[p] # "out", NEW after \in Phase, Quits(p, after)
  PROVE  /\ phase' \in [Member -> Phase]
         /\ edge' \in [Member -> [Member -> Edge]]
         /\ mail' \in [Member -> [Member -> Seq(Control)]]
         /\ departed' \in [Member -> SUBSET Member]
         /\ boots' \in [Member -> [Member -> Build]]
         /\ \A q \in Member : phase'[q] # "out" => phase[q] # "out"
<1>1. PICK lossy \in BOOLEAN : mail' = Hangs(p, lossy)
  BY DEF Quits
<1>2. mail' \in [Member -> [Member -> Seq(Control)]]
  BY <1>1, HangsTyped DEF Typed
<1>3. edge' \in [Member -> [Member -> Edge]]
  BY EdgesTyped DEF Typed, Quits, TornDown
<1>4. boots' \in [Member -> [Member -> Build]]
  BY BuildsAreNumbers DEF Typed, Quits, Forgets
<1> QED
  BY <1>2, <1>3, <1>4 DEF Typed, Quits, Forgets

LEMMA Numbers ==
  ASSUME Typed, NEW p \in Member
  PROVE  /\ inbox[p] \in Seq(Message) /\ Count(inbox[p]) \in Nat
         /\ merge[p] \in Nat /\ stray[p] \in Nat
         /\ merges \in Nat /\ merges <= MaxMerges
<1>1. inbox[p] \in Seq(Message)
  BY DEF Typed
<1>2. Count(inbox[p]) \in Nat
  BY <1>1, CountsAreFinite
<1>3. merge[p] \in Nat /\ stray[p] \in Nat
  BY BuildsAreNumbers DEF Typed
<1>4. merges \in Nat /\ merges <= MaxMerges
  BY BuildsAreNumbers DEF Typed
<1> QED
  BY <1>1, <1>2, <1>3, <1>4

LEMMA RemergeShaped ==
  ASSUME Typed, Accounted, Remerge
  PROVE  Shaped
<1>1. /\ merges < MaxMerges /\ merges' = merges + 1 /\ asks' = {}
      /\ inbox' = [p \in Member |-> Append(inbox[p], Starting)]
      /\ UNCHANGED <<phase, merge, stray, edge, mail, departed, boots, upsets>>
  BY DEF Remerge, local
<1>2. ASSUME NEW p \in Member
      PROVE  inbox'[p] \in Seq(Message) /\ Count(inbox'[p]) = Count(inbox[p]) + 1
  <2>1. inbox[p] \in Seq(Message) /\ Starting \in Message
    BY MessagesApart DEF Typed
  <2> QED
    BY <1>1, <2>1, CountOfAppend
<1>3. inbox' \in [Member -> Seq(Message)]
  BY <1>1, <1>2
<1>4. Typed'
  BY <1>1, <1>3, BuildsAreNumbers DEF Typed
<1>5. Accounted'
  <2> SUFFICES ASSUME NEW p \in Member, phase'[p] # "out"
               PROVE  merge'[p] + stray'[p] + Count(inbox'[p]) = merges'
    BY DEF Accounted
  <2>1. Count(inbox[p]) \in Nat /\ merge[p] \in Nat /\ stray[p] \in Nat /\ merges \in Nat
    BY Numbers
  <2>2. merge[p] + stray[p] + Count(inbox[p]) = merges
    BY <1>1 DEF Accounted
  <2> HIDE DEF Count
  <2> QED
    BY <1>1, <1>2, <2>1, <2>2
<1> QED
  BY <1>4, <1>5 DEF Shaped

LEMMA BeginShaped ==
  ASSUME Typed, Accounted, NEW p \in Member, Begin(p)
  PROVE  Shaped
<1> DEFINE fresh == stray[p] = 0
           read  == IF fresh THEN Tail(inbox[p]) ELSE inbox[p]
           x     == Signal("offer", p, merge[p] + 1)
<1>1. /\ phase[p] # "out" /\ phase' = [phase EXCEPT ![p] = "build"]
      /\ fresh => inbox[p] # <<>> /\ Head(inbox[p]) = Starting
      /\ merge' = [merge EXCEPT ![p] = merge[p] + 1]
      /\ stray' = IF fresh THEN stray ELSE [stray EXCEPT ![p] = stray[p] - 1]
      /\ inbox' = [q \in Member |->
                    IF q = p THEN read
                    ELSE IF Offers(p, q) THEN Heading(inbox, q, x) ELSE inbox[q]]
      /\ UNCHANGED <<merges, asks, upsets>>
      /\ TornDown(p) /\ Forgets(p)
  BY DEF Begin, Idling, server
<1>2. PICK lossy \in BOOLEAN : mail' = Hangs(p, lossy)
  BY DEF Begin
<1>3. /\ inbox[p] \in Seq(Message) /\ Count(inbox[p]) \in Nat
      /\ merge[p] \in Nat /\ stray[p] \in Nat /\ merges \in Nat /\ merges <= MaxMerges
      /\ merge[p] + stray[p] + Count(inbox[p]) = merges
  BY <1>1, Numbers DEF Accounted
<1>4. /\ read \in Seq(Message)
      /\ fresh => Count(read) = Count(inbox[p]) - 1 /\ Count(read) \in Nat
      /\ ~fresh => Count(read) = Count(inbox[p])
  <2>1. CASE fresh
    <3>1. Tail(inbox[p]) \in Seq(Message) /\ read = Tail(inbox[p])
      BY <1>1, <1>3, <2>1
    <3>2. Count(Tail(inbox[p])) \in Nat
      BY <3>1, CountsAreFinite
    <3> QED
      BY <1>1, <1>3, <2>1, <3>1, <3>2, CountOfTail
  <2>2. CASE ~fresh
    BY <1>3, <2>2
  <2> QED
    BY <2>1, <2>2
<1>5. merge[p] + 1 \in Build
  BY <1>3, <1>4, BuildsAreNumbers DEF Build
<1>6. x \in Message /\ x # Starting
  BY <1>5, MessagesApart DEF SignalKind
<1>7. ASSUME NEW q \in Member, q # p
      PROVE  inbox'[q] \in Seq(Message) /\ Count(inbox'[q]) = Count(inbox[q])
  <2>1. inbox[q] \in Seq(Message) /\ Append(inbox[q], x) \in Seq(Message)
    BY <1>6 DEF Typed
  <2>2. Count(Append(inbox[q], x)) = Count(inbox[q])
    BY <1>6, <2>1, CountOfAppend
  <2>3. inbox'[q] = inbox[q] \/ inbox'[q] = Append(inbox[q], x)
    BY <1>1, <1>7 DEF Heading
  <2> QED
    BY <2>1, <2>2, <2>3
<1>8. inbox'[p] = read
  BY <1>1
<1> HIDE DEF x, read
<1>9. inbox' \in [Member -> Seq(Message)]
  BY <1>1, <1>4, <1>7, <1>8
<1>10. /\ edge' \in [Member -> [Member -> Edge]]
       /\ mail' \in [Member -> [Member -> Seq(Control)]]
       /\ boots' \in [Member -> [Member -> Build]]
       /\ departed' \in [Member -> SUBSET Member]
  BY <1>1, <1>2, HangsTyped, EdgesTyped, BuildsAreNumbers DEF Typed, TornDown, Forgets
<1>11. phase' \in [Member -> Phase] /\ merge' \in [Member -> Build] /\ stray' \in [Member -> Build]
  <2>1. phase' \in [Member -> Phase] /\ merge' \in [Member -> Build]
    BY <1>1, <1>5 DEF Typed, Phase
  <2>2. ~fresh => stray[p] - 1 \in Build
    <3>1. stray[p] \in 0 .. MaxMerges
      BY DEF Typed, Build
    <3> QED
      BY <3>1, BuildsAreNumbers DEF Build
  <2> QED
    BY <1>1, <2>1, <2>2 DEF Typed
<1>12. Typed'
  BY <1>1, <1>9, <1>10, <1>11 DEF Typed
<1>13. Accounted'
  <2> SUFFICES ASSUME NEW q \in Member, phase'[q] # "out"
               PROVE  merge'[q] + stray'[q] + Count(inbox'[q]) = merges'
    BY DEF Accounted
  <2>1. CASE q = p
    BY <1>1, <1>3, <1>4, <1>8, <2>1 DEF Typed
  <2>2. CASE q # p
    BY <1>1, <1>7, <2>2 DEF Typed, Accounted
  <2> QED
    BY <2>1, <2>2
<1> QED
  BY <1>12, <1>13 DEF Shaped

LEMMA LobbyShaped ==
  ASSUME Typed, Accounted, NEW p \in Member, Lobby(p)
  PROVE  Shaped
<1>1. CASE Overhear(p)
  <2>1. /\ inbox[p] # <<>> /\ Head(inbox[p]) # Starting /\ inbox' = Heard(p)
        /\ UNCHANGED <<merges, asks, phase, merge, stray, edge, mail, departed, boots, upsets>>
    BY <1>1 DEF Overhear, Heard, server, local
  <2>2. inbox' \in [Member -> Seq(Message)] /\ \A q \in Member : Count(inbox'[q]) = Count(inbox[q])
    BY <2>1, HeardTyped DEF Typed
  <2>3. Accounted'
    BY <2>1, <2>2, StillAccounted
  <2> QED
    BY <2>1, <2>2, <2>3 DEF Typed, Shaped
<1>2. CASE AskAgain(p)
  <2>1. /\ phase[p] # "out" /\ phase' = [phase EXCEPT ![p] = "idle"]
        /\ asks' = asks \cup {p}
        /\ UNCHANGED <<merges, inbox, merge, stray, edge, mail, departed, boots, upsets>>
    BY <1>2 DEF AskAgain, local
  <2>2. Accounted'
    BY <2>1, StillAccounted DEF Typed
  <2> QED
    BY <2>1, <2>2 DEF Typed, Shaped, Phase
<1>3. CASE Drop(p)
  <2>1. /\ phase[p] # "out" /\ Quits(p, "dance")
        /\ UNCHANGED <<merges, asks, inbox, merge, stray, upsets>>
    BY <1>3 DEF Drop, server, local
  <2>2. "dance" \in Phase
    BY DEF Phase
  <2>3. Accounted'
    BY <2>1, <2>2, QuitsShaped, StillAccounted
  <2> QED
    BY <2>1, <2>2, <2>3, QuitsShaped DEF Typed, Shaped
<1> QED
  BY <1>1, <1>2, <1>3, BeginShaped DEF Lobby

LEMMA GivesUpShaped ==
  ASSUME Typed, Accounted, NEW p \in Member, phase[p] # "out", GivesUp(p),
         upsets' \in 0 .. MaxUpsets
  PROVE  Shaped
<1>1. Quits(p, "pause") /\ UNCHANGED <<merges, asks, inbox, merge, stray>>
  BY DEF GivesUp, server, local
<1>2. "pause" \in Phase
  BY DEF Phase
<1>3. Accounted'
  BY <1>1, <1>2, QuitsShaped, StillAccounted
<1> QED
  BY <1>1, <1>2, <1>3, QuitsShaped DEF Typed, Shaped

LEMMA HearStartingShaped ==
  ASSUME Typed, Accounted, NEW p \in Member, HearStarting(p)
  PROVE  Shaped
<1>1. /\ phase[p] # "out" /\ inbox[p] # <<>> /\ Head(inbox[p]) = Starting
      /\ stray' = [stray EXCEPT ![p] = stray[p] + 1]
      /\ inbox' = Heard(p)
      /\ UNCHANGED <<merges, asks, phase, merge, edge, mail, departed, boots, upsets>>
  BY DEF HearStarting, HasMail, Building, Head1, server
<1>2. /\ inbox[p] \in Seq(Message) /\ Count(inbox[p]) \in Nat
      /\ merge[p] \in Nat /\ stray[p] \in Nat /\ merges \in Nat /\ merges <= MaxMerges
      /\ merge[p] + stray[p] + Count(inbox[p]) = merges
  BY <1>1, Numbers DEF Accounted
<1>3. Count(Tail(inbox[p])) = Count(inbox[p]) - 1 /\ Count(Tail(inbox[p])) \in Nat
  <2>1. Tail(inbox[p]) \in Seq(Message)
    BY <1>1, <1>2
  <2> QED
    BY <1>1, <1>2, <2>1, CountOfTail, CountsAreFinite
<1>4. /\ inbox' \in [Member -> Seq(Message)] /\ inbox'[p] = Tail(inbox[p])
      /\ \A q \in Member \ {p} : inbox'[q] = inbox[q]
  BY <1>1, HeardTyped DEF Typed
<1>5. stray[p] + 1 \in Build
  BY <1>2, <1>3, BuildsAreNumbers DEF Build
<1>6. Typed'
  BY <1>1, <1>4, <1>5 DEF Typed
<1>7. Accounted'
  <2> SUFFICES ASSUME NEW q \in Member, phase'[q] # "out"
               PROVE  merge'[q] + stray'[q] + Count(inbox'[q]) = merges'
    BY DEF Accounted
  <2>1. CASE q = p
    <3>1. stray'[p] = stray[p] + 1 /\ merge'[p] = merge[p] /\ merges' = merges
      BY <1>1 DEF Typed
    <3>2. Count(inbox'[p]) = Count(inbox[p]) - 1
      BY <1>3, <1>4
    <3> QED
      BY <1>2, <2>1, <3>1, <3>2
  <2>2. CASE q # p
    BY <1>1, <1>4, <2>2 DEF Typed, Accounted
  <2> QED
    BY <2>1, <2>2
<1> QED
  BY <1>6, <1>7 DEF Shaped

\* Signals and departures, as a build hears them.
LEMMA HeardShaped ==
  ASSUME Typed, Accounted, NEW p \in Member,
         \/ HearPeerLeft(p) \/ HearStale(p) \/ HearOffer(p) \/ HearAnswer(p)
         \/ HearRefused(p) \/ HearCandidate(p)
  PROVE  Shaped
<1> DEFINE x == Head(inbox[p])
           q == x.from
<1>1. /\ phase[p] # "out" /\ inbox[p] # <<>>
      /\ UNCHANGED <<merges, asks, merge, stray, upsets>>
  BY DEF HearPeerLeft, HearStale, HearOffer, HearAnswer, HearRefused, HearCandidate,
         Hears, HasMail, Building, server, local
<1>2. /\ x \in Message /\ Heard(p) \in [Member -> Seq(Message)]
      /\ x # Starting => \A r \in Member : Count(Heard(p)[r]) = Count(inbox[r])
  BY <1>1, HeardTyped DEF Typed
<1>3. CASE HearPeerLeft(p)
  <2>1. /\ x.type = "peerLeft" /\ inbox' = Heard(p)
        /\ departed' = [departed EXCEPT ![p] = departed[p] \cup ({q} \cap Pending(p))]
        /\ UNCHANGED <<phase, edge, mail, boots>>
    BY <1>3 DEF HearPeerLeft, Head1
  <2>2. q \in Member /\ x # Starting
    BY <1>2, <2>1, DepartureTyped
  <2>3. Accounted'
    BY <1>1, <1>2, <2>1, <2>2, StillAccounted
  <2> HIDE DEF x
  <2> QED
    BY <1>1, <1>2, <2>1, <2>2, <2>3 DEF Typed, Shaped
<1>4. CASE HearStale(p)
  <2>1. /\ x.type \in SignalKind /\ inbox' = Heard(p)
        /\ UNCHANGED <<phase, edge, mail, departed, boots>>
    BY <1>4 DEF HearStale, Head1
  <2>2. x # Starting
    BY <1>2, <2>1, SignalTyped
  <2>3. Accounted'
    BY <1>1, <1>2, <2>1, <2>2, StillAccounted
  <2> QED
    BY <1>1, <1>2, <2>1, <2>3 DEF Typed, Shaped
<1>5. CASE HearOffer(p)
  <2>1. /\ x.type \in SignalKind
        /\ edge' = [edge EXCEPT ![p][q] = Described(edge[p][q], x.of)]
        /\ mail' = [mail EXCEPT ![p][q] = <<>>]
        /\ inbox' = Post(Heard(p), q, Signal("answer", p, merge[p]))
        /\ UNCHANGED <<phase, departed, boots>>
    BY <1>5 DEF HearOffer, Hears, Head1, SignalKind
  <2>2. q \in Member /\ x.of \in Build /\ x # Starting
    BY <1>2, <2>1, SignalTyped
  <2>3. Signal("answer", p, merge[p]) \in Message /\ Signal("answer", p, merge[p]) # Starting
    BY MessagesApart DEF Typed, SignalKind
  <2> HIDE DEF x, q
  <2>4. /\ inbox' \in [Member -> Seq(Message)]
        /\ \A r \in Member : Count(inbox'[r]) = Count(inbox[r])
    <3> DEFINE a == Signal("answer", p, merge[p])
    <3>1. a \in Message /\ a # Starting
      BY <2>3
    <3> HIDE DEF a
    <3>2. inbox' = Post(Heard(p), q, a)
      BY <2>1 DEF a
    <3>3. /\ Post(Heard(p), q, a) \in [Member -> Seq(Message)]
          /\ \A r \in Member : Count(Post(Heard(p), q, a)[r]) = Count(Heard(p)[r])
      BY <1>2, <2>2, <3>1, PostTyped
    <3> QED
      BY <1>2, <2>2, <3>2, <3>3
  <2>5. edge' \in [Member -> [Member -> Edge]]
    BY <2>1, <2>2, EdgesTyped DEF Typed
  <2>6. mail' \in [Member -> [Member -> Seq(Control)]]
    BY <2>1, <2>2 DEF Typed
  <2>7. Accounted'
    BY <1>1, <2>1, <2>4, StillAccounted
  <2> QED
    BY <1>1, <2>1, <2>4, <2>5, <2>6, <2>7 DEF Typed, Shaped
<1>6. CASE HearAnswer(p) \/ HearCandidate(p)
  <2>1. /\ x.type \in SignalKind /\ inbox' = Heard(p)
        /\ \/ edge' = [edge EXCEPT ![p][q] = Described(edge[p][q], x.of)]
           \/ edge' = [edge EXCEPT ![p][q] = Supplied(edge[p][q], x.of)]
        /\ UNCHANGED <<phase, mail, departed, boots>>
    BY <1>6 DEF HearAnswer, HearCandidate, Hears, Head1, SignalKind
  <2>2. q \in Member /\ x.of \in Build /\ x # Starting
    BY <1>2, <2>1, SignalTyped
  <2>3. edge' \in [Member -> [Member -> Edge]]
    <3>1. edge[p][q] \in Edge
      BY <2>2 DEF Typed
    <3>2. PICK e \in Edge : edge' = [edge EXCEPT ![p][q] = e]
      BY <2>1, <2>2, <3>1, EdgesTyped
    <3> QED
      BY <2>2, <3>2 DEF Typed
  <2>4. Accounted'
    BY <1>1, <1>2, <2>1, <2>2, StillAccounted
  <2> QED
    BY <1>1, <1>2, <2>1, <2>3, <2>4 DEF Typed, Shaped
<1>7. CASE HearRefused(p)
  <2>1. x.type \in SignalKind /\ inbox' = Heard(p) /\ Quits(p, "pause")
    BY <1>7 DEF HearRefused, Hears, Head1, SignalKind
  <2>2. x # Starting /\ "pause" \in Phase
    BY <1>2, <2>1, SignalTyped DEF Phase
  <2>3. Accounted'
    BY <1>1, <1>2, <2>1, <2>2, QuitsShaped, StillAccounted
  <2> QED
    BY <1>1, <1>2, <2>1, <2>2, <2>3, QuitsShaped DEF Typed, Shaped
<1> QED
  BY <1>3, <1>4, <1>5, <1>6, <1>7

LEMMA ChannelShaped ==
  ASSUME Typed, Accounted, NEW p \in Member, NEW q \in Peers(p),
         Trickle(p, q) \/ Open(p, q) \/ Handshake(p, q) \/ Receive(p, q)
  PROVE  Shaped
<1>1. q \in Member /\ UNCHANGED <<merges, asks, merge, stray, upsets>> /\ phase[p] # "out"
  BY DEF Trickle, Open, Handshake, Receive, Building, server, local, Peers
<1>2. CASE Trickle(p, q)
  <2> DEFINE x == Signal("candidate", p, merge[p])
  <2>1. /\ edge' = [edge EXCEPT ![p][q].told = TRUE] /\ inbox' = Post(inbox, q, x)
        /\ UNCHANGED <<phase, mail, departed, boots>>
    BY <1>2 DEF Trickle
  <2>2. x \in Message /\ x # Starting
    BY MessagesApart DEF Typed, SignalKind
  <2> HIDE DEF x
  <2>3. inbox' \in [Member -> Seq(Message)] /\ \A r \in Member : Count(inbox'[r]) = Count(inbox[r])
    BY <1>1, <2>1, <2>2, PostTyped DEF Typed
  <2>4. edge' = [edge EXCEPT ![p][q] = [edge[p][q] EXCEPT !.told = TRUE]]
    BY <2>1
  <2>5. edge' \in [Member -> [Member -> Edge]]
    BY <1>1, <2>4, EdgesTyped DEF Typed
  <2>6. Accounted'
    BY <1>1, <2>1, <2>3, StillAccounted
  <2> QED
    BY <1>1, <2>1, <2>3, <2>5, <2>6 DEF Typed, Shaped
<1>3. CASE Open(p, q)
  <2>1. /\ edge' = [edge EXCEPT ![p][q] = [edge[p][q] EXCEPT !.open = TRUE]]
        /\ mail' = Sent(p, {q}, Hello)
        /\ UNCHANGED <<inbox, phase, departed, boots>>
    BY <1>3 DEF Open
  <2>2. mail' \in [Member -> [Member -> Seq(Control)]]
    BY <2>1, SentTyped, ControlTyped DEF Typed
  <2>3. edge' \in [Member -> [Member -> Edge]]
    BY <1>1, <2>1, EdgesTyped DEF Typed
  <2>4. Accounted'
    BY <1>1, <2>1, StillAccounted
  <2> QED
    BY <1>1, <2>1, <2>2, <2>3, <2>4 DEF Typed, Shaped
<1>4. CASE Handshake(p, q)
  <2>1. /\ mail[p][q] # <<>> /\ mail' = [mail EXCEPT ![p][q] = Tail(mail[p][q])]
        /\ edge' = [edge EXCEPT ![p][q] = [edge[p][q] EXCEPT !.done = TRUE]]
        /\ departed' = [departed EXCEPT ![p] = departed[p] \ {q}]
        /\ phase' = [phase EXCEPT ![p] = "boot"] \/ phase' = phase
        /\ UNCHANGED <<inbox, boots>>
    BY <1>4 DEF Handshake
  <2>2. mail[p][q] \in Seq(Control) /\ Tail(mail[p][q]) \in Seq(Control)
    BY <1>1, <2>1 DEF Typed
  <2>3. edge' \in [Member -> [Member -> Edge]] /\ mail' \in [Member -> [Member -> Seq(Control)]]
    BY <1>1, <2>1, <2>2, EdgesTyped DEF Typed
  <2>4. phase' \in [Member -> Phase] /\ \A r \in Member : phase'[r] # "out" => phase[r] # "out"
    BY <1>1, <2>1 DEF Typed, Phase
  <2>5. Accounted'
    BY <1>1, <2>1, <2>4, StillAccounted
  <2> QED
    BY <1>1, <2>1, <2>3, <2>4, <2>5 DEF Typed, Shaped
<1>5. CASE Receive(p, q)
  <2>1. /\ mail[p][q] # <<>> /\ mail' = [mail EXCEPT ![p][q] = Tail(mail[p][q])]
        /\ boots' = [boots EXCEPT ![p][q] = Head(mail[p][q]).of]
        /\ phase' = [phase EXCEPT ![p] = "linked"] \/ phase' = phase
        /\ UNCHANGED <<inbox, edge, departed>>
    BY <1>5 DEF Receive
  <2>2. mail[p][q] \in Seq(Control) /\ Tail(mail[p][q]) \in Seq(Control)
        /\ Head(mail[p][q]) \in Control
    BY <1>1, <2>1 DEF Typed
  <2>3. Head(mail[p][q]).of \in Build
    BY <2>2, ControlTyped
  <2>4. boots' \in [Member -> [Member -> Build]] /\ mail' \in [Member -> [Member -> Seq(Control)]]
    BY <1>1, <2>1, <2>2, <2>3 DEF Typed
  <2>5. phase' \in [Member -> Phase] /\ \A r \in Member : phase'[r] # "out" => phase[r] # "out"
    BY <1>1, <2>1 DEF Typed, Phase
  <2>6. Accounted'
    BY <1>1, <2>1, <2>5, StillAccounted
  <2> QED
    BY <1>1, <2>1, <2>4, <2>5, <2>6 DEF Typed, Shaped
<1> QED
  BY <1>2, <1>3, <1>4, <1>5

LEMMA CaptureShaped ==
  ASSUME Typed, Accounted, NEW p \in Member, Capture(p)
  PROVE  Shaped
<1>1. /\ phase[p] # "out" /\ phase' = [phase EXCEPT ![p] = "exchange"]
      /\ mail' = Sent(p, Peers(p), Boot(merge[p]))
      /\ boots' = [boots EXCEPT ![p][p] = merge[p]]
      /\ UNCHANGED <<merges, asks, inbox, merge, stray, edge, departed, upsets>>
  BY DEF Capture, server, local
<1>2. Boot(merge[p]) \in Control
  BY ControlTyped DEF Typed
<1>3. mail' \in [Member -> [Member -> Seq(Control)]]
  <2> DEFINE x == Boot(merge[p])
  <2>1. x \in Control /\ mail' = Sent(p, Peers(p), x)
    BY <1>1, <1>2
  <2> HIDE DEF x
  <2> QED
    BY <2>1, SentTyped DEF Typed
<1>4. Accounted'
  BY <1>1, StillAccounted DEF Typed
<1> QED
  BY <1>1, <1>3, <1>4 DEF Typed, Shaped, Phase

LEMMA LeaveShaped ==
  ASSUME Typed, Accounted, NEW p \in Member, Leave(p)
  PROVE  Shaped
<1>1. /\ phase[p] # "out" /\ Quits(p, "out") /\ upsets < MaxUpsets /\ upsets' = upsets + 1
      /\ inbox' = [q \in Member |->
                     IF q = p THEN <<>> ELSE Heading(inbox, q, PeerLeft(p))]
      /\ UNCHANGED <<merges, asks, merge, stray>>
  BY DEF Leave, Upset, server, local
<1>2. "out" \in Phase
  BY DEF Phase
<1>3. PeerLeft(p) \in Message /\ PeerLeft(p) # Starting
  BY MessagesApart
<1>4. ASSUME NEW q \in Member
      PROVE  inbox'[q] \in Seq(Message) /\ (q # p => Count(inbox'[q]) = Count(inbox[q]))
  <2>1. inbox[q] \in Seq(Message) /\ Append(inbox[q], PeerLeft(p)) \in Seq(Message)
    BY <1>3 DEF Typed
  <2>2. Count(Append(inbox[q], PeerLeft(p))) = Count(inbox[q])
    BY <1>3, <2>1, CountOfAppend
  <2>3. inbox'[q] = IF q = p THEN <<>>
                    ELSE IF phase[q] = "out" THEN inbox[q] ELSE Append(inbox[q], PeerLeft(p))
    BY <1>1 DEF Heading
  <2> QED
    BY <2>1, <2>2, <2>3
<1>5. inbox' \in [Member -> Seq(Message)]
  BY <1>1, <1>4
<1>6. phase'[p] = "out" /\ upsets' \in 0 .. MaxUpsets
  BY <1>1, BuildsAreNumbers DEF Typed, Quits
<1>7. Accounted'
  BY <1>1, <1>2, <1>4, <1>6, QuitsShaped, StillAccounted
<1> QED
  BY <1>1, <1>2, <1>5, <1>6, <1>7, QuitsShaped DEF Typed, Shaped

LEMMA MeshTypeHolds ==
  Typed /\ Accounted /\ [Next]_vars => Typed' /\ Accounted'
<1> SUFFICES ASSUME Typed, Accounted, [Next]_vars
             PROVE  Shaped
  BY DEF Shaped
<1>1. CASE Remerge
  BY <1>1, RemergeShaped
<1>2. ASSUME NEW p \in Member, Lobby(p) \/ Leave(p)
      PROVE  Shaped
  BY <1>2, LobbyShaped, LeaveShaped
<1>3. ASSUME NEW p \in Member, Reads(p) \/ Exchanges(p)
      PROVE  Shaped
  <2>1. CASE GraceEnds(p)
    <3>1. phase[p] # "out" /\ GivesUp(p) /\ upsets' = upsets
      BY <2>1 DEF GraceEnds, Building
    <3> QED
      BY <3>1, GivesUpShaped DEF Typed
  <2> QED
    BY <1>3, <2>1, HearStartingShaped, HeardShaped, ChannelShaped, CaptureShaped
    DEF Reads, Exchanges
<1>4. ASSUME NEW p \in Member,
             Breaks(p) \/ MeshTimeout(p) \/ ExchangeTimeout(p) \/ EdgeFails(p)
      PROVE  Shaped
  <2>1. /\ phase[p] # "out" /\ GivesUp(p)
        /\ \/ upsets' = upsets
           \/ upsets < MaxUpsets /\ upsets' = upsets + 1
    BY <1>4, SMTT(30) DEF Breaks, ChannelClosed, ConnectionFailed, MeshTimeout, ExchangeTimeout,
                EdgeFails, Building, Upset
  <2>2. upsets' \in 0 .. MaxUpsets
    BY <2>1, BuildsAreNumbers DEF Typed
  <2> QED
    BY <2>1, <2>2, GivesUpShaped
<1>5. CASE UNCHANGED vars
  BY <1>5 DEF vars, Typed, Accounted, Shaped
<1> QED
  BY <1>1, <1>2, <1>3, <1>4, <1>5 DEF Next

LEMMA MeshTypeStarts ==
  Init => Typed /\ Accounted
<1> SUFFICES ASSUME Init
             PROVE  Typed /\ Accounted
  OBVIOUS
<1>1. <<Starting>> \in Seq(Message) /\ <<>> \in Seq(Control)
  BY MessagesApart
<1>2. Count(<<Starting>>) = 1
  <2>1. <<>> \in Seq(Message) /\ Starting \in Message
    BY MessagesApart
  <2>2. Starts(<<>>) = {}
    BY DEF Starts
  <2>3. Count(<<>>) = 0
    BY <2>2, FS_EmptySet DEF Count
  <2>4. Count(Append(<<>>, Starting)) = 1
    <3>1. \A s \in Seq(Message) : Count(s) = 0 => Count(Append(s, Starting)) = 1
      BY <2>1, CountOfAppend
    <3> QED
      BY <2>1, <2>3, <3>1
  <2>5. <<Starting>> = Append(<<>>, Starting)
    OBVIOUS
  <2> QED
    BY <2>4, <2>5
<1>3. Typed
  BY <1>1, EdgesTyped, BuildsAreNumbers, MeshAssumption DEF Init, Typed, Phase
<1>4. Accounted
  BY <1>2 DEF Init, Accounted
<1> QED
  BY <1>3, <1>4

\* For any number of members, merges and failures: records and queues keep their
\* shapes, and no Starting is lost or heard twice (net/lobby.rs: what a build sets
\* aside in strays is replayed by the lobby).
THEOREM MeshTypes ==
  Spec => []MeshTypeOK
<1>1. Typed /\ Accounted => MeshTypeOK
  BY MeshTypeParts
<1> QED
  BY <1>1, MeshTypeStarts, MeshTypeHolds, PTL DEF Spec

-----------------------------------------------------------------------------
(* Equal payloads *)

\* q speaks to no older build of p than the one there is: what q has open
\* towards p belongs to it.
Meets(q, p) == edge[q][p].open => edge[q][p].remote = merge[p]

\* q has sent out the payload of its build m, and whoever has a channel to q
\* open has it to that build or a newer one.
Captured(q, m) ==
  /\ m # 0 /\ m <= merge[q]
  /\ \A s \in Peers(q) : edge[s][q].open => m <= edge[s][q].remote

\* What p may find on the channel from q: a hello of a q that has met p's
\* build, and payloads of the build that p's edge is to.
Sound(p, q) ==
  {x \in Control : /\ x = Hello => Meets(q, p)
                   /\ x.type = "boot" => x.of = edge[p][q].remote /\ Captured(q, x.of)}

Sounds == \A p \in Member : \A q \in Peers(p) : mail[p][q] \in Seq(Sound(p, q))

Links ==
  \A p \in Member :
    /\ Holds(p) => merge[p] # 0
    /\ \A q \in Peers(p) :
         /\ edge[p][q].done => edge[p][q].open /\ Meets(q, p)
         /\ edge[p][q].open => edge[p][q].remote # 0 /\ Holds(p)
         /\ edge[p][q].remote = 0 => mail[p][q] = <<>>

Meshed == {"boot", "exchange", "linked"}

Payloads ==
  \A p \in Member :
    /\ phase[p] \in Meshed => \A q \in Peers(p) : edge[p][q].done
    /\ phase[p] \in Meshed \ {"boot"} => boots[p][p] = merge[p]
    /\ phase[p] = "linked" => \A q \in Member : boots[p][q] # 0
    /\ \A q \in Peers(p) : boots[p][q] # 0 =>
         /\ phase[p] \in Meshed \ {"boot"}
         /\ boots[p][q] = edge[p][q].remote /\ Captured(q, boots[p][q])

\* SameBoots holds because a payload goes out only when every peer has met the
\* build it is of: whoever met a third player met no older build of it than the
\* one whose payload another has, and so both met the same.
MeetInv == Typed /\ Links /\ Sounds /\ Payloads

LEMMA MeetMeansSame ==
  MeetInv => SameBoots
<1> SUFFICES ASSUME MeetInv, NEW p \in Member, NEW q \in Member,
                    phase[p] = "linked", phase[q] = "linked", p # q => Paired(p, q)
             PROVE  boots[p] = boots[q]
  BY DEF SameBoots
<1>1. CASE p = q
  BY <1>1
<1>2. CASE p # q
  <2>1. /\ edge[p][q].remote = merge[q] /\ edge[q][p].remote = merge[p]
        /\ p \in Peers(q) /\ q \in Peers(p)
    BY <1>2 DEF Paired, Peers
  <2>2. /\ boots[p][p] = merge[p] /\ boots[q][q] = merge[q]
        /\ boots[p][q] = merge[q] /\ boots[q][p] = merge[p]
    BY <2>1 DEF MeetInv, Payloads, Meshed
  <2>3. ASSUME NEW r \in Member, r # p, r # q
        PROVE  boots[p][r] = boots[q][r]
    <3>1. r \in Peers(p) /\ r \in Peers(q) /\ p \in Peers(r) /\ q \in Peers(r)
      BY <2>3 DEF Peers
    <3>2. /\ boots[p][r] # 0 /\ boots[p][r] = edge[p][r].remote /\ Captured(r, boots[p][r])
          /\ boots[q][r] # 0 /\ boots[q][r] = edge[q][r].remote /\ Captured(r, boots[q][r])
      BY <3>1 DEF MeetInv, Payloads
    <3>3. edge[p][r].open /\ edge[q][r].open
      BY <3>1 DEF MeetInv, Payloads, Links, Meshed
    <3>4. boots[p][r] <= boots[q][r] /\ boots[q][r] <= boots[p][r]
      BY <3>1, <3>2, <3>3 DEF Captured
    <3>5. boots[p][r] \in Nat /\ boots[q][r] \in Nat
      BY BuildsAreNumbers DEF MeetInv, Typed
    <3> QED
      BY <3>4, <3>5
  <2>4. \A r \in Member : boots[p][r] = boots[q][r]
    BY <2>2, <2>3
  <2> QED
    BY <2>4 DEF MeetInv, Typed
<1> QED
  BY <1>1, <1>2

-----------------------------------------------------------------------------
(* What no step undoes *)

\* Builds only grow, and a channel that is open was, to the same build, or is to
\* the newest.
Grows ==
  \A q \in Member :
    /\ merge[q] \in Nat /\ merge'[q] \in Nat /\ merge[q] <= merge'[q]
    /\ \A s \in Peers(q) : edge'[s][q].open =>
         \/ edge[s][q].open /\ edge'[s][q].remote = edge[s][q].remote
         \/ edge'[s][q].remote = merge'[q]

LEMMA CapturedStays ==
  ASSUME Grows, NEW q \in Member, NEW m \in Nat, Captured(q, m)
  PROVE  Captured(q, m)'
BY DEF Grows, Captured, Peers

LEMMA MeetsStays ==
  ASSUME Grows, NEW p \in Member, NEW q \in Peers(p), Meets(q, p), merge'[p] = merge[p]
  PROVE  Meets(q, p)'
BY DEF Grows, Meets, Peers

LEMMA SoundStays ==
  ASSUME Grows, NEW p \in Member, NEW q \in Peers(p),
         merge'[p] = merge[p], edge'[p][q].remote = edge[p][q].remote
  PROVE  Sound(p, q) \subseteq Sound(p, q)'
<1> SUFFICES ASSUME NEW x \in Sound(p, q)
             PROVE  x \in Sound(p, q)'
  OBVIOUS
<1>1. x \in Control /\ x \in Control' /\ x.of \in Nat /\ q \in Member
  BY ControlTyped, BuildsAreNumbers DEF Sound, Peers, Control, Build, Member, Hello, End, Boot
<1>2. x = Hello => Meets(q, p)'
  BY MeetsStays DEF Sound
<1>3. x.type = "boot" => x.of = edge'[p][q].remote /\ Captured(q, x.of)'
  <2> SUFFICES ASSUME x.type = "boot"
               PROVE  x.of = edge'[p][q].remote /\ Captured(q, x.of)'
    OBVIOUS
  <2>1. x.of = edge[p][q].remote /\ Captured(q, x.of)
    BY DEF Sound
  <2> DEFINE m == x.of
  <2>2. m \in Nat /\ Captured(q, m)
    BY <1>1, <2>1
  <2> HIDE DEF m
  <2>3. Captured(q, m)'
    BY <1>1, <2>2, CapturedStays
  <2> QED
    BY <2>1, <2>3 DEF m
<1> QED
  BY <1>1, <1>2, <1>3 DEF Sound, Hello

LEMMA EndIsSound ==
  \A p, q : End \in Sound(p, q) /\ End \in Sound(p, q)'
BY ControlTyped DEF Sound, End, Hello, Control, Boot

\* A channel may be emptied, read, or written to with what is sound.
LEMMA SoundsHold ==
  ASSUME Grows, Sounds,
         \A p \in Member : \A q \in Peers(p) :
           \/ mail'[p][q] = <<>>
           \/ /\ merge'[p] = merge[p] /\ edge'[p][q].remote = edge[p][q].remote
              /\ \/ mail'[p][q] = mail[p][q]
                 \/ mail[p][q] # <<>> /\ mail'[p][q] = Tail(mail[p][q])
                 \/ \E x \in Sound(p, q)' :
                      mail'[p][q] \in {Append(mail[p][q], x), Append(<<>>, x)}
  PROVE  Sounds'
<1> SUFFICES ASSUME NEW p \in Member, NEW q \in Peers(p)
             PROVE  mail'[p][q] \in Seq(Sound(p, q)')
  BY DEF Sounds, Peers, Member
<1>1. CASE mail'[p][q] = <<>>
  BY <1>1
<1>2. CASE /\ merge'[p] = merge[p] /\ edge'[p][q].remote = edge[p][q].remote
           /\ \/ mail'[p][q] = mail[p][q]
              \/ mail[p][q] # <<>> /\ mail'[p][q] = Tail(mail[p][q])
              \/ \E x \in Sound(p, q)' :
                   mail'[p][q] \in {Append(mail[p][q], x), Append(<<>>, x)}
  <2>1. Sound(p, q) \subseteq Sound(p, q)'
    BY <1>2, SoundStays
  <2> DEFINE S == Sound(p, q)
             T == Sound(p, q)'
  <2>2. mail[p][q] \in Seq(S) /\ S \subseteq T
    BY <2>1 DEF Sounds
  <2>3. \/ mail'[p][q] = mail[p][q]
        \/ mail[p][q] # <<>> /\ mail'[p][q] = Tail(mail[p][q])
        \/ \E x \in T : mail'[p][q] \in {Append(mail[p][q], x), Append(<<>>, x)}
    BY <1>2
  <2> HIDE DEF S, T
  <2>4. mail[p][q] \in Seq(T)
    BY <2>2, SeqGrows
  <2>5. mail'[p][q] \in Seq(T)
    <3>1. CASE mail'[p][q] = mail[p][q]
      BY <2>4, <3>1
    <3>2. CASE mail[p][q] # <<>> /\ mail'[p][q] = Tail(mail[p][q])
      BY <2>4, <3>2
    <3>3. CASE \E x \in T : mail'[p][q] \in {Append(mail[p][q], x), Append(<<>>, x)}
      <4>1. PICK x \in T : mail'[p][q] \in {Append(mail[p][q], x), Append(<<>>, x)}
        BY <3>3
      <4>2. Append(mail[p][q], x) \in Seq(T) /\ Append(<<>>, x) \in Seq(T)
        BY <2>4
      <4> QED
        BY <4>1, <4>2
    <3> QED
      BY <2>3, <3>1, <3>2, <3>3
  <2> QED
    BY <2>5 DEF T
<1> QED
  BY <1>1, <1>2

-----------------------------------------------------------------------------
(* What an action has to show, beside the shapes *)

Meeting == Links' /\ Sounds' /\ Payloads'

LEMMA MeetingNumbers ==
  ASSUME Typed, NEW p \in Member
  PROVE  /\ merge[p] \in Nat
         /\ \A q \in Member : /\ edge[p][q] \in Edge /\ edge[p][q].remote \in Nat
                              /\ boots[p][q] \in Nat
                              /\ mail[p][q] \in Seq(Control)
<1>1. merge[p] \in Build
  BY DEF Typed
<1>2. ASSUME NEW q \in Member
      PROVE  /\ edge[p][q] \in Edge /\ edge[p][q].remote \in Build
             /\ boots[p][q] \in Build /\ mail[p][q] \in Seq(Control)
  <2>1. edge[p][q] \in Edge /\ boots[p][q] \in Build /\ mail[p][q] \in Seq(Control)
    BY DEF Typed
  <2> QED
    BY <2>1 DEF Edge
<1> QED
  BY <1>1, <1>2, BuildsAreNumbers

\* A payload that a player has stays one that was sent out.
LEMMA PayloadStays ==
  ASSUME MeetInv, Grows, NEW p \in Member, NEW q \in Peers(p),
         boots[p][q] # 0, boots'[p][q] = boots[p][q]
  PROVE  Captured(q, boots[p][q])'
<1>1. PICK n \in Nat : n = boots[p][q]
  BY MeetingNumbers DEF MeetInv, Peers
<1>2. Captured(q, n)'
  <2>1. Captured(q, n)
    BY <1>1 DEF MeetInv, Payloads
  <2> QED
    BY <2>1, CapturedStays DEF Peers
<1> QED
  BY <1>1, <1>2 DEF Captured

\* One edge changes.
LEMMA OneEdge ==
  ASSUME Typed, NEW p \in Member, NEW q \in Member, NEW f, edge' = [edge EXCEPT ![p][q] = f]
  PROVE  /\ edge'[p][q] = f
         /\ \A r \in Member : \A s \in Member : r # p \/ s # q => edge'[r][s] = edge[r][s]
BY DEF Typed

\* A step of no consequence for connections and payloads.
LEMMA MildMeets ==
  ASSUME MeetInv, UNCHANGED <<merge, mail, boots>>,
         \A p \in Member : \A q \in Peers(p) :
           /\ edge'[p][q].remote = edge[p][q].remote
           /\ edge'[p][q].open = edge[p][q].open /\ edge'[p][q].done = edge[p][q].done,
         \A p \in Member : \/ phase'[p] = phase[p]
                           \/ {phase[p], phase'[p]} \cap {"build", "boot", "exchange", "linked"} = {}
  PROVE  Meeting
<1>1. Grows
  BY MeetingNumbers DEF MeetInv, Grows, Peers
<1>2. Sounds'
  BY <1>1, SoundsHold DEF MeetInv
<1>3. ASSUME NEW p \in Member
      PROVE  (Holds(p)' <=> Holds(p)) /\ (phase'[p] = phase[p] \/ phase'[p] \notin Meshed)
  BY DEF Holds, Meshed
<1>4. Links'
  <2> SUFFICES ASSUME NEW p \in Member
               PROVE  /\ Holds(p)' => merge'[p] # 0
                      /\ \A q \in Peers(p) :
                           /\ edge'[p][q].done => edge'[p][q].open /\ Meets(q, p)'
                           /\ edge'[p][q].open => edge'[p][q].remote # 0 /\ Holds(p)'
                           /\ edge'[p][q].remote = 0 => mail'[p][q] = <<>>
    BY DEF Links, Peers, Member
  <2>1. \A q \in Peers(p) : edge[p][q].done => Meets(q, p)'
    BY <1>1, MeetsStays DEF MeetInv, Links
  <2> QED
    BY <1>3, <2>1 DEF MeetInv, Links
<1>5. Payloads'
  <2> SUFFICES ASSUME NEW p \in Member
               PROVE  /\ phase'[p] \in Meshed => \A q \in Peers(p) : edge'[p][q].done
                      /\ phase'[p] \in Meshed \ {"boot"} => boots'[p][p] = merge'[p]
                      /\ phase'[p] = "linked" => \A q \in Member : boots'[p][q] # 0
                      /\ \A q \in Peers(p) : boots'[p][q] # 0 =>
                           /\ phase'[p] \in Meshed \ {"boot"}
                           /\ boots'[p][q] = edge'[p][q].remote /\ Captured(q, boots[p][q])'
    BY DEF Payloads, Peers, Member, Meshed
  <2>1. \A q \in Peers(p) : boots[p][q] # 0 => Captured(q, boots[p][q])'
    BY <1>1, PayloadStays
  <2>2. phase[p] \in Meshed => phase'[p] = phase[p]
    BY DEF Meshed
  <2> QED
    BY <1>3, <2>1, <2>2 DEF MeetInv, Payloads, Meshed
<1> QED
  BY <1>2, <1>4, <1>5 DEF Meeting

\* p drops its connections, for good or to begin another build.
LEMMA ResetMeets ==
  ASSUME MeetInv, NEW p \in Member, NEW to \in Phase \ Meshed, NEW m \in Nat,
         merge[p] <= m, to = "build" => m # 0,
         phase' = [phase EXCEPT ![p] = to], merge' = [merge EXCEPT ![p] = m],
         TornDown(p), Forgets(p), NEW lossy \in BOOLEAN, mail' = Hangs(p, lossy)
  PROVE  Meeting
<1>1. /\ edge' = [edge EXCEPT ![p] = [q \in Member |-> FreshEdge]]
      /\ boots' = [boots EXCEPT ![p] = [q \in Member |-> 0]]
      /\ ~FreshEdge.open /\ ~FreshEdge.done /\ FreshEdge.remote = 0
  BY DEF TornDown, Forgets, FreshEdge
<1>2. /\ \A q \in Member : ~edge'[p][q].open /\ ~edge'[p][q].done /\ boots'[p][q] = 0
      /\ \A r \in Member \ {p} : edge'[r] = edge[r] /\ boots'[r] = boots[r]
                                 /\ phase'[r] = phase[r] /\ merge'[r] = merge[r]
      /\ phase'[p] = to /\ merge'[p] = m
  BY <1>1 DEF MeetInv, Typed
<1>3. Grows
  <2>1. \A q \in Member : merge[q] \in Nat /\ merge'[q] \in Nat /\ merge[q] <= merge'[q]
    BY <1>2, MeetingNumbers DEF MeetInv
  <2> QED
    BY <1>2, <2>1 DEF Grows, Peers
<1>4. \A q \in Member : mail'[p][q] = <<>>
  BY DEF Hangs
<1>5. ASSUME NEW r \in Member \ {p}, NEW q \in Peers(r)
      PROVE  \/ mail'[r][q] = mail[r][q]
             \/ /\ q = p /\ Paired(p, r)
                /\ mail'[r][q] \in {Append(mail[r][q], End), Append(<<>>, End)}
  BY DEF Hangs, MeetInv, Typed, Peers
<1>6. Sounds'
  <2>1. ASSUME NEW r \in Member, NEW q \in Peers(r)
        PROVE  \/ mail'[r][q] = <<>>
               \/ /\ merge'[r] = merge[r] /\ edge'[r][q].remote = edge[r][q].remote
                  /\ \/ mail'[r][q] = mail[r][q]
                     \/ mail[r][q] # <<>> /\ mail'[r][q] = Tail(mail[r][q])
                     \/ \E x \in Sound(r, q)' :
                          mail'[r][q] \in {Append(mail[r][q], x), Append(<<>>, x)}
    <3>1. CASE r = p
      BY <1>4, <3>1 DEF Peers
    <3>2. CASE r # p
      <4>1. r \in Member \ {p}
        BY <3>2
      <4> QED
        BY <1>2, <1>5, <4>1, EndIsSound
    <3> QED
      BY <3>1, <3>2
  <2> QED
    BY <1>3, <2>1, SoundsHold DEF MeetInv
<1>7. Links'
  <2> SUFFICES ASSUME NEW r \in Member
               PROVE  /\ Holds(r)' => merge'[r] # 0
                      /\ \A q \in Peers(r) :
                           /\ edge'[r][q].done => edge'[r][q].open /\ Meets(q, r)'
                           /\ edge'[r][q].open => edge'[r][q].remote # 0 /\ Holds(r)'
                           /\ edge'[r][q].remote = 0 => mail'[r][q] = <<>>
    BY DEF Links, Peers, Member
  <2>1. CASE r = p
    BY <1>2, <1>4, <2>1 DEF Holds, Meshed, Peers
  <2>2. CASE r # p
    <3>1. Holds(r)' = Holds(r)
      BY <1>2, <2>2 DEF Holds
    <3>2. ASSUME NEW q \in Peers(r), edge[r][q].done
          PROVE  Meets(q, r)'
      <4>1. Meets(q, r)
        BY <3>2 DEF MeetInv, Links
      <4> QED
        BY <1>2, <1>3, <2>2, <4>1, MeetsStays
    <3>3. ASSUME NEW q \in Peers(r), edge'[r][q].remote = 0
          PROVE  mail'[r][q] = <<>>
      <4>1. mail[r][q] = <<>> /\ edge[r][q].remote = 0 /\ r \in Member \ {p}
        BY <1>2, <2>2, <3>3 DEF MeetInv, Links
      <4>2. ~(q = p /\ Paired(p, r))
        BY <4>1 DEF Paired, MeetInv, Links
      <4> QED
        BY <1>5, <4>1, <4>2
    <3> QED
      BY <1>2, <2>2, <3>1, <3>2, <3>3 DEF MeetInv, Links
  <2> QED
    BY <2>1, <2>2
<1>8. Payloads'
  <2> SUFFICES ASSUME NEW r \in Member
               PROVE  /\ phase'[r] \in Meshed => \A q \in Peers(r) : edge'[r][q].done
                      /\ phase'[r] \in Meshed \ {"boot"} => boots'[r][r] = merge'[r]
                      /\ phase'[r] = "linked" => \A q \in Member : boots'[r][q] # 0
                      /\ \A q \in Peers(r) : boots'[r][q] # 0 =>
                           /\ phase'[r] \in Meshed \ {"boot"}
                           /\ boots'[r][q] = edge'[r][q].remote /\ Captured(q, boots[r][q])'
    BY <1>2 DEF Payloads, Peers, Member, Meshed
  <2>1. CASE r = p
    BY <1>2, <2>1 DEF Meshed, Peers
  <2>2. CASE r # p
    <3>1. ASSUME NEW q \in Peers(r), boots[r][q] # 0
          PROVE  Captured(q, boots[r][q])'
      BY <1>2, <1>3, <2>2, <3>1, PayloadStays
    <3> QED
      BY <1>2, <2>2, <3>1 DEF MeetInv, Payloads
  <2> QED
    BY <2>1, <2>2
<1> QED
  BY <1>6, <1>7, <1>8 DEF Meeting

\* A description goes in where no channel is open yet.
LEMMA DescribedMeets ==
  ASSUME MeetInv, NEW p \in Member, NEW q \in Peers(p), NEW m,
         phase[p] = "build", ~edge[p][q].open,
         edge' = [edge EXCEPT ![p][q] = Described(edge[p][q], m)],
         \/ mail' = [mail EXCEPT ![p][q] = <<>>]
         \/ mail' = mail /\ edge[p][q].remote = 0,
         UNCHANGED <<phase, merge, boots>>
  PROVE  Meeting
<1>1. /\ ~edge'[p][q].open /\ ~edge'[p][q].done /\ mail'[p][q] = <<>>
      /\ \A r \in Member : \A s \in Peers(r) :
           r # p \/ s # q => edge'[r][s] = edge[r][s] /\ mail'[r][s] = mail[r][s]
      /\ \A r \in Member : Holds(r)' = Holds(r)
  <2>1. q \in Member /\ edge[p][q] \in Edge
    BY MeetingNumbers DEF MeetInv, Peers
  <2>2. Described(edge[p][q], m).open = edge[p][q].open /\ Described(edge[p][q], m).done = edge[p][q].done
    BY <2>1 DEF Described, Edge
  <2>3. edge'[p][q] = Described(edge[p][q], m)
    BY <2>1 DEF MeetInv, Typed
  <2>4. ~edge[p][q].done
    BY DEF MeetInv, Links
  <2>5. mail'[p][q] = <<>>
    BY <2>1 DEF MeetInv, Links, Typed
  <2>6. \A r \in Member : \A s \in Peers(r) :
          r # p \/ s # q => edge'[r][s] = edge[r][s] /\ mail'[r][s] = mail[r][s]
    <3> SUFFICES ASSUME NEW r \in Member, NEW s \in Member, r # p \/ s # q
                 PROVE  edge'[r][s] = edge[r][s] /\ mail'[r][s] = mail[r][s]
      BY DEF Peers
    <3>1. edge'[r][s] = edge[r][s]
      BY <2>1, OneEdge DEF MeetInv
    <3>2. mail'[r][s] = mail[r][s]
      <4>1. CASE mail' = [mail EXCEPT ![p][q] = <<>>]
        BY <2>1, <4>1 DEF MeetInv, Typed
      <4> QED
        BY <4>1
    <3> QED
      BY <3>1, <3>2
  <2>7. \A r \in Member : Holds(r)' = Holds(r)
    BY DEF Holds
  <2> QED
    BY <2>2, <2>3, <2>4, <2>5, <2>6, <2>7
<1>2. Grows
  BY <1>1, MeetingNumbers DEF MeetInv, Grows, Peers
<1>3. Sounds'
  BY <1>1, <1>2, SoundsHold DEF MeetInv
<1>4. Links'
  <2> SUFFICES ASSUME NEW r \in Member
               PROVE  /\ Holds(r)' => merge'[r] # 0
                      /\ \A s \in Peers(r) :
                           /\ edge'[r][s].done => edge'[r][s].open /\ Meets(s, r)'
                           /\ edge'[r][s].open => edge'[r][s].remote # 0 /\ Holds(r)'
                           /\ edge'[r][s].remote = 0 => mail'[r][s] = <<>>
    BY DEF Links, Peers, Member
  <2>1. \A s \in Peers(r) : edge[r][s].done => Meets(s, r)'
    BY <1>2, MeetsStays DEF MeetInv, Links
  <2>2. ASSUME NEW s \in Peers(r)
        PROVE  /\ edge'[r][s].done => edge'[r][s].open /\ Meets(s, r)'
               /\ edge'[r][s].open => edge'[r][s].remote # 0 /\ Holds(r)'
               /\ edge'[r][s].remote = 0 => mail'[r][s] = <<>>
    <3>1. CASE r = p /\ s = q
      BY <1>1, <3>1
    <3>2. CASE r # p \/ s # q
      BY <1>1, <2>1, <3>2 DEF MeetInv, Links
    <3> QED
      BY <3>1, <3>2
  <2> QED
    BY <1>1, <2>2 DEF MeetInv, Links
<1>5. Payloads'
  <2> SUFFICES ASSUME NEW r \in Member
               PROVE  /\ phase'[r] \in Meshed => \A s \in Peers(r) : edge'[r][s].done
                      /\ phase'[r] \in Meshed \ {"boot"} => boots'[r][r] = merge'[r]
                      /\ phase'[r] = "linked" => \A s \in Member : boots'[r][s] # 0
                      /\ \A s \in Peers(r) : boots'[r][s] # 0 =>
                           /\ phase'[r] \in Meshed \ {"boot"}
                           /\ boots'[r][s] = edge'[r][s].remote /\ Captured(s, boots[r][s])'
    BY DEF Payloads, Peers, Member, Meshed
  <2>1. \A s \in Peers(r) : boots[r][s] # 0 => Captured(s, boots[r][s])'
    BY <1>2, PayloadStays
  <2>2. CASE r = p
    BY <2>2 DEF MeetInv, Payloads, Meshed
  <2>3. CASE r # p
    BY <1>1, <2>1, <2>3 DEF MeetInv, Payloads
  <2> QED
    BY <2>2, <2>3
<1> QED
  BY <1>3, <1>4, <1>5 DEF Meeting

LEMMA OpenMeets ==
  ASSUME MeetInv, NEW p \in Member, NEW q \in Peers(p), Open(p, q)
  PROVE  Meeting
<1>1. /\ phase[p] = "build" /\ ~edge[p][q].open /\ Paired(p, q) /\ Paired(q, p)
      /\ edge' = [edge EXCEPT ![p][q].open = TRUE] /\ mail' = Sent(p, {q}, Hello)
      /\ UNCHANGED <<phase, merge, boots>> /\ q \in Member /\ p \in Peers(q)
  BY DEF Open, Building, Joined, Paired, local, Peers
<1>2. /\ edge'[p][q].open /\ edge'[p][q].done = edge[p][q].done
      /\ edge'[p][q].remote = merge[q] /\ merge[q] # 0 /\ Holds(p)
      /\ edge[q][p].remote = merge[p] /\ merge[p] # 0
      /\ \A r \in Member : \A s \in Peers(r) :
           /\ edge'[r][s].remote = edge[r][s].remote /\ edge'[r][s].done = edge[r][s].done
           /\ r # p \/ s # q => edge'[r][s].open = edge[r][s].open
      /\ \A r \in Member : Holds(r)' = Holds(r)
  <2>1. edge[p][q] \in Edge
    BY <1>1, MeetingNumbers DEF MeetInv
  <2>2. edge'[p][q] = [edge[p][q] EXCEPT !.open = TRUE]
    BY <1>1 DEF MeetInv, Typed
  <2>3. \A r \in Member : \A s \in Peers(r) : r # p \/ s # q => edge'[r][s] = edge[r][s]
    BY <1>1 DEF MeetInv, Typed, Peers
  <2>4. /\ edge'[p][q].open /\ edge'[p][q].done = edge[p][q].done
        /\ edge'[p][q].remote = edge[p][q].remote
    BY <2>1, <2>2 DEF Edge
  <2>5. /\ edge[p][q].remote = merge[q] /\ merge[q] # 0 /\ Holds(p)
        /\ edge[q][p].remote = merge[p] /\ merge[p] # 0
    BY <1>1 DEF MeetInv, Links, Paired
  <2>6. \A r \in Member : Holds(r)' = Holds(r)
    BY <1>1 DEF Holds
  <2>7. \A r \in Member : \A s \in Peers(r) :
          /\ edge'[r][s].remote = edge[r][s].remote /\ edge'[r][s].done = edge[r][s].done
          /\ r # p \/ s # q => edge'[r][s].open = edge[r][s].open
    BY <2>3, <2>4
  <2> QED
    BY <2>4, <2>5, <2>6, <2>7
<1>3. /\ mail'[q][p] = Append(mail[q][p], Hello)
      /\ \A r \in Member : \A s \in Peers(r) : r # q \/ s # p => mail'[r][s] = mail[r][s]
  BY <1>1 DEF Sent, MeetInv, Typed, Peers
<1>4. Grows
  BY <1>1, <1>2, MeetingNumbers DEF MeetInv, Grows, Peers
<1>5. Hello \in Sound(q, p)'
  <2>1. Meets(p, q)'
    BY <1>1, <1>2 DEF Meets
  <2>2. Hello \in Control' /\ Hello.type # "boot"
    BY DEF Hello, Control
  <2> QED
    BY <2>1, <2>2 DEF Sound, Hello
<1>6. Sounds'
  <2>1. ASSUME NEW r \in Member, NEW s \in Peers(r)
        PROVE  /\ merge'[r] = merge[r] /\ edge'[r][s].remote = edge[r][s].remote
               /\ \/ mail'[r][s] = mail[r][s]
                  \/ \E x \in Sound(r, s)' :
                       mail'[r][s] \in {Append(mail[r][s], x), Append(<<>>, x)}
    <3>1. CASE r = q /\ s = p
      BY <1>1, <1>2, <1>3, <1>5, <3>1
    <3>2. CASE r # q \/ s # p
      BY <1>1, <1>2, <1>3, <3>2
    <3> QED
      BY <3>1, <3>2
  <2> QED
    BY <1>4, <2>1, SoundsHold DEF MeetInv
<1>7. Links'
  <2> SUFFICES ASSUME NEW r \in Member
               PROVE  /\ Holds(r)' => merge'[r] # 0
                      /\ \A s \in Peers(r) :
                           /\ edge'[r][s].done => edge'[r][s].open /\ Meets(s, r)'
                           /\ edge'[r][s].open => edge'[r][s].remote # 0 /\ Holds(r)'
                           /\ edge'[r][s].remote = 0 => mail'[r][s] = <<>>
    BY DEF Links, Peers, Member
  <2>1. ASSUME NEW s \in Peers(r), edge'[r][s].done
        PROVE  edge'[r][s].open /\ Meets(s, r)'
    <3>1. edge[r][s].open /\ Meets(s, r)
      BY <1>2, <2>1 DEF MeetInv, Links
    <3> QED
      BY <1>1, <1>2, <1>4, <3>1, MeetsStays
  <2>2. ASSUME NEW s \in Peers(r), edge'[r][s].open
        PROVE  edge'[r][s].remote # 0 /\ Holds(r)'
    <3>1. CASE r = p /\ s = q
      BY <1>1, <1>2, <3>1
    <3>2. CASE r # p \/ s # q
      BY <1>2, <2>2, <3>2 DEF MeetInv, Links
    <3> QED
      BY <3>1, <3>2
  <2>3. ASSUME NEW s \in Peers(r), edge'[r][s].remote = 0
        PROVE  mail'[r][s] = <<>>
    <3>1. r # q \/ s # p
      BY <1>2, <2>3
    <3> QED
      BY <1>2, <1>3, <2>3, <3>1 DEF MeetInv, Links
  <2> QED
    BY <1>1, <1>2, <2>1, <2>2, <2>3 DEF MeetInv, Links
<1>8. Payloads'
  <2> SUFFICES ASSUME NEW r \in Member
               PROVE  /\ phase'[r] \in Meshed => \A s \in Peers(r) : edge'[r][s].done
                      /\ phase'[r] \in Meshed \ {"boot"} => boots'[r][r] = merge'[r]
                      /\ phase'[r] = "linked" => \A s \in Member : boots'[r][s] # 0
                      /\ \A s \in Peers(r) : boots'[r][s] # 0 =>
                           /\ phase'[r] \in Meshed \ {"boot"}
                           /\ boots'[r][s] = edge'[r][s].remote /\ Captured(s, boots[r][s])'
    BY <1>1 DEF Payloads, Peers, Member, Meshed
  <2>1. \A s \in Peers(r) : boots[r][s] # 0 => Captured(s, boots[r][s])'
    BY <1>1, <1>4, PayloadStays
  <2> QED
    BY <1>1, <1>2, <2>1 DEF MeetInv, Payloads
<1> QED
  BY <1>6, <1>7, <1>8 DEF Meeting

LEMMA HandshakeMeets ==
  ASSUME MeetInv, NEW p \in Member, NEW q \in Peers(p), Handshake(p, q)
  PROVE  Meeting
<1>1. /\ phase[p] = "build" /\ edge[p][q].open
      /\ mail[p][q] # <<>> /\ Head(mail[p][q]) = Hello
      /\ mail' = [mail EXCEPT ![p][q] = Tail(mail[p][q])]
      /\ edge' = [edge EXCEPT ![p][q].done = TRUE]
      /\ phase' = IF Pending(p) = {q} THEN [phase EXCEPT ![p] = "boot"] ELSE phase
      /\ UNCHANGED <<merge, boots>> /\ q \in Member
  BY DEF Handshake, Building, local, Peers
<1>2. /\ edge'[p][q].done
      /\ \A r \in Member : \A s \in Peers(r) :
           /\ edge'[r][s].remote = edge[r][s].remote /\ edge'[r][s].open = edge[r][s].open
           /\ r # p \/ s # q => edge'[r][s].done = edge[r][s].done /\ mail'[r][s] = mail[r][s]
      /\ mail'[p][q] = Tail(mail[p][q])
      /\ \A r \in Member : Holds(r)' = Holds(r) /\ (r # p => phase'[r] = phase[r])
  <2>1. edge[p][q] \in Edge
    BY <1>1, MeetingNumbers DEF MeetInv
  <2>2. edge'[p][q] = [edge[p][q] EXCEPT !.done = TRUE]
    BY <1>1 DEF MeetInv, Typed
  <2>3. \A r \in Member : \A s \in Peers(r) :
          r # p \/ s # q => edge'[r][s] = edge[r][s] /\ mail'[r][s] = mail[r][s]
    BY <1>1 DEF MeetInv, Typed, Peers
  <2>4. /\ edge'[p][q].done /\ edge'[p][q].open = edge[p][q].open
        /\ edge'[p][q].remote = edge[p][q].remote
    BY <2>1, <2>2 DEF Edge
  <2>5. mail'[p][q] = Tail(mail[p][q])
    BY <1>1 DEF MeetInv, Typed
  <2>6. \A r \in Member : Holds(r)' = Holds(r) /\ (r # p => phase'[r] = phase[r])
    BY <1>1 DEF MeetInv, Typed, Holds
  <2> QED
    BY <2>3, <2>4, <2>5, <2>6
<1>3. Meets(q, p)
  <2>1. Hello \in Sound(p, q)
    <3>1. mail[p][q] \in Seq(Sound(p, q))
      BY DEF MeetInv, Sounds
    <3> QED
      BY <1>1, <3>1
  <2> QED
    BY <2>1 DEF Sound
<1>4. Grows
  BY <1>1, <1>2, MeetingNumbers DEF MeetInv, Grows, Peers
<1>5. Sounds'
  <2>1. ASSUME NEW r \in Member, NEW s \in Peers(r)
        PROVE  /\ merge'[r] = merge[r] /\ edge'[r][s].remote = edge[r][s].remote
               /\ \/ mail'[r][s] = mail[r][s]
                  \/ mail[r][s] # <<>> /\ mail'[r][s] = Tail(mail[r][s])
    BY <1>1, <1>2
  <2> QED
    BY <1>4, <2>1, SoundsHold DEF MeetInv
<1>6. Links'
  <2> SUFFICES ASSUME NEW r \in Member
               PROVE  /\ Holds(r)' => merge'[r] # 0
                      /\ \A s \in Peers(r) :
                           /\ edge'[r][s].done => edge'[r][s].open /\ Meets(s, r)'
                           /\ edge'[r][s].open => edge'[r][s].remote # 0 /\ Holds(r)'
                           /\ edge'[r][s].remote = 0 => mail'[r][s] = <<>>
    BY DEF Links, Peers, Member
  <2>1. ASSUME NEW s \in Peers(r), edge'[r][s].done
        PROVE  edge'[r][s].open /\ Meets(s, r)'
    <3>1. edge[r][s].open /\ Meets(s, r)
      BY <1>1, <1>2, <1>3, <2>1 DEF MeetInv, Links
    <3> QED
      BY <1>1, <1>2, <1>4, <3>1, MeetsStays
  <2>2. ASSUME NEW s \in Peers(r), edge'[r][s].remote = 0
        PROVE  mail'[r][s] = <<>>
    BY <1>1, <1>2, <2>2 DEF MeetInv, Links
  <2> QED
    BY <1>1, <1>2, <2>1, <2>2 DEF MeetInv, Links
<1>7. Payloads'
  <2> SUFFICES ASSUME NEW r \in Member
               PROVE  /\ phase'[r] \in Meshed => \A s \in Peers(r) : edge'[r][s].done
                      /\ phase'[r] \in Meshed \ {"boot"} => boots'[r][r] = merge'[r]
                      /\ phase'[r] = "linked" => \A s \in Member : boots'[r][s] # 0
                      /\ \A s \in Peers(r) : boots'[r][s] # 0 =>
                           /\ phase'[r] \in Meshed \ {"boot"}
                           /\ boots'[r][s] = edge'[r][s].remote /\ Captured(s, boots[r][s])'
    BY <1>1 DEF Payloads, Peers, Member, Meshed
  <2>1. \A s \in Peers(r) : boots[r][s] # 0 => Captured(s, boots[r][s])'
    BY <1>1, <1>4, PayloadStays
  <2>2. CASE r = p
    <3>1. phase'[p] = "build" \/ (phase'[p] = "boot" /\ Pending(p) = {q})
      <4>1. CASE Pending(p) = {q}
        BY <1>1, <4>1 DEF MeetInv, Typed
      <4>2. CASE Pending(p) # {q}
        <5>1. phase' = phase
          BY <1>1, <4>2, Zenon
        <5> QED
          BY <1>1, <5>1, Zenon
      <4> QED
        BY <4>1, <4>2
    <3>2. Pending(p) = {q} => \A s \in Peers(p) : edge'[p][s].done
      BY <1>2 DEF Pending
    <3>3. \A s \in Peers(p) : boots[p][s] = 0
      BY <1>1 DEF MeetInv, Payloads, Meshed
    <3> QED
      BY <1>1, <2>2, <3>1, <3>2, <3>3 DEF Meshed
  <2>3. CASE r # p
    BY <1>1, <1>2, <2>1, <2>3 DEF MeetInv, Payloads
  <2> QED
    BY <2>2, <2>3
<1> QED
  BY <1>5, <1>6, <1>7 DEF Meeting

LEMMA CaptureMeets ==
  ASSUME MeetInv, NEW p \in Member, Capture(p)
  PROVE  Meeting
<1> PICK n : n = merge[p]
  OBVIOUS
<1> DEFINE x == Boot(n)
<1>1. /\ phase[p] = "boot" /\ phase' = [phase EXCEPT ![p] = "exchange"]
      /\ mail' = Sent(p, Peers(p), x)
      /\ boots' = [boots EXCEPT ![p][p] = merge[p]]
      /\ UNCHANGED <<merge, edge>>
  BY DEF Capture, local
<1>2. n \in Nat /\ n \in Build /\ n # 0
  <2>1. merge[p] \in Build /\ Holds(p)
    BY <1>1 DEF MeetInv, Typed, Holds
  <2> QED
    BY <2>1, BuildsAreNumbers DEF MeetInv, Links
<1>3. \A q \in Peers(p) : edge[p][q].done /\ Meets(q, p)
  BY <1>1 DEF MeetInv, Payloads, Links, Meshed
<1>4. Captured(p, n)
  BY <1>2, <1>3 DEF Captured, Meets
<1>5. /\ \A r \in Member : Holds(r)' = Holds(r)
      /\ \A r \in Member \ {p} : phase'[r] = phase[r] /\ boots'[r] = boots[r]
      /\ phase'[p] = "exchange" /\ boots'[p][p] = merge[p]
      /\ \A q \in Peers(p) : boots'[p][q] = boots[p][q]
  BY <1>1 DEF MeetInv, Typed, Holds, Peers
<1>6. Grows
  BY <1>1, MeetingNumbers DEF MeetInv, Grows, Peers
<1>7. ASSUME NEW r \in Member, NEW s \in Peers(r)
      PROVE  \/ mail'[r][s] = mail[r][s]
             \/ s = p /\ Paired(p, r) /\ mail'[r][s] = Append(mail[r][s], x)
  BY <1>1 DEF Sent, MeetInv, Typed, Peers
<1>8. Sounds'
  <2>1. ASSUME NEW r \in Member, NEW s \in Peers(r)
        PROVE  /\ merge'[r] = merge[r] /\ edge'[r][s].remote = edge[r][s].remote
               /\ \/ mail'[r][s] = mail[r][s]
                  \/ \E y \in Sound(r, s)' :
                       mail'[r][s] \in {Append(mail[r][s], y), Append(<<>>, y)}
    <3>1. CASE mail'[r][s] = mail[r][s]
      BY <1>1, <3>1
    <3>2. CASE s = p /\ Paired(p, r) /\ mail'[r][s] = Append(mail[r][s], x)
      <4>1. x \in Control' /\ x # Hello /\ x.type = "boot" /\ x.of = n
        BY <1>2 DEF Boot, Hello, Control, Build
      <4>2. edge'[r][p].remote = n /\ Captured(p, n)'
        BY <1>1, <1>2, <1>4, <1>6, <3>2, CapturedStays DEF Paired
      <4> HIDE DEF x
      <4>3. x \in Sound(r, p)'
        BY <4>1, <4>2 DEF Sound, Hello
      <4> QED
        BY <1>1, <3>2, <4>3
    <3> QED
      BY <1>7, <3>1, <3>2
  <2> QED
    BY <1>6, <2>1, SoundsHold DEF MeetInv
<1> HIDE DEF x
<1>9. Links'
  <2> SUFFICES ASSUME NEW r \in Member
               PROVE  /\ Holds(r)' => merge'[r] # 0
                      /\ \A s \in Peers(r) :
                           /\ edge'[r][s].done => edge'[r][s].open /\ Meets(s, r)'
                           /\ edge'[r][s].open => edge'[r][s].remote # 0 /\ Holds(r)'
                           /\ edge'[r][s].remote = 0 => mail'[r][s] = <<>>
    BY DEF Links, Peers, Member
  <2>1. \A s \in Peers(r) : edge[r][s].done => Meets(s, r)'
    BY <1>1, <1>6, MeetsStays DEF MeetInv, Links
  <2>2. ASSUME NEW s \in Peers(r), edge'[r][s].remote = 0
        PROVE  mail'[r][s] = <<>>
    <3>1. ~(s = p /\ Paired(p, r))
      BY <1>1, <1>2, <2>2 DEF Paired
    <3> QED
      BY <1>1, <1>7, <2>2, <3>1 DEF MeetInv, Links
  <2> QED
    BY <1>1, <1>5, <2>1, <2>2 DEF MeetInv, Links
<1>10. Payloads'
  <2> SUFFICES ASSUME NEW r \in Member
               PROVE  /\ phase'[r] \in Meshed => \A s \in Peers(r) : edge'[r][s].done
                      /\ phase'[r] \in Meshed \ {"boot"} => boots'[r][r] = merge'[r]
                      /\ phase'[r] = "linked" => \A s \in Member : boots'[r][s] # 0
                      /\ \A s \in Peers(r) : boots'[r][s] # 0 =>
                           /\ phase'[r] \in Meshed \ {"boot"}
                           /\ boots'[r][s] = edge'[r][s].remote /\ Captured(s, boots[r][s])'
    BY DEF Payloads, Peers, Member, Meshed
  <2>1. \A s \in Peers(r) : boots'[r][s] = boots[r][s]
    BY <1>5 DEF Peers
  <2>2. \A s \in Peers(r) : boots[r][s] # 0 => Captured(s, boots[r][s])'
    BY <1>6, <2>1, PayloadStays
  <2>3. CASE r = p
    BY <1>1, <1>5, <2>1, <2>3 DEF MeetInv, Payloads, Meshed
  <2>4. CASE r # p
    BY <1>1, <1>5, <2>2, <2>4 DEF MeetInv, Payloads
  <2> QED
    BY <2>3, <2>4
<1> QED
  BY <1>8, <1>9, <1>10 DEF Meeting

LEMMA ReceiveMeets ==
  ASSUME MeetInv, NEW p \in Member, NEW q \in Peers(p), Receive(p, q)
  PROVE  Meeting
<1>1. /\ phase[p] = "exchange" /\ mail[p][q] # <<>> /\ Head(mail[p][q]).type = "boot"
      /\ mail' = [mail EXCEPT ![p][q] = Tail(mail[p][q])]
      /\ boots' = [boots EXCEPT ![p][q] = Head(mail[p][q]).of]
      /\ phase' = IF \A r \in Member \ {q} : boots[p][r] # 0
                  THEN [phase EXCEPT ![p] = "linked"] ELSE phase
      /\ UNCHANGED <<merge, edge>> /\ q \in Member /\ q # p
  BY DEF Receive, local, Peers
<1>2. PICK n \in Nat : /\ n = Head(mail[p][q]).of
                       /\ n = edge[p][q].remote /\ Captured(q, n)
  <2>1. mail[p][q] \in Seq(Sound(p, q))
    BY DEF MeetInv, Sounds
  <2>2. Head(mail[p][q]) \in Sound(p, q)
    BY <1>1, <2>1
  <2>3. edge[p][q].remote \in Nat
    BY <1>1, MeetingNumbers DEF MeetInv
  <2> QED
    BY <1>1, <2>2, <2>3 DEF Sound
<1>3. /\ \A r \in Member : Holds(r)' = Holds(r)
      /\ \A r \in Member \ {p} : phase'[r] = phase[r] /\ boots'[r] = boots[r]
      /\ boots'[p][q] = n /\ \A s \in Member \ {q} : boots'[p][s] = boots[p][s]
      /\ \/ phase'[p] = "exchange"
         \/ phase'[p] = "linked" /\ \A r \in Member \ {q} : boots[p][r] # 0
      /\ mail'[p][q] = Tail(mail[p][q])
      /\ \A r \in Member : \A s \in Peers(r) : r # p \/ s # q => mail'[r][s] = mail[r][s]
  <2>1. \A r \in Member : Holds(r)' = Holds(r) /\ (r # p => phase'[r] = phase[r])
    <3>1. CASE phase' = phase
      BY <3>1 DEF Holds
    <3>2. CASE phase' = [phase EXCEPT ![p] = "linked"]
      <4>1. phase[p] = "exchange" /\ phase'[p] = "linked"
        BY <1>1, <3>2 DEF MeetInv, Typed
      <4>2. \A r \in Member : r # p => phase'[r] = phase[r]
        BY <3>2 DEF MeetInv, Typed
      <4> QED
        BY <4>1, <4>2 DEF Holds
    <3> QED
      BY <1>1, <3>1, <3>2
  <2>2. boots' = [boots EXCEPT ![p][q] = n]
    BY <1>1, <1>2
  <2>3. /\ \A r \in Member \ {p} : boots'[r] = boots[r]
        /\ boots'[p][q] = n /\ \A s \in Member \ {q} : boots'[p][s] = boots[p][s]
    <3>1. boots \in [Member -> [Member -> Build]] /\ q \in Member
      BY <1>1 DEF MeetInv, Typed
    <3> QED
      BY <2>2, <3>1
  <2>4. \/ phase'[p] = "exchange"
        \/ phase'[p] = "linked" /\ \A r \in Member \ {q} : boots[p][r] # 0
    BY <1>1 DEF MeetInv, Typed
  <2>5. /\ mail'[p][q] = Tail(mail[p][q])
        /\ \A r \in Member : \A s \in Peers(r) : r # p \/ s # q => mail'[r][s] = mail[r][s]
    BY <1>1 DEF MeetInv, Typed, Peers
  <2> QED
    BY <2>1, <2>3, <2>4, <2>5
<1>4. Grows
  BY <1>1, MeetingNumbers DEF MeetInv, Grows, Peers
<1>5. Sounds'
  <2>1. ASSUME NEW r \in Member, NEW s \in Peers(r)
        PROVE  /\ merge'[r] = merge[r] /\ edge'[r][s].remote = edge[r][s].remote
               /\ \/ mail'[r][s] = mail[r][s]
                  \/ mail[r][s] # <<>> /\ mail'[r][s] = Tail(mail[r][s])
    BY <1>1, <1>3
  <2> QED
    BY <1>4, <2>1, SoundsHold DEF MeetInv
<1>6. Links'
  <2> SUFFICES ASSUME NEW r \in Member
               PROVE  /\ Holds(r)' => merge'[r] # 0
                      /\ \A s \in Peers(r) :
                           /\ edge'[r][s].done => edge'[r][s].open /\ Meets(s, r)'
                           /\ edge'[r][s].open => edge'[r][s].remote # 0 /\ Holds(r)'
                           /\ edge'[r][s].remote = 0 => mail'[r][s] = <<>>
    BY DEF Links, Peers, Member
  <2>1. \A s \in Peers(r) : edge[r][s].done => Meets(s, r)'
    BY <1>1, <1>4, MeetsStays DEF MeetInv, Links
  <2>2. ASSUME NEW s \in Peers(r), edge'[r][s].remote = 0
        PROVE  mail'[r][s] = <<>>
    BY <1>1, <1>3, <2>2 DEF MeetInv, Links
  <2> QED
    BY <1>1, <1>3, <2>1, <2>2 DEF MeetInv, Links
<1>7. Payloads'
  <2> SUFFICES ASSUME NEW r \in Member
               PROVE  /\ phase'[r] \in Meshed => \A s \in Peers(r) : edge'[r][s].done
                      /\ phase'[r] \in Meshed \ {"boot"} => boots'[r][r] = merge'[r]
                      /\ phase'[r] = "linked" => \A s \in Member : boots'[r][s] # 0
                      /\ \A s \in Peers(r) : boots'[r][s] # 0 =>
                           /\ phase'[r] \in Meshed \ {"boot"}
                           /\ boots'[r][s] = edge'[r][s].remote /\ Captured(s, boots[r][s])'
    BY DEF Payloads, Peers, Member, Meshed
  <2>1. ASSUME NEW s \in Peers(r), r # p \/ s # q, boots[r][s] # 0
        PROVE  Captured(s, boots[r][s])'
    <3>1. boots'[r][s] = boots[r][s]
      BY <1>3, <2>1 DEF Peers
    <3> QED
      BY <1>4, <2>1, <3>1, PayloadStays
  <2>2. CASE r = p
    <3>1. /\ phase[p] \in Meshed /\ phase'[p] \in Meshed \ {"boot"}
          /\ \A s \in Peers(p) : edge[p][s].done
      BY <1>1, <1>3 DEF MeetInv, Payloads, Meshed
    <3>2. boots'[p][p] = merge'[p]
      BY <1>1, <1>3 DEF MeetInv, Payloads, Meshed
    <3>3. n # 0
      BY <1>2 DEF Captured
    <3>4. ASSUME NEW s \in Peers(p), boots'[p][s] # 0
          PROVE  boots'[p][s] = edge'[p][s].remote /\ Captured(s, boots[p][s])'
      <4>1. CASE s = q
        <5>1. Captured(q, n)'
          BY <1>2, <1>4, <1>1, CapturedStays
        <5> QED
          BY <1>1, <1>2, <1>3, <4>1, <5>1 DEF Captured
      <4>2. CASE s # q
        <5>1. boots'[p][s] = boots[p][s]
          BY <1>3, <4>2 DEF Peers
        <5> QED
          BY <1>1, <2>1, <2>2, <3>4, <4>2, <5>1 DEF MeetInv, Payloads
      <4> QED
        BY <4>1, <4>2
    <3>5. phase'[p] = "linked" => \A s \in Member : boots'[p][s] # 0
      BY <1>3, <3>3
    <3> QED
      BY <1>1, <2>2, <3>1, <3>2, <3>4, <3>5
  <2>3. CASE r # p
    BY <1>1, <1>3, <2>1, <2>3 DEF MeetInv, Payloads
  <2> QED
    BY <2>2, <2>3
<1> QED
  BY <1>5, <1>6, <1>7 DEF Meeting

-----------------------------------------------------------------------------
(* The theorem *)

LEMMA QuitsMeets ==
  ASSUME MeetInv, NEW p \in Member, NEW to \in {"dance", "pause", "out"}, Quits(p, to),
         merge' = merge
  PROVE  Meeting
<1>1. PICK lossy \in BOOLEAN : mail' = Hangs(p, lossy)
  BY DEF Quits
<1>2. to \in Phase \ Meshed /\ to # "build"
  BY DEF Phase, Meshed
<1>3. PICK m \in Nat : m = merge[p]
  BY MeetingNumbers DEF MeetInv
<1>4. merge' = [merge EXCEPT ![p] = m] /\ merge[p] <= m
  BY <1>3 DEF MeetInv, Typed
<1>5. phase' = [phase EXCEPT ![p] = to] /\ TornDown(p) /\ Forgets(p)
  BY DEF Quits
<1>6. to = "build" => m # 0
  BY <1>2
<1> QED
  BY <1>1, <1>2, <1>4, <1>5, <1>6, ResetMeets

LEMMA BeginMeets ==
  ASSUME MeetInv, NEW p \in Member, Begin(p)
  PROVE  Meeting
<1>1. PICK lossy \in BOOLEAN : mail' = Hangs(p, lossy)
  BY DEF Begin
<1>2. PICK m \in Nat : m = merge[p] + 1 /\ merge[p] <= m /\ m # 0
  BY MeetingNumbers DEF MeetInv
<1>3. /\ merge' = [merge EXCEPT ![p] = m] /\ phase' = [phase EXCEPT ![p] = "build"]
      /\ TornDown(p) /\ Forgets(p)
  BY <1>2 DEF Begin
<1>4. "build" \in Phase \ Meshed
  BY DEF Phase, Meshed
<1> QED
  BY <1>1, <1>2, <1>3, <1>4, ResetMeets

LEMMA LobbyMeets ==
  ASSUME MeetInv, NEW p \in Member, Lobby(p)
  PROVE  Meeting
<1>1. CASE Overhear(p)
  <2>1. UNCHANGED <<merge, mail, boots, edge, phase>>
    BY <1>1 DEF Overhear, local
  <2> QED
    BY <2>1, MildMeets
<1>2. CASE AskAgain(p)
  <2>1. /\ phase[p] \in {"pause", "dance"} /\ phase' = [phase EXCEPT ![p] = "idle"]
        /\ UNCHANGED <<merge, mail, boots, edge>>
    BY <1>2 DEF AskAgain, local
  <2>2. \A r \in Member : \/ phase'[r] = phase[r]
                          \/ {phase[r], phase'[r]} \cap {"build", "boot", "exchange", "linked"} = {}
    BY <2>1 DEF MeetInv, Typed
  <2> QED
    BY <2>1, <2>2, MildMeets
<1>3. CASE Drop(p)
  BY <1>3, QuitsMeets DEF Drop, local
<1> QED
  BY <1>1, <1>2, <1>3, BeginMeets DEF Lobby

\* Signals and departures.
LEMMA HearsMeets ==
  ASSUME MeetInv, NEW p \in Member,
         \/ HearStarting(p) \/ HearPeerLeft(p) \/ HearStale(p) \/ HearOffer(p)
         \/ HearAnswer(p) \/ HearRefused(p) \/ HearCandidate(p)
  PROVE  Meeting
<1> DEFINE q == Head(inbox[p]).from
           m == Head(inbox[p]).of
<1>1. CASE HearStarting(p) \/ HearPeerLeft(p) \/ HearStale(p)
  <2>1. UNCHANGED <<merge, mail, boots, edge, phase>>
    BY <1>1 DEF HearStarting, HearPeerLeft, HearStale, local
  <2> QED
    BY <2>1, MildMeets
<1>2. CASE HearOffer(p) \/ HearAnswer(p)
  <2>1. /\ phase[p] = "build" /\ q \in Pending(p)
        /\ edge' = [edge EXCEPT ![p][q] = Described(edge[p][q], m)]
        /\ \/ ~edge[p][q].open /\ mail' = [mail EXCEPT ![p][q] = <<>>]
           \/ mail' = mail /\ edge[p][q].remote = 0
        /\ UNCHANGED <<phase, merge, boots>>
    BY <1>2 DEF HearOffer, HearAnswer, Hears, HasMail, Building, Head1, local
  <2>2. q \in Peers(p) /\ ~edge[p][q].open
    BY <2>1 DEF MeetInv, Links, Pending
  <2> HIDE DEF q, m
  <2> QED
    BY <2>1, <2>2, DescribedMeets
<1>3. CASE HearRefused(p)
  BY <1>3, QuitsMeets DEF HearRefused, local
<1>4. CASE HearCandidate(p)
  <2>1. /\ q \in Pending(p) /\ edge' = [edge EXCEPT ![p][q] = Supplied(edge[p][q], m)]
        /\ UNCHANGED <<phase, merge, mail, boots>>
    BY <1>4 DEF HearCandidate, Hears, Head1, local
  <2>2. q \in Member
    BY <2>1 DEF Pending, Peers
  <2> HIDE DEF q, m
  <2>3. edge[p][q] \in Edge
    BY <2>2, MeetingNumbers DEF MeetInv
  <2>4. /\ Supplied(edge[p][q], m).remote = edge[p][q].remote
        /\ Supplied(edge[p][q], m).open = edge[p][q].open
        /\ Supplied(edge[p][q], m).done = edge[p][q].done
    BY <2>3 DEF Supplied, Edge
  <2>5. \A r \in Member : \A s \in Peers(r) :
          /\ edge'[r][s].remote = edge[r][s].remote
          /\ edge'[r][s].open = edge[r][s].open /\ edge'[r][s].done = edge[r][s].done
    <3>1. PICK f : f = Supplied(edge[p][q], m)
      OBVIOUS
    <3> QED
      BY <2>1, <2>2, <2>4, <3>1 DEF MeetInv, Typed, Peers
  <2> QED
    BY <2>1, <2>5, MildMeets
<1> QED
  BY <1>1, <1>2, <1>3, <1>4

LEMMA TrickleMeets ==
  ASSUME MeetInv, NEW p \in Member, NEW q \in Peers(p), Trickle(p, q)
  PROVE  Meeting
<1>1. q \in Member /\ UNCHANGED <<phase, merge, mail, boots>>
  BY DEF Trickle, local, Peers
<1>2. edge[p][q] \in Edge
  BY <1>1, MeetingNumbers DEF MeetInv
<1>3. PICK f : /\ f.remote = edge[p][q].remote /\ f.open = edge[p][q].open
               /\ f.done = edge[p][q].done /\ edge' = [edge EXCEPT ![p][q] = f]
  <2>1. edge' = [edge EXCEPT ![p][q] = [edge[p][q] EXCEPT !.told = TRUE]]
    BY DEF Trickle
  <2> QED
    BY <1>1, <1>2, <2>1 DEF Edge
<1>4. \A r \in Member : \A s \in Peers(r) :
        /\ edge'[r][s].remote = edge[r][s].remote
        /\ edge'[r][s].open = edge[r][s].open /\ edge'[r][s].done = edge[r][s].done
  <2> SUFFICES ASSUME NEW r \in Member, NEW s \in Member
               PROVE  /\ edge'[r][s].remote = edge[r][s].remote
                      /\ edge'[r][s].open = edge[r][s].open
                      /\ edge'[r][s].done = edge[r][s].done
    BY DEF Peers
  <2>1. CASE r = p /\ s = q
    <3>1. Typed /\ q \in Member /\ edge' = [edge EXCEPT ![p][q] = f]
      BY <1>1, <1>3 DEF MeetInv
    <3>2. edge'[p][q] = f
      BY <3>1 DEF Typed
    <3> QED
      BY <1>3, <2>1, <3>2
  <2>2. CASE r # p \/ s # q
    BY <1>3, <2>2 DEF MeetInv, Typed
  <2> QED
    BY <2>1, <2>2
<1> QED
  BY <1>1, <1>4, MildMeets

LEMMA ExchangesMeet ==
  ASSUME MeetInv, NEW p \in Member, Reads(p) \/ Exchanges(p)
  PROVE  Meeting
<1>1. CASE GraceEnds(p)
  BY <1>1, QuitsMeets DEF GraceEnds, GivesUp, local
<1> QED
  BY <1>1, HearsMeets, TrickleMeets, OpenMeets, HandshakeMeets, CaptureMeets, ReceiveMeets
  DEF Reads, Exchanges

LEMMA MeetHolds ==
  MeetInv /\ Accounted /\ [Next]_vars => MeetInv' /\ Accounted'
<1> SUFFICES ASSUME MeetInv, Accounted, [Next]_vars
             PROVE  Typed' /\ Accounted' /\ Meeting
  BY DEF Meeting, MeetInv
<1>1. Typed' /\ Accounted'
  BY MeshTypeHolds DEF MeetInv
<1>2. ASSUME Remerge \/ UNCHANGED vars
      PROVE  Meeting
  <2>1. UNCHANGED <<merge, mail, boots, edge, phase>>
    BY <1>2 DEF Remerge, local, vars
  <2> QED
    BY <2>1, MildMeets
<1>3. ASSUME NEW p \in Member, Lobby(p) \/ Reads(p) \/ Exchanges(p)
      PROVE  Meeting
  BY <1>3, LobbyMeets, ExchangesMeet
<1>4. ASSUME NEW p \in Member,
             Breaks(p) \/ MeshTimeout(p) \/ ExchangeTimeout(p) \/ EdgeFails(p)
      PROVE  Meeting
  <2>1. GivesUp(p)
    BY <1>4 DEF Breaks, ChannelClosed, ConnectionFailed, MeshTimeout, ExchangeTimeout, EdgeFails
  <2> QED
    BY <2>1, QuitsMeets DEF GivesUp, local
<1>5. ASSUME NEW p \in Member, Leave(p)
      PROVE  Meeting
  BY <1>5, QuitsMeets DEF Leave, local
<1> QED
  BY <1>1, <1>2, <1>3, <1>4, <1>5 DEF Next

LEMMA MeetStarts ==
  Init => MeetInv
<1> SUFFICES ASSUME Init
             PROVE  MeetInv
  OBVIOUS
<1>1. Typed
  BY MeshTypeStarts
<1>2. Links
  BY DEF Init, Links, Holds, Peers, FreshEdge
<1>3. Sounds
  BY DEF Init, Sounds, Peers
<1>4. Payloads
  BY DEF Init, Payloads, Meshed, Peers
<1> QED
  BY <1>1, <1>2, <1>3, <1>4 DEF MeetInv

\* For any number of members, merges and failures: two players that came out of
\* the exchange and are connected hold the same payload of everybody
\* (mesh.rs exchange_boots, with the stray signals of build_inner).
THEOREM BootsAreTheSame ==
  Spec => []SameBoots
<1>1. Init => MeetInv /\ Accounted
  BY MeetStarts, MeshTypeStarts
<1> QED
  BY <1>1, MeetHolds, MeetMeansSame, PTL DEF Spec
=============================================================================
