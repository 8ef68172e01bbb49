--------------------------- MODULE NetplayProofs ---------------------------
(***************************************************************************)
(* Proofs about the netplay session, for every set of players, every queue *)
(* length with a horizon of at least twice as much, and frames lost and    *)
(* reordered in every way.                                                 *)
(***************************************************************************)
EXTENDS Netplay, TLAPS

-----------------------------------------------------------------------------
(* The inductive invariant *)

\* One edge, seen from p: what p has of q is real, what p knows that q has of
\* p is real, p is within the queue of what it has, and whatever p has of q
\* came with an ack that covers all but the queue of it.
EdgeInv(p, q) ==
  /\ inn[p][q] <= ticks[q]
  /\ acked[p][q] <= inn[q][p]
  /\ ticks[p] <= inn[p][q] + Unplug
  /\ inn[p][q] <= acked[p][q] + Unplug

\* A frame says what was true when it left, and has remained so.
FrameInv(f) ==
  /\ f.from # f.to
  /\ f.last <= ticks[f.from]
  /\ f.ack <= inn[f.from][f.to]
  /\ f.last <= f.ack + Unplug
  /\ f.base <= inn[f.to][f.from]

\* QuitIsReal, in the words of finish().
RealQuits ==
  \A p \in Player : end[p].how = "peerQuit" => Deliberate(end[end[p].who].how)

\* Whoever says Quit, or is heard to, has ended deliberately.
QuitInv ==
  /\ \A e \in quits : Deliberate(end[e[1]].how)
  /\ \A p \in Player : gone[p].how = "quit" => Deliberate(end[gone[p].who].how)
  /\ RealQuits

StreamInv ==
  /\ \A p, q \in Player : p # q => EdgeInv(p, q)
  /\ \A f \in net : FrameInv(f)
  /\ \A p \in Player : gone[p].how # "fellBehind"

-----------------------------------------------------------------------------
(* Lemmas *)

LEMMA LengthsFacts ==
  /\ Unplug \in Nat /\ Unplug > 0 /\ Horizon \in Nat
  /\ Unplug + Unplug <= Horizon
  /\ MaxTicks \in Nat /\ MaxUpsets \in Nat
  BY LengthsAssumption, BoundsAssumption

LEMMA LargerProperties ==
  \A m, n \in Nat : /\ Larger(m, n) \in Nat
                    /\ m <= Larger(m, n) /\ n <= Larger(m, n)
                    /\ Larger(m, n) = m \/ Larger(m, n) = n
  BY DEF Larger

\* An update of one entry of a table.
LEMMA TableUpdate ==
  ASSUME NEW S, NEW t \in [Player -> [Player -> S]],
         NEW p \in Player, NEW q \in Player, NEW v \in S
  PROVE  /\ [t EXCEPT ![p][q] = v] \in [Player -> [Player -> S]]
         /\ \A r, u \in Player :
              [t EXCEPT ![p][q] = v][r][u] = IF r = p /\ u = q THEN v ELSE t[r][u]
  OBVIOUS

\* A window is a frame, true of the streams it is read off.
LEMMA WindowProperties ==
  ASSUME TypeOK, NEW p \in Player, NEW q \in Peers(p), NEW n \in Nat
  PROVE  /\ Window(p, q, n) \in Frame
         /\ Window(p, q, n).from = p /\ Window(p, q, n).to = q
         /\ Window(p, q, n).base = acked[p][q]
         /\ Window(p, q, n).last = n /\ Window(p, q, n).ack = inn[p][q]
  BY DEF TypeOK, Peers, Window, Frame

-----------------------------------------------------------------------------
(* Types *)

\* Every variable keeps its type, with counters that may grow without bound.
THEOREM TypeCorrect == Spec => []TypeOK
<1>1. Init => TypeOK
  BY DEF Init, TypeOK, GoneReason, Reason
<1>2. TypeOK /\ [Next]_vars => TypeOK'
  <2> SUFFICES ASSUME TypeOK, [Next]_vars
               PROVE  TypeOK'
    OBVIOUS
  <2> USE LengthsFacts
  <2>1. ASSUME NEW p \in Player, NEW how \in Reason, NEW who \in Player,
               NEW cost \in Nat, Finish(p, how, who, cost)
        PROVE  /\ inn' = inn /\ acked' = acked /\ rx' = rx /\ gone' = gone
               /\ pulled' = pulled /\ open' = open /\ cut' = cut
               /\ end' \in [Player -> [how : Reason, who : Player]]
               /\ handoff' \in [Player -> BOOLEAN]
               /\ quits' \subseteq Player \X Player
               /\ upsets' \in Nat
    <3>1. /\ inn' = inn /\ acked' = acked /\ rx' = rx /\ gone' = gone
          /\ pulled' = pulled /\ open' = open /\ cut' = cut
      BY <2>1 DEF Finish
    <3>2. end' \in [Player -> [how : Reason, who : Player]]
      BY <2>1 DEF Finish, TypeOK
    <3>3. PICK captured \in BOOLEAN :
            /\ Upset(cost + IF captured THEN 0 ELSE 1)
            /\ handoff' = [handoff EXCEPT ![p] = Unplugs(how) /\ captured]
      BY <2>1 DEF Finish
    <3>4. handoff' \in [Player -> BOOLEAN]
      BY <3>3, Zenon DEF TypeOK, Unplugs
    <3>5. upsets' \in Nat
      BY <3>3 DEF Upset, TypeOK
    <3>6. quits' \subseteq Player \X Player
      <4>1. \A e \in quits' : e \in quits \/ \E q \in Peers(p) : e = <<p, q>>
        BY <2>1 DEF Finish
      <4>2. \A q \in Peers(p) : <<p, q>> \in Player \X Player
        BY DEF Peers
      <4> QED
        BY <4>1, <4>2 DEF TypeOK
    <3> QED
      BY <3>1, <3>2, <3>4, <3>5, <3>6
  <2>2. ASSUME NEW F, F \subseteq Frame, Post(F)
        PROVE  net' \subseteq Frame
    BY <2>2 DEF Post, TypeOK
  <2>3. ASSUME NEW p \in Player, NEW q \in Player, NEW how \in GoneReason,
               Announce(p, how, q)
        PROVE  gone' \in [Player -> [how : GoneReason, who : Player]]
    BY <2>3 DEF Announce, TypeOK
  <2>4. ASSUME NEW p \in Player, QuitGame(p)
        PROVE  TypeOK'
    <3>1. end' \in [Player -> [how : Reason, who : Player]]
      BY <2>4 DEF QuitGame, TypeOK, Reason
    <3>2. open' \in [Player -> BOOLEAN] /\ upsets' \in Nat
      BY <2>4 DEF QuitGame, Upset, TypeOK
    <3> QED
      BY <2>4, <3>1, <3>2 DEF QuitGame, streams, TypeOK
  <2>5. ASSUME NEW p \in Player, UnplugTick(p)
        PROVE  TypeOK'
    BY <2>1, <2>5 DEF UnplugTick, TypeOK, Reason
  <2>6. ASSUME NEW p \in Player, GoneTick(p)
        PROVE  TypeOK'
    <3>1. gone[p].who \in Player
      BY DEF TypeOK
    <3>2. PICK how \in Reason : Finish(p, how, gone[p].who, 0)
      BY <2>6 DEF GoneTick, Reason
    <3> QED
      BY <2>1, <2>6, <3>1, <3>2 DEF GoneTick, TypeOK
  <2>7. ASSUME NEW p \in Player, WatchdogTick(p)
        PROVE  TypeOK'
    <3>1. PICK q \in Player : Finish(p, "peerDisconnected", q, 0)
      BY <2>7 DEF WatchdogTick, Peers
    <3> QED
      BY <2>1, <2>7, <3>1 DEF WatchdogTick, TypeOK, Reason
  <2>8. ASSUME NEW p \in Player, Commit(p)
        PROVE  /\ ticks' \in [Player -> Nat]
               /\ net' \subseteq Frame
               /\ sent' \in [Player -> [Player -> BOOLEAN]]
    <3>1. ticks[p] \in Nat /\ ticks[p] + 1 \in Nat
      BY DEF TypeOK
    <3>2. {Window(p, q, ticks[p] + 1) : q \in Peers(p)} \subseteq Frame
      BY <3>1, WindowProperties
    <3>3. net' \subseteq Frame
      BY <2>2, <2>8, <3>2 DEF Commit
    <3>4. ticks' \in [Player -> Nat]
      BY <2>8, <3>1 DEF Commit, TypeOK
    <3>5. sent' \in [Player -> [Player -> BOOLEAN]]
      BY <2>8, Zenon DEF Commit, TypeOK
    <3> QED
      BY <3>3, <3>4, <3>5
  <2>9. ASSUME NEW p \in Player, AdvanceTick(p)
        PROVE  TypeOK'
    BY <2>8, <2>9 DEF AdvanceTick, transport, TypeOK
  <2>10. ASSUME NEW p \in Player, DesyncTick(p)
         PROVE  TypeOK'
    BY <2>1, <2>8, <2>10 DEF DesyncTick, TypeOK, Reason
  <2>11. ASSUME NEW p \in Player, ErrorTick(p)
         PROVE  TypeOK'
    BY <2>1, <2>11 DEF ErrorTick, TypeOK, Reason
  <2>12. ASSUME NEW p \in Player, ClosePcs(p)
         PROVE  TypeOK'
    BY <2>12 DEF ClosePcs, streams, TypeOK
  <2>13. ASSUME NEW p \in Player, NEW f \in net, Recv(p, f)
         PROVE  TypeOK'
    <3>1. f \in Frame /\ f.from \in Player /\ f.last \in Nat /\ f.ack \in Nat
      BY DEF TypeOK, Frame
    <3>2. net' \subseteq Frame
      BY <2>13 DEF Recv, TypeOK
    <3>3. /\ Larger(acked[p][f.from], f.ack) \in Nat
          /\ Larger(inn[p][f.from], f.last) \in Nat /\ inn[p][f.from] \in Nat
      <4>1. acked[p][f.from] \in Nat /\ inn[p][f.from] \in Nat
        BY <3>1 DEF TypeOK
      <4> QED
        BY <3>1, <4>1, LargerProperties
    <3>4. acked' \in [Player -> [Player -> Nat]]
      <4>1. acked' = [acked EXCEPT ![p][f.from] = Larger(acked[p][f.from], f.ack)]
        BY <2>13 DEF Recv
      <4>2. acked \in [Player -> [Player -> Nat]]
        BY DEF TypeOK
      <4> QED
        BY <3>1, <3>3, <4>1, <4>2, TableUpdate
    <3>5. CASE f.last - inn[p][f.from] > Horizon
      <4>1. gone' \in [Player -> [how : GoneReason, who : Player]]
        BY <2>3, <2>13, <3>1, <3>5 DEF Recv, GoneReason
      <4>2. rx' \in [Player -> [Player -> SUBSET {"data", "ctl"}]]
        <5>1. rx' = [rx EXCEPT ![p][f.from] = rx[p][f.from] \ {"data"}]
          BY <2>13, <3>5 DEF Recv
        <5>2. /\ rx \in [Player -> [Player -> SUBSET {"data", "ctl"}]]
              /\ rx[p][f.from] \ {"data"} \in SUBSET {"data", "ctl"}
          BY <3>1 DEF TypeOK
        <5> QED
          BY <3>1, <5>1, <5>2, TableUpdate
      <4> QED
        BY <2>13, <3>2, <3>4, <3>5, <4>1, <4>2 DEF Recv, transport, TypeOK
    <3>6. CASE ~(f.last - inn[p][f.from] > Horizon)
      <4>1. inn' \in [Player -> [Player -> Nat]]
        <5>1. PICK n \in Nat : inn' = [inn EXCEPT ![p][f.from] = n]
          BY <2>13, <3>1, <3>3, <3>6 DEF Recv
        <5>2. inn \in [Player -> [Player -> Nat]]
          BY DEF TypeOK
        <5> QED
          BY <3>1, <5>1, <5>2, TableUpdate
      <4> QED
        BY <2>13, <3>2, <3>4, <3>6, <4>1 DEF Recv, transport, TypeOK
    <3> QED
      BY <3>5, <3>6
  <2>14. ASSUME NEW p \in Player, NEW q \in Peers(p), Heartbeat(p, q)
         PROVE  TypeOK'
    <3>1. q \in Player
      BY DEF Peers
    <3>2. {Window(p, q, ticks[p])} \subseteq Frame
      BY WindowProperties DEF TypeOK
    <3>3. net' \subseteq Frame
      BY <2>2, <2>14, <3>2 DEF Heartbeat, TypeOK
    <3>4. sent' \in [Player -> [Player -> BOOLEAN]]
      BY <2>14, <3>1 DEF Heartbeat, TypeOK
    <3> QED
      BY <2>14, <3>3, <3>4 DEF Heartbeat, streams, transport, TypeOK
  <2>15. ASSUME NEW p \in Player, NEW q \in Peers(p), CtlRecv(p, q)
         PROVE  TypeOK'
    <3>1. gone' \in [Player -> [how : GoneReason, who : Player]]
      BY <2>3, <2>15 DEF CtlRecv, GoneReason, Peers
    <3>2. rx' \in [Player -> [Player -> SUBSET {"data", "ctl"}]]
      BY <2>15 DEF CtlRecv, TypeOK, Peers
    <3> QED
      BY <2>15, <3>1, <3>2 DEF CtlRecv, streams, TypeOK
  <2>16. ASSUME NEW p \in Player, NEW q \in Peers(p), NEW channel \in {"data", "ctl"},
                ChannelClosed(p, q, channel)
         PROVE  TypeOK'
    <3>1. gone' \in [Player -> [how : GoneReason, who : Player]]
      BY <2>3, <2>16 DEF ChannelClosed, GoneReason, Peers
    <3>2. rx' \in [Player -> [Player -> SUBSET {"data", "ctl"}]]
      BY <2>16 DEF ChannelClosed, TypeOK, Peers
    <3> QED
      BY <2>16, <3>1, <3>2 DEF ChannelClosed, streams, transport, TypeOK
  <2>17. ASSUME NEW p \in Player, Pull(p)
         PROVE  TypeOK'
    <3>1. pulled' \in [Player -> BOOLEAN]
      BY <2>17 DEF Pull, TypeOK
    <3>2. upsets' \in Nat
      BY <2>17 DEF Pull, Upset, TypeOK
    <3> QED
      BY <2>17, <3>1, <3>2 DEF Pull, streams, transport, TypeOK
  <2>18. ASSUME NEW f \in net, Lose(f)
         PROVE  TypeOK'
    BY <2>18 DEF Lose, streams, transport, TypeOK
  <2>19. ASSUME NEW p \in Player, NEW q \in Player, Cut(p, q)
         PROVE  TypeOK'
    <3>1. upsets' \in Nat
      BY <2>19 DEF Cut, Upset, TypeOK
    <3>2. cut' \subseteq Edge
      BY <2>19 DEF Cut, Edge, TypeOK
    <3>3. net' \subseteq Frame /\ quits' \subseteq Player \X Player
      BY <2>19 DEF Cut, TypeOK
    <3> QED
      BY <2>19, <3>1, <3>2, <3>3 DEF Cut, streams, TypeOK
  <2>20. CASE UNCHANGED vars
    BY <2>20 DEF vars, TypeOK
  <2> QED
    BY <2>4, <2>5, <2>6, <2>7, <2>9, <2>10, <2>11, <2>12, <2>13, <2>14, <2>15,
       <2>16, <2>17, <2>18, <2>19, <2>20 DEF Next, Session, Environment, Tick, FailingTick
<1> QED
  BY <1>1, <1>2, PTL DEF Spec

-----------------------------------------------------------------------------
(* Streams *)

\* The numbers the stream invariant is about.
LEMMA StreamTypes ==
  ASSUME TypeOK
  PROVE  /\ \A p \in Player : ticks[p] \in Nat
         /\ \A p, q \in Player : inn[p][q] \in Nat /\ acked[p][q] \in Nat
         /\ \A f \in net : /\ f \in Frame
                           /\ f.from \in Player /\ f.to \in Player
                           /\ f.base \in Nat /\ f.last \in Nat /\ f.ack \in Nat
  BY DEF TypeOK, Frame

\* Frames look at counters that only grow.
LEMMA FramesPersist ==
  ASSUME TypeOK, TypeOK', NEW f \in net, FrameInv(f),
         \A p \in Player : ticks[p] <= ticks'[p],
         \A p, q \in Player : inn[p][q] <= inn'[p][q]
  PROVE  FrameInv(f)'
<1>1. /\ f.from \in Player /\ f.to \in Player
      /\ f.base \in Nat /\ f.last \in Nat /\ f.ack \in Nat
  BY StreamTypes
<1>2. /\ ticks[f.from] \in Nat /\ ticks'[f.from] \in Nat
      /\ inn[f.from][f.to] \in Nat /\ inn'[f.from][f.to] \in Nat
      /\ inn[f.to][f.from] \in Nat /\ inn'[f.to][f.from] \in Nat
  BY <1>1 DEF TypeOK
<1>3. /\ ticks[f.from] <= ticks'[f.from]
      /\ inn[f.from][f.to] <= inn'[f.from][f.to]
      /\ inn[f.to][f.from] <= inn'[f.to][f.from]
  BY <1>1
<1> QED
  BY <1>1, <1>2, <1>3, LengthsFacts DEF FrameInv

\* A window that ends within the queue is a good frame.
LEMMA WindowInv ==
  ASSUME TypeOK, StreamInv, NEW p \in Player, NEW q \in Peers(p), NEW n \in Nat,
         NEW f, f = Window(p, q, n),
         n <= ticks'[p], n <= inn[p][q] + Unplug, inn' = inn
  PROVE  FrameInv(f)'
<1>1. /\ f.from = p /\ f.to = q /\ f.last = n
      /\ f.base = acked[p][q] /\ f.ack = inn[p][q]
  BY WindowProperties
<1>2. p # q /\ q \in Player
  BY DEF Peers
<1>3. acked[p][q] <= inn[q][p]
  BY <1>2 DEF StreamInv, EdgeInv
<1>4. inn[p][q] \in Nat /\ inn[p][q] <= inn[p][q]
  BY <1>2, StreamTypes
<1> QED
  BY <1>1, <1>2, <1>3, <1>4 DEF FrameInv

\* A step that leaves the streams alone and brings no frame.
LEMMA StreamsUntouched ==
  ASSUME TypeOK, TypeOK', StreamInv, UNCHANGED streams, net' \subseteq net,
         \A p \in Player : gone'[p].how # "fellBehind"
  PROVE  StreamInv'
<1>1. \A p, q \in Player : p # q => EdgeInv(p, q)'
  BY DEF StreamInv, EdgeInv, streams
<1>2. \A f \in net' : FrameInv(f)'
  BY DEF StreamInv, FrameInv, streams
<1> QED
  BY <1>1, <1>2 DEF StreamInv

\* Committing an input: the queue was short enough for one more.
LEMMA CommitKeepsStreams ==
  ASSUME TypeOK, TypeOK', StreamInv, NEW p \in Player, Commit(p),
         inn' = inn, acked' = acked, gone' = gone
  PROVE  StreamInv'
<1>1. ticks[p] \in Nat /\ ticks' = [ticks EXCEPT ![p] = ticks[p] + 1]
  BY StreamTypes DEF Commit
<1>2. \A r \in Player : /\ ticks[r] \in Nat
                        /\ ticks'[r] = IF r = p THEN ticks[p] + 1 ELSE ticks[r]
  BY <1>1, StreamTypes DEF TypeOK
<1>3. \A q \in Peers(p) : ticks[p] + 1 <= inn[p][q] + Unplug
  <2> SUFFICES ASSUME NEW q \in Peers(p)
               PROVE  ticks[p] + 1 <= inn[p][q] + Unplug
    OBVIOUS
  <2>1. ~(ticks[p] - inn[p][q] >= Unplug)
    BY DEF Commit, Overdue
  <2>2. inn[p][q] \in Nat
    BY StreamTypes DEF Peers
  <2> QED
    BY <1>1, <2>1, <2>2, LengthsFacts
<1>4. ASSUME NEW r \in Player, NEW q \in Player, r # q
      PROVE  EdgeInv(r, q)'
  <2>1. EdgeInv(r, q)
    BY <1>4 DEF StreamInv
  <2>2. inn[r][q] \in Nat /\ ticks[q] \in Nat
    BY StreamTypes
  <2>3. inn[r][q] <= ticks'[q]
    BY <1>2, <2>1, <2>2 DEF EdgeInv
  <2>4. ticks'[r] <= inn[r][q] + Unplug
    BY <1>2, <1>3, <1>4, <2>1 DEF EdgeInv, Peers
  <2> QED
    BY <2>1, <2>3, <2>4 DEF EdgeInv
<1>5. ASSUME NEW f \in net'
      PROVE  FrameInv(f)'
  <2>1. CASE f \in net
    <3>1. \A r \in Player : ticks[r] <= ticks'[r]
      BY <1>2
    <3>2. \A r, q \in Player : inn[r][q] <= inn'[r][q]
      BY StreamTypes
    <3> QED
      BY <2>1, <3>1, <3>2, FramesPersist DEF StreamInv
  <2>2. CASE f \notin net
    <3>1. PICK q \in Peers(p) : f = Window(p, q, ticks[p] + 1)
      BY <1>5, <2>2 DEF Commit, Post
    <3>2. ticks[p] + 1 \in Nat /\ ticks[p] + 1 <= ticks'[p]
      BY <1>2
    <3> QED
      BY <1>3, <3>1, <3>2, WindowInv
  <2> QED
    BY <2>1, <2>2
<1> QED
  BY <1>4, <1>5 DEF StreamInv

\* Taking a frame in: its ack and its inputs arrive together.
LEMMA RecvKeepsStreams ==
  ASSUME TypeOK, TypeOK', StreamInv, NEW p \in Player, NEW f \in net, Recv(p, f)
  PROVE  StreamInv'
<1> DEFINE q == f.from
<1>1. /\ q \in Player /\ f.to = p /\ q # p
      /\ f.base \in Nat /\ f.last \in Nat /\ f.ack \in Nat
  BY StreamTypes DEF Recv, StreamInv, FrameInv
<1>2. /\ f.last <= ticks[q] /\ f.ack <= inn[q][p]
      /\ f.last <= f.ack + Unplug /\ f.base <= inn[p][q]
  BY <1>1 DEF StreamInv, FrameInv
<1>3. EdgeInv(p, q) /\ EdgeInv(q, p)
  BY <1>1 DEF StreamInv
<1>4. /\ ticks[p] \in Nat /\ ticks[q] \in Nat
      /\ inn[p][q] \in Nat /\ inn[q][p] \in Nat
      /\ acked[p][q] \in Nat /\ acked[q][p] \in Nat
  BY <1>1, StreamTypes
<1>5. ~(f.last - inn[p][q] > Horizon)
  BY <1>1, <1>2, <1>3, <1>4, LengthsFacts DEF EdgeInv
<1> HIDE DEF q
<1>6. /\ acked' = [acked EXCEPT ![p][q] = Larger(acked[p][q], f.ack)]
      /\ inn' = [inn EXCEPT ![p][q] = Larger(inn[p][q], f.last)]
      /\ ticks' = ticks /\ gone' = gone /\ net' \subseteq net
  <2>1. /\ acked' = [acked EXCEPT ![p][q] = Larger(acked[p][q], f.ack)]
        /\ ticks' = ticks /\ net' \subseteq net
    BY DEF Recv, q
  <2>2. /\ inn' = [inn EXCEPT ![p][q] =
                     IF f.base <= inn[p][q] THEN Larger(inn[p][q], f.last) ELSE inn[p][q]]
        /\ gone' = gone
    BY <1>5 DEF Recv, q
  <2> QED
    BY <1>2, <2>1, <2>2
<1>7. /\ Larger(acked[p][q], f.ack) \in Nat /\ acked[p][q] <= Larger(acked[p][q], f.ack)
      /\ f.ack <= Larger(acked[p][q], f.ack)
      /\ Larger(acked[p][q], f.ack) \in {acked[p][q], f.ack}
      /\ Larger(inn[p][q], f.last) \in Nat /\ inn[p][q] <= Larger(inn[p][q], f.last)
      /\ f.last <= Larger(inn[p][q], f.last)
      /\ Larger(inn[p][q], f.last) \in {inn[p][q], f.last}
  BY <1>1, <1>4, LargerProperties
<1>8. \A r, u \in Player :
        /\ acked'[r][u] = IF r = p /\ u = q THEN Larger(acked[p][q], f.ack) ELSE acked[r][u]
        /\ inn'[r][u] = IF r = p /\ u = q THEN Larger(inn[p][q], f.last) ELSE inn[r][u]
  <2>1. /\ acked \in [Player -> [Player -> Nat]] /\ inn \in [Player -> [Player -> Nat]]
        /\ q \in Player
    BY <1>1 DEF TypeOK, q
  <2>2. ASSUME NEW t \in [Player -> [Player -> Nat]], NEW n \in Nat
        PROVE  \A r, u \in Player :
                 [t EXCEPT ![p][q] = n][r][u] = IF r = p /\ u = q THEN n ELSE t[r][u]
    BY <2>1
  <2>3. \A r, u \in Player :
          acked'[r][u] = IF r = p /\ u = q THEN Larger(acked[p][q], f.ack) ELSE acked[r][u]
    <3> DEFINE n == Larger(acked[p][q], f.ack)
    <3>1. n \in Nat /\ acked' = [acked EXCEPT ![p][q] = n]
      BY <1>6, <1>7
    <3> HIDE DEF n
    <3>2. \A r, u \in Player : acked'[r][u] = IF r = p /\ u = q THEN n ELSE acked[r][u]
      BY <2>1, <2>2, <3>1
    <3> QED
      BY <3>2 DEF n
  <2>4. \A r, u \in Player :
          inn'[r][u] = IF r = p /\ u = q THEN Larger(inn[p][q], f.last) ELSE inn[r][u]
    <3> DEFINE n == Larger(inn[p][q], f.last)
    <3>1. n \in Nat /\ inn' = [inn EXCEPT ![p][q] = n]
      BY <1>6, <1>7
    <3> HIDE DEF n
    <3>2. \A r, u \in Player : inn'[r][u] = IF r = p /\ u = q THEN n ELSE inn[r][u]
      BY <2>1, <2>2, <3>1
    <3> QED
      BY <3>2 DEF n
  <2> QED
    BY <2>3, <2>4
<1>9. ASSUME NEW r \in Player, NEW u \in Player, r # u
      PROVE  EdgeInv(r, u)'
  <2>1. EdgeInv(r, u)
    BY <1>9 DEF StreamInv
  <2>2. /\ ticks[r] \in Nat /\ ticks[u] \in Nat /\ inn[r][u] \in Nat
        /\ inn[u][r] \in Nat /\ acked[r][u] \in Nat
    BY StreamTypes
  <2>3. CASE r = p /\ u = q
    <3>1. inn'[u][r] = inn[u][r]
      BY <1>8, <1>9, <2>3
    <3> QED
      BY <1>1, <1>2, <1>3, <1>4, <1>6, <1>7, <1>8, <2>3, <3>1, LengthsFacts
         DEF EdgeInv, q
  <2>4. CASE r = q /\ u = p
    <3>1. inn'[r][u] = inn[r][u] /\ acked'[r][u] = acked[r][u]
      BY <1>8, <1>9, <2>4
    <3>2. inn[u][r] <= inn'[u][r] /\ inn'[u][r] \in Nat
      BY <1>7, <1>8, <2>4
    <3> QED
      BY <1>6, <2>1, <2>2, <3>1, <3>2 DEF EdgeInv
  <2>5. CASE ~(r = p /\ u = q) /\ ~(r = q /\ u = p)
    BY <1>6, <1>8, <2>1, <2>5 DEF EdgeInv
  <2> QED
    BY <2>3, <2>4, <2>5
<1>10. ASSUME NEW g \in net'
       PROVE  FrameInv(g)'
  <2>1. g \in net /\ FrameInv(g)
    BY <1>6, <1>10 DEF StreamInv
  <2>2. \A r \in Player : ticks[r] <= ticks'[r]
    BY <1>6, StreamTypes
  <2>3. \A r, u \in Player : inn[r][u] <= inn'[r][u]
    BY <1>7, <1>8, StreamTypes
  <2> QED
    BY <2>1, <2>2, <2>3, FramesPersist
<1> QED
  BY <1>6, <1>9, <1>10 DEF StreamInv

\* The stream invariant survives every step.
LEMMA StreamsHold ==
  ASSUME TypeOK, TypeOK', StreamInv, [Next]_vars
  PROVE  StreamInv'
<1> USE DEF streams
<1>1. ASSUME NEW p \in Player, NEW how, NEW who, NEW cost, Finish(p, how, who, cost)
      PROVE  inn' = inn /\ acked' = acked /\ gone' = gone
  BY <1>1 DEF Finish
<1>2. ASSUME UNCHANGED streams, net' \subseteq net, gone' = gone
      PROVE  StreamInv'
  BY <1>2, StreamsUntouched DEF StreamInv
<1>3. ASSUME NEW p \in Player, Tick(p) \/ FailingTick(p)
      PROVE  StreamInv'
  <2>2. CASE UnplugTick(p)
    BY <1>1, <1>2, <2>2 DEF UnplugTick
  <2>3. CASE GoneTick(p)
    BY <1>1, <1>2, <2>3 DEF GoneTick
  <2>4. CASE WatchdogTick(p)
    BY <1>1, <1>2, <2>4 DEF WatchdogTick
  <2>5. CASE AdvanceTick(p)
    BY <2>5, CommitKeepsStreams DEF AdvanceTick
  <2>6. CASE DesyncTick(p)
    <3>1. Finish(p, "desync", p, 1) /\ Commit(p)
      BY <2>6 DEF DesyncTick
    <3> QED
      BY <1>1, <3>1, CommitKeepsStreams
  <2>7. CASE ErrorTick(p)
    BY <1>1, <1>2, <2>7 DEF ErrorTick
  <2> QED
    BY <1>3, <2>2, <2>3, <2>4, <2>5, <2>6, <2>7 DEF Tick, FailingTick
<1>4. ASSUME NEW p \in Player, ClosePcs(p)
      PROVE  StreamInv'
  BY <1>2, <1>4 DEF ClosePcs
<1>5. ASSUME NEW p \in Player, NEW f \in net, Recv(p, f)
      PROVE  StreamInv'
  BY <1>5, RecvKeepsStreams
<1>6. ASSUME NEW p \in Player, NEW q \in Peers(p), Heartbeat(p, q)
      PROVE  StreamInv'
  <2>1. UNCHANGED streams /\ gone' = gone
    BY <1>6 DEF Heartbeat
  <2>2. q \in Player /\ p # q
    BY DEF Peers
  <2>3. ticks[p] \in Nat /\ ticks[p] <= inn[p][q] + Unplug
    BY <2>2, StreamTypes DEF StreamInv, EdgeInv
  <2>4. ASSUME NEW f \in net'
        PROVE  FrameInv(f)'
    <3>1. CASE f \in net
      BY <2>1, <3>1 DEF StreamInv, FrameInv
    <3>2. CASE f \notin net
      <4>1. f = Window(p, q, ticks[p])
        BY <1>6, <2>4, <3>2 DEF Heartbeat, Post
      <4>2. ticks[p] <= ticks'[p] /\ inn' = inn
        BY <2>1, <2>3
      <4> QED
        BY <2>3, <4>1, <4>2, WindowInv
    <3> QED
      BY <3>1, <3>2
  <2>5. \A r, u \in Player : r # u => EdgeInv(r, u)'
    BY <2>1 DEF StreamInv, EdgeInv
  <2> QED
    BY <2>1, <2>4, <2>5 DEF StreamInv
<1>7. ASSUME NEW p \in Player, NEW q \in Player, NEW how \in {"quit", "disconnected"},
             UNCHANGED streams, net' = net, Announce(p, how, q)
      PROVE  StreamInv'
  <2>1. \A r \in Player : gone'[r].how # "fellBehind"
    BY <1>7 DEF Announce, StreamInv, TypeOK
  <2> QED
    BY <1>7, <2>1, StreamsUntouched
<1>8. ASSUME NEW p \in Player, NEW q \in Peers(p), CtlRecv(p, q)
      PROVE  StreamInv'
  BY <1>7, <1>8 DEF CtlRecv, Peers
<1>9. ASSUME NEW p \in Player, NEW q \in Peers(p), NEW channel \in {"data", "ctl"},
             ChannelClosed(p, q, channel)
      PROVE  StreamInv'
  BY <1>7, <1>9 DEF ChannelClosed, Peers
<1>10. ASSUME NEW p \in Player, Pull(p) \/ QuitGame(p)
       PROVE  StreamInv'
  BY <1>2, <1>10 DEF Pull, QuitGame
<1>11. ASSUME NEW f \in net, Lose(f)
       PROVE  StreamInv'
  BY <1>2, <1>11 DEF Lose
<1>12. ASSUME NEW p \in Player, NEW q \in Player, Cut(p, q)
       PROVE  StreamInv'
  BY <1>2, <1>12 DEF Cut
<1>13. CASE UNCHANGED vars
  BY <1>2, <1>13 DEF vars
<1> QED
  BY <1>3, <1>4, <1>5, <1>6, <1>8, <1>9, <1>10, <1>11, <1>12, <1>13
     DEF Next, Session, Environment

\* No player has received, or been told of, what was not sent; every frame
\* under way is true.
THEOREM StreamsInvariant == Spec => []StreamInv
<1>1. Init => StreamInv
  BY LengthsFacts DEF Init, StreamInv, EdgeInv
<1>2. TypeOK /\ TypeOK' /\ StreamInv /\ [Next]_vars => StreamInv'
  BY StreamsHold
<1> QED
  BY <1>1, <1>2, TypeCorrect, PTL DEF Spec

\* The queue at either end bounds the window between them by two queues, which
\* the horizon holds: no peer is given up as fallen behind.
THEOREM WindowsAlwaysFit == Spec => []WindowsFit
<1>1. TypeOK /\ StreamInv => WindowsFit
  <2> SUFFICES ASSUME TypeOK, StreamInv
               PROVE  WindowsFit
    OBVIOUS
  <2>1. ASSUME NEW p \in Player, NEW q \in Player, p # q
        PROVE  ticks[p] - acked[p][q] <= Horizon
    <3>1. ticks[p] \in Nat /\ inn[p][q] \in Nat /\ acked[p][q] \in Nat
      BY StreamTypes
    <3> QED
      BY <2>1, <3>1, LengthsFacts DEF StreamInv, EdgeInv
  <2> QED
    BY <2>1 DEF StreamInv, WindowsFit
<1> QED
  BY <1>1, TypeCorrect, StreamsInvariant, PTL

\* What leaves a window has arrived, and no frame starts beyond a gap.
THEOREM DroppedIsAlwaysReceived == Spec => []DroppedIsReceived
<1>1. StreamInv => DroppedIsReceived
  BY DEF StreamInv, EdgeInv, FrameInv, DroppedIsReceived
<1> QED
  BY <1>1, StreamsInvariant, PTL

\* A player is never more than its queue ahead of any other.
THEOREM SkewAlwaysBounded == Spec => []SkewBounded
<1>1. TypeOK /\ StreamInv => SkewBounded
  <2> SUFFICES ASSUME TypeOK, StreamInv, NEW p \in Player, NEW q \in Player, p # q
               PROVE  ticks[p] <= ticks[q] + Unplug
    BY DEF SkewBounded
  <2>1. ticks[p] \in Nat /\ ticks[q] \in Nat /\ inn[p][q] \in Nat
    BY StreamTypes
  <2> QED
    BY <2>1, LengthsFacts DEF StreamInv, EdgeInv
<1> QED
  BY <1>1, TypeCorrect, StreamsInvariant, PTL

-----------------------------------------------------------------------------
(* Quits *)

\* An end is published once.
LEMMA EndsStay ==
  ASSUME TypeOK, NEW p \in Player, NEW how, NEW who, NEW cost, Running(p),
         Finish(p, how, who, cost)
  PROVE  /\ \A r \in Player : Deliberate(end[r].how) => end'[r] = end[r]
         /\ end'[p].how = how /\ end'[p].who = who
         /\ \A r \in Player : r # p => end'[r] = end[r]
<1>1. end' = [end EXCEPT ![p] = [how |-> how, who |-> who]]
  BY DEF Finish
<1>2. ~Deliberate(end[p].how)
  BY DEF Running, Deliberate
<1> QED
  BY <1>1, <1>2 DEF TypeOK

LEMMA QuitsHold ==
  ASSUME TypeOK, QuitInv, [Next]_vars
  PROVE  QuitInv'
<1>1. ASSUME end' = end, gone' = gone, quits' \subseteq quits
      PROVE  QuitInv'
  BY <1>1 DEF QuitInv, RealQuits
<1>2. ASSUME NEW p \in Player, NEW how, NEW who \in Player, NEW cost, Running(p),
             Finish(p, how, who, cost),
             how = "peerQuit" => Deliberate(end[who].how)
      PROVE  QuitInv'
  <2>1. /\ \A r \in Player : Deliberate(end[r].how) => end'[r] = end[r]
        /\ end'[p].how = how /\ end'[p].who = who
        /\ \A r \in Player : r # p => end'[r] = end[r]
    BY <1>2, EndsStay
  <2>2. gone' = gone
    BY <1>2 DEF Finish
  <2>3. ASSUME NEW e \in quits'
        PROVE  Deliberate(end'[e[1]].how)
    <3>1. CASE e \in quits
      BY <2>1, <3>1 DEF QuitInv, TypeOK
    <3>2. CASE e \notin quits
      <4>1. Deliberate(how) /\ \E q \in Player : e = <<p, q>>
        BY <1>2, <2>3, <3>2 DEF Finish, Peers
      <4> QED
        BY <2>1, <4>1
    <3> QED
      BY <3>1, <3>2
  <2>4. ASSUME NEW r \in Player, gone[r].how = "quit"
        PROVE  Deliberate(end'[gone[r].who].how)
    BY <2>1, <2>4 DEF QuitInv, TypeOK
  <2>5. ASSUME NEW r \in Player, end'[r].how = "peerQuit"
        PROVE  Deliberate(end'[end'[r].who].how)
    <3>1. CASE r = p
      BY <1>2, <2>1, <2>5, <3>1
    <3>2. CASE r # p
      <4>1. end'[r] = end[r] /\ end[r].who \in Player
        BY <2>1, <3>2 DEF TypeOK
      <4> QED
        BY <2>1, <2>5, <4>1 DEF QuitInv, RealQuits
    <3> QED
      BY <3>1, <3>2
  <2> QED
    BY <2>2, <2>3, <2>4, <2>5 DEF QuitInv, RealQuits
<1>3. ASSUME NEW p \in Player, NEW q \in Player, NEW how,
             end' = end, quits' \subseteq quits, Announce(p, how, q),
             how = "quit" => Deliberate(end[q].how)
      PROVE  QuitInv'
  <2>1. \A r \in Player : gone'[r] = gone[r]
                          \/ (gone'[r].how = how /\ gone'[r].who = q)
    BY <1>3 DEF Announce, TypeOK
  <2> QED
    BY <1>3, <2>1 DEF QuitInv, RealQuits
<1>4. ASSUME NEW p \in Player, Tick(p) \/ FailingTick(p)
      PROVE  QuitInv'
  <2>2. CASE UnplugTick(p)
    BY <1>2, <2>2 DEF UnplugTick
  <2>3. CASE GoneTick(p)
    <3>1. gone[p].who \in Player
      BY DEF TypeOK
    <3>2. CASE gone[p].how = "quit"
      BY <1>2, <2>3, <3>1, <3>2 DEF GoneTick, QuitInv
    <3>3. CASE gone[p].how # "quit"
      BY <1>2, <2>3, <3>1, <3>3 DEF GoneTick
    <3> QED
      BY <3>2, <3>3
  <2>4. CASE WatchdogTick(p)
    BY <1>2, <2>4 DEF WatchdogTick, Undisturbed, Peers
  <2>5. CASE AdvanceTick(p)
    BY <1>1, <2>5 DEF AdvanceTick, transport
  <2>6. CASE DesyncTick(p)
    BY <1>2, <2>6 DEF DesyncTick, Commit, Undisturbed
  <2>7. CASE ErrorTick(p)
    BY <1>2, <2>7 DEF ErrorTick, Undisturbed
  <2> QED
    BY <1>4, <2>2, <2>3, <2>4, <2>5, <2>6, <2>7 DEF Tick, FailingTick
<1>5. ASSUME NEW p \in Player, ClosePcs(p)
      PROVE  QuitInv'
  BY <1>1, <1>5 DEF ClosePcs
<1>6. ASSUME NEW p \in Player, NEW f \in net, Recv(p, f)
      PROVE  QuitInv'
  <2>1. f.from \in Player
    BY StreamTypes
  <2>2. end' = end /\ quits' = quits
    BY <1>6 DEF Recv, transport
  <2>3. Announce(p, "fellBehind", f.from) \/ gone' = gone
    BY <1>6 DEF Recv
  <2> QED
    BY <1>1, <1>3, <2>1, <2>2, <2>3
<1>7. ASSUME NEW p \in Player, NEW q \in Peers(p), Heartbeat(p, q)
      PROVE  QuitInv'
  BY <1>1, <1>7 DEF Heartbeat, transport
<1>8. ASSUME NEW p \in Player, NEW q \in Peers(p), CtlRecv(p, q)
      PROVE  QuitInv'
  <2>1. q \in Player /\ <<q, p>> \in quits /\ <<q, p>>[1] = q
    BY <1>8 DEF CtlRecv, Peers
  <2>2. Deliberate(end[q].how)
    BY <2>1 DEF QuitInv
  <2> QED
    BY <1>3, <1>8, <2>1, <2>2 DEF CtlRecv
<1>9. ASSUME NEW p \in Player, NEW q \in Peers(p), NEW channel, ChannelClosed(p, q, channel)
      PROVE  QuitInv'
  BY <1>3, <1>9 DEF ChannelClosed, transport, Peers
<1>10. ASSUME NEW p \in Player, Pull(p)
       PROVE  QuitInv'
  BY <1>1, <1>10 DEF Pull, transport
<1>11. ASSUME NEW f \in net, Lose(f)
       PROVE  QuitInv'
  BY <1>1, <1>11 DEF Lose, transport
<1>12. ASSUME NEW p \in Player, NEW q \in Player, Cut(p, q)
       PROVE  QuitInv'
  BY <1>1, <1>12 DEF Cut
<1>13. CASE UNCHANGED vars
  BY <1>1, <1>13 DEF vars
<1>14. ASSUME NEW p \in Player, QuitGame(p)
       PROVE  QuitInv'
  <2>1. end' = [end EXCEPT ![p] = [how |-> "dropped", who |-> p]]
    BY <1>14 DEF QuitGame
  <2>2. ~Deliberate(end[p].how)
    BY <1>14 DEF QuitGame, Running, Deliberate
  <2>3. /\ \A r \in Player : Deliberate(end[r].how) => end'[r] = end[r]
        /\ \A r \in Player : end'[r].how = "peerQuit" => end'[r] = end[r]
    BY <2>1, <2>2 DEF TypeOK
  <2>4. gone' = gone /\ quits' = quits
    BY <1>14 DEF QuitGame
  <2>5. /\ \A e \in quits : e[1] \in Player
        /\ \A r \in Player : gone[r].who \in Player /\ end[r].who \in Player
    BY DEF TypeOK
  <2> QED
    BY <2>3, <2>4, <2>5 DEF QuitInv, RealQuits
<1> QED
  BY <1>4, <1>5, <1>6, <1>7, <1>8, <1>9, <1>10, <1>11, <1>12, <1>13, <1>14
     DEF Next, Session, Environment

\* A session that ends with "player q quit" ends so because q did.
THEOREM QuitIsAlwaysReal == Spec => []QuitIsReal
<1>1. Init => QuitInv
  BY DEF Init, QuitInv, RealQuits
<1>2. TypeOK /\ QuitInv /\ [Next]_vars => QuitInv'
  BY QuitsHold
<1>3. QuitInv => QuitIsReal
  BY DEF QuitInv, RealQuits, Deliberate, QuitIsReal
<1> QED
  BY <1>1, <1>2, <1>3, TypeCorrect, PTL DEF Spec
=============================================================================
