------------------------------ MODULE Netplay ------------------------------
(***************************************************************************)
(* A netplay session: every player runs the same linked machines, ticks    *)
(* them with its own input and what it has of the others', and ships every *)
(* input to every peer over an unreliable datachannel                      *)
(* (gbaroll/src/session/netplay.rs, net/protocol.rs).                      *)
(*                                                                         *)
(* A player is one thread.  Its tick body runs to the end without an       *)
(* await, and so do the turns of its tasks: per peer a receive pump for    *)
(* the data channel, one for the control channel, and a heartbeat.  Each   *)
(* is an action here; the events the pumps queue for the tick are drained  *)
(* whole at its start, so the inputs received are counted where the pump   *)
(* accepts them, and of the Gone events only the first is ever read.       *)
(*                                                                         *)
(* Input n of a player is its n-th tick's; a frame carries the inputs      *)
(* base + 1 .. last.  The rennet streams, the rollback engine and the      *)
(* transport are external: what they do is what the driver relies on.      *)
(* Present delay, throttler, telemetry and video leave the protocol alone. *)
(***************************************************************************)
EXTENDS Integers, FiniteSets

CONSTANTS
  Player,     \* the players of the session
  Unplug,     \* UNPLUG_QUEUE_LENGTH
  Horizon,    \* HORIZON
  MaxTicks,   \* bound: ticks of a session in which all is well
  MaxFlight,  \* bound: frames of one player under way to one other
  MaxUpsets   \* bound: quits, unplugs and failures

\* UNPLUG_QUEUE_LENGTH = 180 and HORIZON = 600: the horizon leaves room for
\* the queues of both ends of an edge.
ASSUME LengthsAssumption ==
  /\ Unplug \in Nat \ {0} /\ Horizon \in Nat
  /\ 2 * Unplug <= Horizon
ASSUME BoundsAssumption ==
  MaxTicks \in Nat /\ MaxFlight \in Nat /\ MaxUpsets \in Nat

VARIABLES
  ticks,    \* inputs each player has committed, and pushed to its peers
  inn,      \* inn[p][q]: inputs of q that p has received without a gap
  acked,    \* acked[p][q]: inputs of p that p knows q has received
  net,      \* the frames under way
  sent,     \* sent[p][q]: the tick has sent since the last heartbeat turn
  rx,       \* rx[p][q]: the channels from q whose pump still runs at p
  gone,     \* the first Gone event each player's pumps queued
  pulled,   \* SharedSession.unplug
  end,      \* SharedSession.end, and that the session was dropped
  handoff,  \* a handoff was captured
  quits,    \* pairs <<p, q>>: p's Quit is under way to q
  open,     \* the player has not closed its connections
  cut,      \* the edges that went dead
  upsets    \* how many of those so far

vars == <<ticks, inn, acked, net, sent, rx, gone, pulled, end, handoff,
          quits, open, cut, upsets>>

streams   == <<ticks, inn, acked>>
transport == <<quits, open, cut>>

-----------------------------------------------------------------------------
(* Data *)

Peers(p) == Player \ {p}
Edge == {{p, q} : p \in Player, q \in Player}

Frame == [from : Player, to : Player, base : Nat, last : Nat, ack : Nat]

\* Why a session ended and whom it blames, itself when nobody.
Reason == {"running", "localQuit", "unplugged", "peerQuit", "peerDisconnected",
           "desync", "error", "dropped"}
GoneReason == {"none", "quit", "disconnected", "fellBehind"}

Unplugs(how)    == how \in {"unplugged", "peerQuit", "peerDisconnected", "desync"}

\* Mutant: whatever leaves a machine behind is announced as a quit.
DeliberateUnplugs(how) == how = "localQuit" \/ Unplugs(how)

Deliberate(how) == how \in {"localQuit", "unplugged"}

Running(p) == end[p].how = "running"

Init ==
  /\ ticks = [p \in Player |-> 0]
  /\ inn = [p \in Player |-> [q \in Player |-> 0]]
  /\ acked = [p \in Player |-> [q \in Player |-> 0]]
  /\ net = {}
  /\ sent = [p \in Player |-> [q \in Player |-> FALSE]]
  /\ rx = [p \in Player |-> [q \in Player |-> {"data", "ctl"}]]
  /\ gone = [p \in Player |-> [how |-> "none", who |-> p]]
  /\ pulled = [p \in Player |-> FALSE]
  /\ end = [p \in Player |-> [how |-> "running", who |-> p]]
  /\ handoff = [p \in Player |-> FALSE]
  /\ quits = {}
  /\ open = [p \in Player |-> TRUE]
  /\ cut = {}
  /\ upsets = 0

-----------------------------------------------------------------------------
(* Frames *)

\* Mutant: the ack names the input expected next.
WindowExpecting(p, q, n) ==
  [from |-> p, to |-> q, base |-> acked[p][q], last |-> n, ack |-> inn[p][q] + 1]

\* What p's out-stream and in-stream towards q make of it after n pushes: the
\* window is everything q is not known to have.
Window(p, q, n) ==
  [from |-> p, to |-> q, base |-> acked[p][q], last |-> n, ack |-> inn[p][q]]

\* A dead edge carries nothing, and what reaches an ended session is not read.
Carries(f) == {f.from, f.to} \notin cut /\ Running(f.to)
Room(f)    == Cardinality({g \in net : g.from = f.from /\ g.to = f.to}) < MaxFlight

\* ChannelSender::send on the data channel: the frame is under way or lost.
Post(frames) == net' = net \cup {f \in frames : Carries(f) /\ Room(f)}

-----------------------------------------------------------------------------
(* Teardown *)

Upset(n) == upsets' = upsets + n /\ upsets' <= MaxUpsets

\* finish(): a machine that survives is captured, which may fail; a deliberate
\* end says Quit to every peer; the end is published.
Finish(p, how, who, failures) ==
  /\ \E captured \in BOOLEAN :
       /\ captured \/ Unplugs(how)
       /\ Upset(failures + IF captured THEN 0 ELSE 1)
       /\ handoff' = [handoff EXCEPT ![p] = Unplugs(how) /\ captured]
  /\ end' = [end EXCEPT ![p] = [how |-> how, who |-> who]]
  /\ quits' = IF Deliberate(how)
              THEN quits \cup {<<p, q>> : q \in {r \in Peers(p) : {p, r} \notin cut}}
              ELSE quits
  /\ UNCHANGED <<inn, acked, rx, gone, pulled, open, cut>>

\* The detached task: the control channels have drained, or half a second is
\* over and what they still hold is lost; the connections close.
ClosePcs(p) ==
  /\ ~Running(p) /\ open[p]
  /\ open' = [open EXCEPT ![p] = FALSE]
  /\ \E lost \in SUBSET {e \in quits : e[1] = p} : quits' = quits \ lost
  /\ UNCHANGED <<streams, net, sent, rx, gone, pulled, end, handoff, cut, upsets>>

-----------------------------------------------------------------------------
(* The tick *)

\* The runtime's pump calls tick() until it returns false.  What the user asked
\* for comes first.  (The quit flag would come before it, and nothing sets it.)
UnplugTick(p) ==
  /\ Running(p) /\ pulled[p]
  /\ Finish(p, "unplugged", p, 0)
  /\ UNCHANGED <<ticks, net, sent>>

\* Then the events: a peer that is gone ends the session.
GoneTick(p) ==
  /\ Running(p) /\ ~pulled[p] /\ gone[p].how # "none"
  /\ Finish(p, IF gone[p].how = "quit" THEN "peerQuit" ELSE "peerDisconnected",
            gone[p].who, 0)
  /\ UNCHANGED <<ticks, net, sent>>

Undisturbed(p) == Running(p) /\ ~pulled[p] /\ gone[p].how = "none"

\* Mutant: the watchdog trips one tick late.
OverdueLate(p) == \E q \in Peers(p) : ticks[p] - inn[p][q] > Unplug

\* Mutant: the watchdog measures the resend windows.
OverdueWindow(p) == \E q \in Peers(p) : ticks[p] - acked[p][q] >= Horizon

\* local_queue_length() >= UNPLUG_QUEUE_LENGTH: the local inputs that wait for
\* some peer's to match them.
Overdue(p) == \E q \in Peers(p) : ticks[p] - inn[p][q] >= Unplug

\* Mutant: an overdue tick waits for its peers.
WatchdogWaits(p) == Undisturbed(p) /\ Overdue(p) /\ UNCHANGED vars

\* The queue watchdog.  Clocks are not modelled: it may blame any peer.
WatchdogTick(p) ==
  /\ Undisturbed(p) /\ Overdue(p)
  /\ \E q \in Peers(p) : Finish(p, "peerDisconnected", q, 0)
  /\ UNCHANGED <<ticks, net, sent>>

AllWell == cut = {} /\ \A p \in Player : Running(p)

\* The input of one more tick, to every peer.
Commit(p) ==
  /\ Undisturbed(p) /\ ~Overdue(p)
  /\ AllWell => ticks[p] < MaxTicks
  /\ ticks' = [ticks EXCEPT ![p] = @ + 1]
  /\ Post({Window(p, q, ticks[p] + 1) : q \in Peers(p)})
  /\ sent' = [sent EXCEPT ![p] = [q \in Player |-> q # p]]

AdvanceTick(p) ==
  /\ Commit(p)
  /\ UNCHANGED <<inn, acked, rx, gone, pulled, end, handoff, transport, upsets>>

\* Both sides have settled a tick, so their digests of it can be compared; they
\* may differ.
DesyncTick(p) ==
  /\ \A q \in Peers(p) : inn[p][q] > 0
  /\ \E q \in Peers(p) : acked[p][q] > 0
  /\ Commit(p)
  /\ Finish(p, "desync", p, 1)

\* advance() fails, before anything is sent.
ErrorTick(p) ==
  /\ Undisturbed(p) /\ ~Overdue(p)
  /\ Finish(p, "error", p, 1)
  /\ UNCHANGED <<ticks, net, sent>>

Tick(p) ==
  UnplugTick(p) \/ GoneTick(p) \/ WatchdogTick(p) \/ AdvanceTick(p)

FailingTick(p) == DesyncTick(p) \/ ErrorTick(p)

-----------------------------------------------------------------------------
(* The tasks.  Those of an ended session have nobody to tell. *)

\* NetEvent::Gone, of which the tick reads the first.
Announce(p, how, q) ==
  gone' = IF gone[p].how = "none"
          THEN [gone EXCEPT ![p] = [how |-> how, who |-> q]] ELSE gone

Larger(m, n) == IF m < n THEN n ELSE m

\* recv_pump: the ack prunes the window, then the inputs are taken in.
Recv(p, f) ==
  /\ Running(p) /\ f \in net /\ f.to = p /\ "data" \in rx[p][f.from]
  /\ net' = net \ {f}
  /\ acked' = [acked EXCEPT ![p][f.from] = Larger(@, f.ack)]
  /\ IF f.last - inn[p][f.from] > Horizon
     THEN /\ Announce(p, "fellBehind", f.from)
          /\ rx' = [rx EXCEPT ![p][f.from] = @ \ {"data"}]
          /\ UNCHANGED inn
     ELSE /\ inn' = [inn EXCEPT ![p][f.from] =
                       IF f.base <= @ THEN Larger(@, f.last) ELSE @]
          /\ UNCHANGED <<gone, rx>>
  /\ UNCHANGED <<ticks, sent, pulled, end, handoff, transport, upsets>>

\* Mutant: the flag is read and not cleared.
HeartbeatGet(p, q) ==
  /\ Running(p)
  /\ IF sent[p][q] THEN UNCHANGED net ELSE Post({Window(p, q, ticks[p])})
  /\ UNCHANGED <<streams, sent, rx, gone, pulled, end, handoff, transport, upsets>>

\* A turn of the heartbeat: after an interval in which the tick sent nothing
\* the window goes out again.
Heartbeat(p, q) ==
  /\ Running(p)
  /\ sent' = [sent EXCEPT ![p][q] = FALSE]
  /\ IF sent[p][q] THEN UNCHANGED net ELSE Post({Window(p, q, ticks[p])})
  /\ UNCHANGED <<streams, rx, gone, pulled, end, handoff, transport, upsets>>

\* ctl_pump: the peer said Quit.
CtlRecv(p, q) ==
  /\ Running(p) /\ <<q, p>> \in quits /\ "ctl" \in rx[p][q]
  /\ quits' = quits \ {<<q, p>>}
  /\ Announce(p, "quit", q)
  /\ rx' = [rx EXCEPT ![p][q] = @ \ {"ctl"}]
  /\ UNCHANGED <<streams, net, sent, pulled, end, handoff, open, cut, upsets>>

\* A channel has closed: the far end closed it, behind what it sent on it in
\* order, or the transport noticed a dead edge.
ChannelClosed(p, q, channel) ==
  /\ Running(p) /\ channel \in rx[p][q]
  /\ {p, q} \in cut \/ ~open[q]
  /\ channel = "ctl" => <<q, p>> \notin quits
  /\ Announce(p, "disconnected", q)
  /\ rx' = [rx EXCEPT ![p][q] = @ \ {channel}]
  /\ UNCHANGED <<streams, net, sent, pulled, end, handoff, transport, upsets>>

-----------------------------------------------------------------------------
(* The user and the network *)

\* unplug(): the cable is pulled, for the next tick to see.
Pull(p) ==
  /\ Running(p) /\ ~pulled[p]
  /\ pulled' = [pulled EXCEPT ![p] = TRUE]
  /\ Upset(1)
  /\ UNCHANGED <<streams, net, sent, rx, gone, end, handoff, transport>>

\* "Quit game": close_session() drops the session, driver and connections, and
\* nothing is finished.
QuitGame(p) ==
  /\ Running(p)
  /\ end' = [end EXCEPT ![p] = [how |-> "dropped", who |-> p]]
  /\ open' = [open EXCEPT ![p] = FALSE]
  /\ Upset(1)
  /\ UNCHANGED <<streams, net, sent, rx, gone, pulled, handoff, quits, cut>>

Lose(f) ==
  /\ f \in net
  /\ net' = net \ {f}
  /\ UNCHANGED <<streams, sent, rx, gone, pulled, end, handoff, transport, upsets>>

\* An edge goes dead, with everything under way on it.
Cut(p, q) ==
  /\ p # q /\ {p, q} \notin cut /\ Running(p) /\ Running(q)
  /\ cut' = cut \cup {{p, q}}
  /\ net' = {f \in net : {f.from, f.to} # {p, q}}
  /\ quits' = quits \ {<<p, q>>, <<q, p>>}
  /\ Upset(1)
  /\ UNCHANGED <<streams, sent, rx, gone, pulled, end, handoff, open>>

Session ==
  \E p \in Player :
    \/ Tick(p) \/ FailingTick(p)
    \/ ClosePcs(p)
    \/ \E f \in net : Recv(p, f)
    \/ \E q \in Peers(p) : \/ Heartbeat(p, q)
                           \/ CtlRecv(p, q)
                           \/ \E channel \in {"data", "ctl"} : ChannelClosed(p, q, channel)

Environment ==
  \/ \E p \in Player : Pull(p) \/ QuitGame(p)
  \/ \E f \in net : Lose(f)
  \/ \E p, q \in Player : Cut(p, q)

Next == Session \/ Environment

\* The heartbeat is a timer loop.  The datachannel loses frames, not all of them.
Fairness ==
  \A p, q \in Player : p # q =>
    /\ WF_vars(Heartbeat(p, q))
    /\ SF_vars(\E f \in net : f.from = q /\ Recv(p, f))

Spec == Init /\ [][Next]_vars /\ Fairness

-----------------------------------------------------------------------------
(* Properties *)

TypeOK ==
  /\ ticks \in [Player -> Nat]
  /\ inn \in [Player -> [Player -> Nat]]
  /\ acked \in [Player -> [Player -> Nat]]
  /\ net \subseteq Frame
  /\ sent \in [Player -> [Player -> BOOLEAN]]
  /\ rx \in [Player -> [Player -> SUBSET {"data", "ctl"}]]
  /\ gone \in [Player -> [how : GoneReason, who : Player]]
  /\ pulled \in [Player -> BOOLEAN]
  /\ end \in [Player -> [how : Reason, who : Player]]
  /\ handoff \in [Player -> BOOLEAN]
  /\ quits \subseteq Player \X Player
  /\ open \in [Player -> BOOLEAN]
  /\ cut \subseteq Edge
  /\ upsets \in Nat

\* The window of an edge, what its sender has to keep and to resend, never
\* outgrows the horizon, so no peer is ever given up as fallen behind: the
\* watchdog fires first, at either end and whatever frames are lost or late
\* (session/mod.rs: "the trip always fires a fixed margin below the transport
\* horizon").
WindowsFit ==
  /\ \A p, q \in Player : p # q => ticks[p] - acked[p][q] <= Horizon
  /\ \A p \in Player : gone[p].how # "fellBehind"

\* What a sender drops from its window its peer has received, in every order of
\* frames and acks: a frame under way never starts beyond a gap.
DroppedIsReceived ==
  /\ \A p, q \in Player : p # q => acked[p][q] <= inn[q][p]
  /\ \A f \in net : f.base <= inn[f.to][f.from]

\* Nobody runs ahead of anybody by more than the queue: what one machine has
\* played on prediction is bounded (the watchdog in tick_inner).
SkewBounded ==
  \A p, q \in Player : p # q => ticks[p] <= ticks[q] + Unplug

\* A session that ends with "player q quit" ends so because q did, and q's own
\* session ended deliberately: a quit is not passed on by those it ends.
QuitIsReal ==
  \A p \in Player :
    end[p].how = "peerQuit" => end[end[p].who].how \in {"localQuit", "unplugged"}

\* netplay.rs: "A deliberate local quit or unplug announces itself so peers end
\* at once instead of waiting out a transport EOF."
QuitAnnounced ==
  [][\A p \in Player, q \in Player :
       /\ p # q /\ Running(p) /\ {p, q} \notin cut
       /\ end'[p].how \in {"localQuit", "unplugged", "dropped"}
       => <<p, q>> \in quits']_vars

\* The ticks are paced by the audio callback, which also runs in a hidden tab.
Ticking == \A p \in Player : WF_vars(Tick(p))

\* Once one player's session is over or an edge is dead everybody's session
\* ends, even if nothing the transport or a peer says of it gets through: the
\* watchdog is enough.
TroubleEndsAll ==
  Ticking => (~AllWell ~> \A p \in Player : ~Running(p))

\* Frames are lost and ticks may stop, yet every input reaches every peer and
\* its sender learns so, unless the session ends or the edge dies: the
\* heartbeat resends until it does.
InputsGetThrough ==
  \A p, q \in Player : \A n \in 1 .. MaxTicks :
    p # q => (ticks[p] = n ~> (\/ acked[p][q] >= n
                               \/ ~Running(p) \/ ~Running(q) \/ {p, q} \in cut))
=============================================================================
