---------------------------- MODULE RoomClients ----------------------------
(***************************************************************************)
(* The rooms server with its clients.  Each socket of Rooms is given the   *)
(* client behind it:                                                       *)
(*                                                                         *)
(*   - the lobby task (net/lobby.rs), which owns the websocket and walks   *)
(*     through idle phase, mesh, boot exchange and retry pause;            *)
(*   - the drain task (ui/cable.rs), which mirrors the room in LOBBY_UI    *)
(*     and moves the emulated machine in and out of the link;              *)
(*   - the machine itself (runtime/mod.rs), solo, linked or closed, and    *)
(*     frozen or running;                                                  *)
(*   - the user, who may link up, leave, quit the game and launch another. *)
(*                                                                         *)
(* The two tasks talk through unbounded queues (LobbyEvent one way,        *)
(* LobbyCommand the other), the lobby and the server through the two       *)
(* directions of the websocket.  Every queue is FIFO and every handler of  *)
(* a queue's head is one action: the client is one thread and the only     *)
(* points where it lets something else in are its awaits, which are the    *)
(* phases here.  What a task wakes runs before the next timer, click or    *)
(* network event does (TaskStep before all else in ClientNext).            *)
(*                                                                         *)
(* The WebRTC mesh is external: a merge's mesh may come up or fail, and no *)
(* signals are relayed.  The hourly sweep, and attachments that cannot be   *)
(* cleared, are checked in Rooms alone.                                    *)
(***************************************************************************)
EXTENDS Rooms

CONSTANTS
  OwnRom,      \* the ROM each player's machine runs
  Library,     \* the ROMs each player holds
  Creator,     \* the player that opens the room, the others join
  Adapters,    \* the link peripherals launched with: TRUE is wireless
  Upsets,      \* what may go wrong, of UpsetKind
  MaxUpsets,   \* bound: how often it does
  MaxPresses   \* bound: how often the room is linked up

ASSUME LibraryAssumption ==
  /\ OwnRom \in [Socket -> Rom]
  /\ Library \in [Socket -> SUBSET Rom]
  /\ \A s \in Socket : OwnRom[s] \in Library[s]

\* A connection breaks, a mesh or exchange fails, a peer of a session is gone,
\* the machine does not come out of a link or go into one; the host ejects
\* someone, a user leaves the room or quits the game.
UpsetKind == {"connection", "mesh", "session", "machine", "eject", "leave", "quit"}

ASSUME BoundsAssumption ==
  /\ Upsets \subseteq UpsetKind /\ Adapters \subseteq BOOLEAN
  /\ MaxUpsets \in Nat /\ MaxPresses \in Nat /\ Creator \in Socket

VARIABLES
  peripheral, \* LobbyArgs.wireless: what each machine was launched with
  up,         \* client to server, in flight
  down,       \* server to client, in flight
  lobby,      \* the lobby task: phase, stray messages, armed dance, ...
  cmds,       \* LobbyCommands the lobby has not read
  events,     \* LobbyEvents the drain has not read
  drain,      \* where the drain task awaits
  ui,         \* LOBBY_UI, and with it LOBBY_CMDS
  machine,    \* the runtime's session
  upsets,     \* failures and departures so far
  presses     \* presses of Link up so far

serverVars == <<room, sock, alarm, sent>>
wire       == <<up, down>>
tasks      == <<lobby, cmds, events, drain>>
player     == <<ui, machine>>
budget     == <<peripheral, upsets, presses>>
clientVars == <<wire, tasks, player, budget>>
allVars    == <<serverVars, clientVars>>

-----------------------------------------------------------------------------
(* Data *)

Plain(kind) == [type |-> kind]
Ready(b)    == [type |-> "setReady", ready |-> b]
Kick(seat)  == [type |-> "kick", seat |-> seat]

\* The end of a websocket, behind the last message it delivered.
Closed == Plain("closed")

\* What a client asks as a member: commands that become messages as they are.
Asks == {"setReady", "start", "kick"}

NoUi    == [here |-> FALSE, code |-> FALSE, players |-> <<>>, me |-> 1,
            starting |-> FALSE]
FreshUi == [NoUi EXCEPT !.here = TRUE]

\* stray: set aside by a mesh build.  dance: the drop dance is armed.  roms
\* and lost: the merge under way, and whether a peer of it has departed.
Task(phase) == [phase |-> phase, stray |-> <<>>, dance |-> FALSE,
                roms |-> <<>>, lost |-> FALSE]

Solo(game) == [kind |-> "local", paused |-> FALSE, unplug |-> FALSE, game |-> game]
NoGame     == [kind |-> "none", paused |-> FALSE, unplug |-> FALSE, game |-> "none"]

Upset(kind) ==
  kind \in Upsets /\ upsets < MaxUpsets /\ upsets' = upsets + 1 /\ UNCHANGED presses
Calm  == UNCHANGED <<upsets, presses>>

Kinds(queue)      == {queue[i].type : i \in DOMAIN queue}
Post(queue, s, m) == [queue EXCEPT ![s] = Append(@, m)]
Take(queue, s)    == [queue EXCEPT ![s] = Tail(@)]

Emit(s, e)    == IF drain[s] = "over" THEN events ELSE Post(events, s, e)
Command(s, m) == IF lobby[s].phase = "done" THEN cmds ELSE Post(cmds, s, m)

RomsOf(players)   == [i \in DOMAIN players |-> players[i].rom]
HoldsAll(s, roms) == ToSet(roms) \subseteq Library[s]

-----------------------------------------------------------------------------
(* Scheduling.  A client is one thread: what a task wakes runs before the  *)
(* client sees the next timer, click or network event.  The tasks of two   *)
(* clients touch nothing in common, so one client's are run at a time.     *)

Settled(s) ==
  /\ drain[s] = "loop" => events[s] = <<>> /\ lobby[s].phase # "done"
  /\ lobby[s].phase = "idle" => cmds[s] = <<>> /\ lobby[s].stray = <<>>
  /\ lobby[s].phase \in {"boot", "pause"} => cmds[s] = <<>>

\* The guard of what a task does once woken, and of everything else.
Woken(s) == \A t \in Socket \ {s} : Settled(t)
Still    == \A t \in Socket : Settled(t)

-----------------------------------------------------------------------------
(* The websocket.  What an event of the server sends is in flight; when it *)
(* stops using a socket, the client's stream ends after that.  The         *)
(* greeting only carries the ICE list and is not kept.                     *)

Ended(t) == sock[t].link = "open" /\ sock'[t].link # "open"
News(t)  == IF sent'[t] = <<Hello>> THEN <<>> ELSE sent'[t]

Flow == down' = [t \in Socket |->
                   IF lobby[t].phase = "done" THEN <<>>
                   ELSE down[t] \o News(t) \o (IF Ended(t) THEN <<Closed>> ELSE <<>>)]

ServerIdle == sent' = Nothing /\ UNCHANGED <<room, sock, alarm>>

Entering(s, m) ==
  \/ m.type = "create" /\ \E c \in Code : CreateRoom(s, c, OwnRom[s], peripheral[s])
  \/ m.type = "join" /\ \E c \in Code :
       JoinRoom(s, c, OwnRom[s]) \/ RefuseJoin(s, c)

Asking(s, m) ==
  \/ m.type = "setReady" /\ SetReady(s, m.ready)
  \/ m.type = "start" /\ (StartRoom(s) \/ RefuseStart(s))
  \/ m.type = "kick" /\ (KickPlayer(s, m.seat, "closing") \/ RefuseKick(s, m.seat))
  \/ m.type \in Asks /\ IgnoreMessage(s)

Going(s, m) ==
  \/ m.type = "leave" /\ Leave(s, "closing")
  \/ m.type = "close" /\ CloseEvent(s)

\* A message behind the end of its socket changes nothing.
Unheard(s, m) ==
  /\ sock[s].link = "gone"
  /\ ServerIdle

ServerHandles(s) ==
  /\ up[s] # <<>>
  /\ Still
  /\ up' = Take(up, s)
  /\ LET m == Head(up[s]) IN
       Entering(s, m) \/ Asking(s, m) \/ Going(s, m) \/ Unheard(s, m)
  /\ Flow
  /\ UNCHANGED <<tasks, player, budget>>

\* The connection breaks and takes along what was on its way up.  The server
\* hears of it by an error event, or never.
Disconnect(s) ==
  /\ lobby[s].phase \notin {"off", "done"}
  /\ Still
  /\ Upset("connection")
  /\ ErrorEvent(s, "closing") \/ LoseSocket(s)
  /\ up' = [up EXCEPT ![s] = <<>>]
  /\ Flow
  /\ UNCHANGED <<tasks, player, peripheral>>

-----------------------------------------------------------------------------
(* The mesh, an external part.  All members hear a Starting from one step  *)
(* of the server: two clients are in the same merge if as many Startings   *)
(* are still ahead of them.                                                *)

Ahead(t)   == Len(SelectSeq(down[t] \o lobby[t].stray, LAMBDA m : m.type = "starting"))
Meshing(t) == lobby[t].phase \in {"mesh", "boot", "exchange"}
Linking(t) == "sessionReady" \in Kinds(events[t]) \/ drain[t] = "reading"
Linked(t)  == machine[t].kind = "netplay"

InMerge(s, t)   == Meshing(t) /\ Ahead(t) = Ahead(s)
PastMerge(s, t) == ~Meshing(t) /\ (Linking(t) \/ Linked(t)) /\ Ahead(t) = Ahead(s)

\* T holds as many others as the merge of s has peers.
Company(s, T) == Cardinality(T \ {s}) >= Len(lobby[s].roms) - 1

\* Nobody else is in the link of s, or on the way into it.
Deserted(s) ==
  \A t \in Socket \ {s} :
    ~(Linked(t) \/ Linking(t) \/ (InMerge(s, t) /\ lobby[t].phase = "exchange"))

-----------------------------------------------------------------------------
(* The lobby task *)

\* start_lobby, up to the message that enters a room.
OpenRoom(s, m) ==
  /\ lobby[s].phase = "off"
  /\ Still
  /\ machine[s].kind = "local" /\ machine[s].game = "own"
  /\ Connect(s)
  /\ Flow
  /\ up' = Post(up, s, m)
  /\ lobby' = [lobby EXCEPT ![s].phase = "idle"]
  /\ drain' = [drain EXCEPT ![s] = "loop"]
  /\ ui' = [ui EXCEPT ![s] = FreshUi]
  /\ UNCHANGED <<cmds, events, machine, budget>>

\* Mutant: the task ends and its socket stays open.
ReturnsOnly(s, goodbye) ==
  /\ lobby' = [lobby EXCEPT ![s] = Task("done")]
  /\ down' = [down EXCEPT ![s] = <<>>]
  /\ cmds' = [cmds EXCEPT ![s] = <<>>]
  /\ UNCHANGED up

\* The task returns: its socket closes, its ends of the queues drop.
Returns(s, goodbye) ==
  /\ lobby' = [lobby EXCEPT ![s] = Task("done")]
  /\ up' = [up EXCEPT ![s] = @ \o goodbye \o <<Plain("close")>>]
  /\ down' = [down EXCEPT ![s] = <<>>]
  /\ cmds' = [cmds EXCEPT ![s] = <<>>]

Dies(s, why) == Returns(s, <<>>) /\ events' = Emit(s, Plain(why))
Quits(s)     == Returns(s, <<Plain("leave")>>) /\ UNCHANGED events

FatalError == {"versionMismatch", "roomNotFound", "roomFull"}

\* handle_server_msg, which leaves the task at "after" and the socket with
\* "rest" unless it ends the task.
Hears(s, m, after, rest) ==
  LET Live(e, next) ==
        /\ events' = e
        /\ lobby' = [lobby EXCEPT ![s] = next]
        /\ down' = [down EXCEPT ![s] = rest]
        /\ UNCHANGED <<up, cmds>>
  IN \/ m.type = "entered" /\ Live(Emit(s, Plain("joined")), after)
     \/ m.type = "roster" /\ m.wireless = peripheral[s] /\ Live(Emit(s, m), after)
     \/ m.type = "roster" /\ m.wireless # peripheral[s] /\ Dies(s, "fatal")
     \/ m.type = "error" /\ m.kind = "kicked" /\ Dies(s, "kicked")
     \/ m.type = "error" /\ m.kind \in FatalError /\ Dies(s, "fatal")
     \/ m.type = "error" /\ m.kind \notin FatalError \cup {"kicked"}
          /\ Live(Emit(s, Plain("error")), after)
     \/ m.type = "starting"
          /\ Live(Emit(s, Plain("starting")),
                  [after EXCEPT !.phase = "mesh", !.roms = m.roms, !.lost = FALSE,
                                !.dance = FALSE])
     \/ m.type = "peerLeft" /\ Live(events, after)
     \/ m = Closed /\ Dies(s, "fatal")

\* The idle phase replays what a merge set aside before it selects over the
\* dance timer, the commands and the socket.
Selecting(s) == lobby[s].phase = "idle" /\ lobby[s].stray = <<>>

ReplayStray(s) ==
  /\ lobby[s].phase = "idle" /\ lobby[s].stray # <<>>
  /\ Woken(s)
  /\ Hears(s, Head(lobby[s].stray), [lobby[s] EXCEPT !.stray = Tail(@)], down[s])
  /\ ServerIdle /\ UNCHANGED <<drain, player, budget>>

HearServer(s) ==
  /\ Selecting(s) /\ down[s] # <<>>
  /\ Woken(s)
  /\ Hears(s, Head(down[s]), lobby[s], Tail(down[s]))
  /\ ServerIdle /\ UNCHANGED <<drain, player, budget>>

\* DROP_DANCE_MS after a dropped session: withdraw, to void the dead merge.
DanceStep(s) ==
  /\ Selecting(s) /\ lobby[s].dance
  /\ Still
  /\ lobby' = [lobby EXCEPT ![s].dance = FALSE]
  /\ up' = Post(up, s, Ready(FALSE))
  /\ ServerIdle /\ UNCHANGED <<down, cmds, events, drain, player, budget>>

\* Each phase forwards, heeds or drops what it reads from the queue.
ReadCommand(s) ==
  /\ cmds[s] # <<>>
  /\ Woken(s)
  /\ LET m     == Head(cmds[s])
         phase == lobby[s].phase
         Read(task, out) ==
           /\ cmds' = Take(cmds, s)
           /\ lobby' = [lobby EXCEPT ![s] = task]
           /\ up' = [up EXCEPT ![s] = @ \o out]
           /\ UNCHANGED <<down, events>>
     IN /\ phase \in {"boot", "pause"} \/ Selecting(s)
        /\ \/ m.type \in Asks /\ phase # "boot" /\ Read(lobby[s], <<m>>)
           \/ m.type \in Asks /\ phase = "boot" /\ Read(lobby[s], <<>>)
           \/ m.type = "dropped"
                /\ Read([lobby[s] EXCEPT !.dance =
                           @ \/ (phase = "idle" /\ peripheral[s])], <<>>)
           \/ m.type = "boot" /\ phase = "boot"
                /\ Read([lobby[s] EXCEPT !.phase = "exchange"], <<>>)
           \/ m.type = "boot" /\ phase # "boot" /\ Read(lobby[s], <<>>)
           \/ m.type = "leave" /\ Quits(s)
  /\ ServerIdle /\ UNCHANGED <<drain, player, budget>>

\* Mutant: the build drops the rosters it hears.
HearInMeshOnly(s) ==
  /\ lobby[s].phase = "mesh" /\ down[s] # <<>> /\ Head(down[s]) # Closed
  /\ Woken(s)
  /\ LET m == Head(down[s]) IN
       lobby' = [lobby EXCEPT
                   ![s].stray = IF m.type \in {"starting", "error"}
                                THEN Append(@, m) ELSE @,
                   ![s].lost = @ \/ m.type = "peerLeft"]
  /\ down' = Take(down, s)
  /\ ServerIdle /\ UNCHANGED <<up, cmds, events, drain, player, budget>>

\* mesh::build sets aside what is not about its edges; an ended socket fails
\* it and stays ended.
HearInMesh(s) ==
  /\ lobby[s].phase = "mesh" /\ down[s] # <<>> /\ Head(down[s]) # Closed
  /\ Woken(s)
  /\ LET m == Head(down[s]) IN
       lobby' = [lobby EXCEPT
                   ![s].stray = IF m.type \in {"roster", "starting", "error"}
                                THEN Append(@, m) ELSE @,
                   ![s].lost = @ \/ m.type = "peerLeft"]
  /\ down' = Take(down, s)
  /\ ServerIdle /\ UNCHANGED <<up, cmds, events, drain, player, budget>>

MeshUp(s) ==
  /\ lobby[s].phase = "mesh"
  /\ Company(s, {t \in Socket : InMerge(s, t)})
  /\ Still
  /\ lobby' = [lobby EXCEPT ![s].phase = "boot"]
  /\ ServerIdle /\ UNCHANGED <<wire, cmds, events, drain, player, budget>>

ExchangeDone(s) ==
  /\ lobby[s].phase = "exchange"
  /\ Company(s, {t \in Socket : \/ InMerge(s, t) /\ lobby[t].phase = "exchange"
                                \/ PastMerge(s, t)})
  /\ Still
  /\ lobby' = [lobby EXCEPT ![s].phase = "idle"]
  /\ events' = Emit(s, [type |-> "sessionReady", roms |-> lobby[s].roms])
  /\ ServerIdle /\ UNCHANGED <<wire, cmds, drain, player, budget>>

\* The merge fails: because a peer departed or fell out of it, because the
\* socket ended, or for no reason.  A kick set aside by the build is what
\* ended it then.
MergeFails(s) ==
  LET task   == lobby[s]
      stray  == task.stray
      kicked == \E i \in DOMAIN stray :
                  stray[i].type = "error" /\ stray[i].kind = "kicked"
      excuse == \/ task.lost
                \/ task.phase = "mesh" /\ down[s] # <<>> /\ Head(down[s]) = Closed
                \/ ~Company(s, {t \in Socket : InMerge(s, t) \/ PastMerge(s, t)
                                                 \/ Ahead(t) > Ahead(s)})
  IN /\ task.phase \in {"mesh", "exchange"}
     /\ Still
     /\ (excuse /\ Calm) \/ Upset("mesh")
     /\ IF kicked THEN Dies(s, "kicked")
        ELSE /\ events' = Emit(s, Plain("mergeFailed"))
             /\ lobby' = [lobby EXCEPT ![s].phase =
                            IF peripheral[s] THEN "pause" ELSE "idle"]
             /\ UNCHANGED <<wire, cmds>>
     /\ ServerIdle /\ UNCHANGED <<drain, player, peripheral>>

\* Mutant: the failed merge is not voided.
PauseEndsOnly(s) ==
  /\ lobby[s].phase = "pause"
  /\ Still
  /\ lobby' = [lobby EXCEPT ![s].phase = "idle"]
  /\ ServerIdle /\ UNCHANGED <<wire, cmds, events, drain, player, budget>>

\* MERGE_RETRY_MS later: withdraw, to void the failed merge.
PauseEnds(s) ==
  /\ lobby[s].phase = "pause"
  /\ Still
  /\ lobby' = [lobby EXCEPT ![s].phase = "idle"]
  /\ up' = Post(up, s, Ready(FALSE))
  /\ ServerIdle /\ UNCHANGED <<down, cmds, events, drain, player, budget>>

-----------------------------------------------------------------------------
(* The drain task *)

Frozen(s)  == machine[s].kind # "none" /\ machine[s].paused
Running(m) == [m EXCEPT !.paused = FALSE]

\* Mutant: the machine stays as the merge left it.
LinkFailedAsIs(s, m) ==
  /\ machine' = [machine EXCEPT ![s] = m]
  /\ ui' = [ui EXCEPT ![s] = NoUi]
  /\ drain' = [drain EXCEPT ![s] = "over"]
  /\ events' = [events EXCEPT ![s] = <<>>]
  /\ cmds' = Command(s, Plain("leave"))

\* link_failed and the return behind it: the machine runs, the panel is left,
\* the handle drops and says Leave.
LinkFailed(s, m) ==
  /\ machine' = [machine EXCEPT ![s] = Running(m)]
  /\ ui' = [ui EXCEPT ![s] = NoUi]
  /\ drain' = [drain EXCEPT ![s] = "over"]
  /\ events' = [events EXCEPT ![s] = <<>>]
  /\ cmds' = Command(s, Plain("leave"))

\* A capture freezes the solo machine; anything else cannot be captured.
Capture(s) ==
  IF machine[s].kind = "local"
  THEN /\ machine' = [machine EXCEPT ![s].paused = TRUE]
       /\ cmds' = Command(s, Plain("boot"))
       /\ drain' = [drain EXCEPT ![s] = "loop"]
       /\ UNCHANGED <<ui, events>>
  ELSE LinkFailed(s, machine[s])

\* Mutant: an event brings a panel back that the user has left.
PanelBack(s, u) == ui' = [ui EXCEPT ![s] = u]

\* The panel follows an event if the user has not left it.
Panel(s, u) == ui' = IF ui[s].here THEN [ui EXCEPT ![s] = u] ELSE ui

DrainOnly == ServerIdle /\ UNCHANGED <<wire, lobby, budget>>

Drains(s, type) ==
  /\ drain[s] = "loop" /\ events[s] # <<>> /\ Head(events[s]).type = type
  /\ Woken(s)
  /\ DrainOnly

DrainJoined(s) ==
  /\ Drains(s, "joined")
  /\ Panel(s, [ui[s] EXCEPT !.code = TRUE])
  /\ events' = Take(events, s)
  /\ UNCHANGED <<cmds, drain, machine>>

\* Mutant: readiness is only re-asserted outside of a merge.
DrainRosterIdle(s) ==
  LET m     == Head(events[s])
      ready == HoldsAll(s, RomsOf(m.players))
      held  == Frozen(s) /\ ~ui[s].starting
  IN /\ Drains(s, "roster")
     /\ cmds' = IF ~ui[s].starting /\ m.players[m.idx].ready # ready
                THEN Command(s, Ready(ready)) ELSE cmds
     /\ machine' = IF held /\ Len(m.players) < 2
                   THEN [machine EXCEPT ![s] = Running(@)] ELSE machine
     /\ Panel(s, [ui[s] EXCEPT !.players = m.players, !.me = m.idx])
     /\ events' = Take(events, s)
     /\ UNCHANGED drain

\* Re-assert readiness where the roster has it wrong; a held machine whose
\* company has left runs again.
DrainRoster(s) ==
  LET m     == Head(events[s])
      ready == HoldsAll(s, RomsOf(m.players))
      held  == Frozen(s) /\ ~ui[s].starting
  IN /\ Drains(s, "roster")
     /\ cmds' = IF m.players[m.idx].ready # ready THEN Command(s, Ready(ready)) ELSE cmds
     /\ machine' = IF held /\ Len(m.players) < 2
                   THEN [machine EXCEPT ![s] = Running(@)] ELSE machine
     /\ Panel(s, [ui[s] EXCEPT !.players = m.players, !.me = m.idx])
     /\ events' = Take(events, s)
     /\ UNCHANGED drain

\* An error only changes the status line.
DrainError(s) ==
  /\ Drains(s, "error")
  /\ events' = Take(events, s)
  /\ UNCHANGED <<cmds, drain, player>>

\* A linked machine walks out of its link first and is captured after that.
\* A capture that fails is left out; it ends the drain like a game that is gone.
DrainStarting(s) ==
  /\ Drains(s, "starting")
  /\ IF machine[s].kind = "netplay"
     THEN /\ Panel(s, [ui[s] EXCEPT !.starting = TRUE])
          /\ machine' = [machine EXCEPT ![s].unplug = TRUE]
          /\ drain' = [drain EXCEPT ![s] = "unplugging"]
          /\ events' = Take(events, s)
          /\ UNCHANGED cmds
     ELSE IF machine[s].kind = "local"
     THEN /\ Panel(s, [ui[s] EXCEPT !.starting = TRUE])
          /\ machine' = [machine EXCEPT ![s].paused = TRUE]
          /\ cmds' = Command(s, Plain("boot"))
          /\ events' = Take(events, s)
          /\ UNCHANGED drain
     ELSE LinkFailed(s, machine[s])

\* The wait for the pump ends when the machine is not linked any more, or
\* after UNPLUG_WAIT_TRIES.
Unplugged(s) ==
  /\ drain[s] = "unplugging"
  /\ Still
  /\ (machine[s].kind # "netplay" /\ Calm) \/ Upset("machine")
  /\ Capture(s)
  /\ ServerIdle /\ UNCHANGED <<wire, lobby, peripheral>>

\* Mutant: a failed merge leaves the machine to the next one.
DrainMergeFailedHeld(s) ==
  /\ Drains(s, "mergeFailed")
  /\ Panel(s, [ui[s] EXCEPT !.starting = FALSE])
  /\ events' = Take(events, s)
  /\ UNCHANGED <<cmds, drain, machine>>

DrainMergeFailed(s) ==
  /\ Drains(s, "mergeFailed")
  /\ machine' = [machine EXCEPT ![s] = Running(@)]
  /\ Panel(s, [ui[s] EXCEPT !.starting = FALSE])
  /\ events' = Take(events, s)
  /\ UNCHANGED <<cmds, drain>>

DrainEnd(s) ==
  \/ Drains(s, "fatal") /\ LinkFailed(s, machine[s])
  \/ Drains(s, "kicked")
       /\ LinkFailed(s, [machine[s] EXCEPT !.unplug = @ \/ machine[s].kind = "netplay"])

\* The ROM files are read asynchronously, one after the other.
DrainSessionReady(s) ==
  /\ Drains(s, "sessionReady")
  /\ IF HoldsAll(s, Head(events[s]).roms)
     THEN /\ drain' = [drain EXCEPT ![s] = "reading"]
          /\ events' = Take(events, s)
          /\ UNCHANGED <<cmds, player>>
     ELSE LinkFailed(s, machine[s])

\* plug_in takes whatever solo machine there is when the files are read.
PlugIn(s) ==
  /\ drain[s] = "reading"
  /\ Still
  /\ \/ /\ machine[s].kind = "local"
        /\ machine' = [machine EXCEPT ![s] = [@ EXCEPT !.kind = "netplay",
                                                       !.paused = FALSE]]
        /\ Panel(s, [ui[s] EXCEPT !.starting = FALSE])
        /\ drain' = [drain EXCEPT ![s] = "loop"]
        /\ Calm /\ UNCHANGED <<cmds, events>>
     \/ /\ (machine[s].kind # "local" /\ Calm) \/ Upset("machine")
        /\ LinkFailed(s, machine[s])
  /\ ServerIdle /\ UNCHANGED <<wire, lobby, peripheral>>

\* The event stream has ended: whatever happened, the machine runs.
DrainEpilogue(s) ==
  /\ Woken(s) /\ DrainOnly
  /\ drain[s] = "loop" /\ events[s] = <<>> /\ lobby[s].phase = "done"
  /\ machine' = [machine EXCEPT ![s] = Running(@)]
  /\ ui' = [ui EXCEPT ![s] = NoUi]
  /\ drain' = [drain EXCEPT ![s] = "over"]
  /\ UNCHANGED <<cmds, events>>

-----------------------------------------------------------------------------
(* The machine *)

MachineOnly ==
  ServerIdle /\ UNCHANGED <<wire, lobby, events, drain, peripheral>>

\* The pump ends an unplugged session and continues solo; the continuation may
\* fail to boot, and the game ends.
PumpUnplugs(s) ==
  /\ machine[s].kind = "netplay" /\ machine[s].unplug
  /\ Still
  /\ \/ machine' = [machine EXCEPT ![s] = Solo(@.game)] /\ Calm
     \/ machine' = [machine EXCEPT ![s] = NoGame] /\ Upset("machine")
  /\ MachineOnly /\ UNCHANGED <<cmds, ui>>

\* Mutant: the lobby does not hear of the drop.
PeerGoneUnheard(s) ==
  LET hold == peripheral[s] /\ Len(ui[s].players) >= 2 IN
  /\ Linked(s) /\ ~machine[s].unplug
  /\ Still
  /\ (Deserted(s) /\ Calm) \/ Upset("session")
  /\ machine' = [machine EXCEPT ![s] = [Solo(@.game) EXCEPT !.paused = hold]]
  /\ MachineOnly /\ UNCHANGED <<cmds, ui>>

\* The session dies of a peer.  A wireless machine is held frozen against the
\* re-merge if its panel shows company; the lobby hears of the drop.
PeerGone(s) ==
  LET hold == peripheral[s] /\ Len(ui[s].players) >= 2 IN
  /\ Linked(s) /\ ~machine[s].unplug
  /\ Still
  /\ (Deserted(s) /\ Calm) \/ Upset("session")
  /\ machine' = [machine EXCEPT ![s] = [Solo(@.game) EXCEPT !.paused = hold]]
  /\ cmds' = IF ui[s].here THEN Command(s, Plain("dropped")) ELSE cmds
  /\ MachineOnly /\ UNCHANGED ui

-----------------------------------------------------------------------------
(* The user *)

\* LinkUpButton, for position 1 of a complete cable room.
LinkUp(s) ==
  LET u == ui[s] IN
  /\ u.here /\ u.code /\ ~u.starting /\ u.me = 1
  /\ Still
  /\ ~peripheral[s] /\ machine[s].kind # "none"
  /\ Len(u.players) >= 2
  /\ \A i \in DOMAIN u.players : u.players[i].ready
  /\ HoldsAll(s, RomsOf(u.players))
  /\ ui' = [ui EXCEPT ![s].starting = TRUE]
  /\ cmds' = Command(s, Plain("start"))
  /\ presses < MaxPresses /\ presses' = presses + 1
  /\ MachineOnly /\ UNCHANGED <<machine, upsets>>

\* The eject control, which sends a kick by seat.
EjectPlayer(s) ==
  /\ ui[s].here /\ ~ui[s].starting /\ ui[s].me = 1
  /\ Still
  /\ \E i \in DOMAIN ui[s].players \ {1} :
       cmds' = Command(s, Kick(ui[s].players[i].seat))
  /\ Upset("eject")
  /\ MachineOnly /\ UNCHANGED player

\* The Leave buttons of the link panel and, in a session, of the telemetry
\* card, which pulls the link too.
LeaveRoom(s) ==
  /\ ui[s].here
  /\ Still
  /\ ui' = [ui EXCEPT ![s] = NoUi]
  /\ cmds' = Command(s, Plain("leave"))
  /\ machine' = [machine EXCEPT ![s] = IF @.kind = "netplay"
                                       THEN [@ EXCEPT !.unplug = TRUE] ELSE Running(@)]
  /\ Upset("leave")
  /\ MachineOnly

\* Quit game leaves the room and closes the session.
QuitGame(s) ==
  /\ machine[s].kind # "none"
  /\ Still
  /\ machine' = [machine EXCEPT ![s] = NoGame]
  /\ ui' = [ui EXCEPT ![s] = NoUi]
  /\ cmds' = IF ui[s].here THEN Command(s, Plain("leave")) ELSE cmds
  /\ Upset("quit")
  /\ MachineOnly

\* Bound: one further game, which opens no room.
LaunchGame(s) ==
  /\ machine[s].kind = "none"
  /\ Still
  /\ machine' = [machine EXCEPT ![s] = Solo("other")]
  /\ MachineOnly /\ Calm /\ UNCHANGED <<cmds, ui>>

-----------------------------------------------------------------------------
(* The specification *)

ClientInit ==
  /\ Init
  /\ peripheral \in [Socket -> Adapters]
  /\ up = [s \in Socket |-> <<>>] /\ down = [s \in Socket |-> <<>>]
  /\ lobby = [s \in Socket |-> Task("off")]
  /\ cmds = [s \in Socket |-> <<>>] /\ events = [s \in Socket |-> <<>>]
  /\ drain = [s \in Socket |-> "over"]
  /\ ui = [s \in Socket |-> NoUi]
  /\ machine = [s \in Socket |-> Solo("own")]
  /\ upsets = 0 /\ presses = 0

LobbyTask(s) ==
  \/ ReplayStray(s) \/ HearServer(s) \/ ReadCommand(s) \/ HearInMesh(s)
  \/ DanceStep(s) \/ PauseEnds(s) \/ MeshUp(s) \/ MergeFails(s) \/ ExchangeDone(s)

DrainTask(s) ==
  \/ DrainJoined(s) \/ DrainRoster(s) \/ DrainError(s) \/ DrainStarting(s)
  \/ DrainMergeFailed(s) \/ DrainEnd(s) \/ DrainSessionReady(s) \/ DrainEpilogue(s)
  \/ Unplugged(s) \/ PlugIn(s)

User(s) ==
  \/ OpenRoom(s, Plain(IF s = Creator THEN "create" ELSE "join"))
  \/ LinkUp(s) \/ EjectPlayer(s) \/ LeaveRoom(s) \/ QuitGame(s) \/ LaunchGame(s)

ClientNext ==
  \E s \in Socket :
    \/ ServerHandles(s) \/ Disconnect(s)
    \/ LobbyTask(s) \/ DrainTask(s)
    \/ PumpUnplugs(s) \/ PeerGone(s)
    \/ User(s)

ClientSpec == ClientInit /\ [][ClientNext]_allVars

\* The server handles what arrives, and the one thread of a client runs its
\* tasks, timers and pump; users and failures owe nothing.
Progress(s) ==
  /\ WF_allVars(ServerHandles(s))
  /\ WF_allVars(LobbyTask(s) \/ DrainTask(s) \/ PumpUnplugs(s))

FairClients == ClientSpec /\ \A s \in Socket : Progress(s)

-----------------------------------------------------------------------------
(* What the composition guarantees *)

\* Queues, tasks and panels keep their shapes; a panel that was left shows
\* nothing; the bounds hold.
ClientTypeOK ==
  /\ TypeOK
  /\ \A s \in Socket :
       /\ Kinds(up[s]) \subseteq Asks \cup {"create", "join", "leave", "close"}
       /\ Kinds(down[s]) \subseteq
            {"entered", "roster", "starting", "peerLeft", "error", "closed"}
       /\ Kinds(cmds[s]) \subseteq Asks \cup {"boot", "dropped", "leave"}
       /\ Kinds(events[s]) \subseteq
            {"joined", "roster", "error", "starting", "mergeFailed", "sessionReady",
             "fatal", "kicked"}
       /\ lobby[s].phase \in {"off", "idle", "mesh", "boot", "exchange", "pause", "done"}
       /\ Kinds(lobby[s].stray) \subseteq {"roster", "starting", "error"}
       /\ drain[s] \in {"loop", "unplugging", "reading", "over"}
       /\ ui[s].here \in BOOLEAN /\ ui[s].players \in Seq(Player)
       /\ ~ui[s].here => ui[s] = NoUi
       /\ machine[s] \in [kind : {"local", "netplay", "none"}, paused : BOOLEAN,
                          unplug : BOOLEAN, game : {"own", "other", "none"}]
  /\ upsets \in 0 .. MaxUpsets /\ presses \in 0 .. MaxPresses

\* Nothing of the client is under way: no message, no command, no timer, no
\* link that has yet to find out that it is dead.
Quiet(s) ==
  /\ up[s] = <<>> /\ down[s] = <<>> /\ Settled(s)
  /\ lobby[s].phase \in {"idle", "done"} /\ ~lobby[s].dance
  /\ drain[s] \in {"loop", "over"}
  /\ ~machine[s].unplug
  /\ Linked(s) => ~Deserted(s)

\* Whenever a client comes to rest with the panel showing a room, the server
\* lists the player in it, and the panel shows the server's roster and the
\* player's place in it, whatever a merge set aside meanwhile.
MirrorFaithful ==
  \A s \in Socket : Quiet(s) /\ ui[s].here =>
    /\ Placed(s)
    /\ ui[s].players = room[sock[s].code].players
    /\ ui[s].me = Position(room[sock[s].code], s)

\* "every member keeps it asserted": at rest, a member that holds every ROM of
\* the room is listed ready, however its reports crossed the resets of merges
\* and withdrawals and whichever of them a merge phase dropped.
ReadyKept ==
  \A s \in Socket : Quiet(s) /\ Placed(s) /\ drain[s] = "loop" =>
    LET r == room[sock[s].code] IN
    HoldsAll(s, RomsOf(r.players)) => r.players[Position(r, s)].ready

\* Nobody is left behind: when all is at rest, each member of a wireless room
\* with company and everyone's consent, if its game still runs, is linked.
\* A failed mesh or a dropped session is repaired by a merge of all.
NobodyLeftBehind ==
  (\A s \in Socket : lobby[s].phase # "off" => Quiet(s)) =>
    \A c \in DOMAIN room : room[c].wireless /\ Unanimous(room[c]) =>
      \A s \in ToSet(Ids(room[c])) :
        drain[s] = "loop" /\ machine[s].kind # "none" => machine[s].kind = "netplay"

\* "However it went, never leave the machine frozen": once the drain task is
\* over, the machine runs.
OverMeansRunning == \A s \in Socket : drain[s] = "over" => ~Frozen(s)

\* "Pause only happens transiently": whatever froze the machine - a capture,
\* or the hold against a re-merge - some outcome of the merge frees it.
PauseIsTransient == \A s \in Socket : Frozen(s) ~> ~Frozen(s)

\* A player that left, by choice or because linking failed, leaves the room
\* at the server, too, unless its connection was lost.
LeavingLeaves ==
  \A s \in Socket :
    (lobby[s].phase # "off" /\ ~ui[s].here)
      ~> (lobby[s].phase = "done" /\ (sock[s].link # "open" \/ ~Placed(s)))

-----------------------------------------------------------------------------
(* What the sources claim and the composition does not keep *)

\* signaling.proto says the ready bit means "I hold every ROM in this roster"
\* and that an all-ready roster is what lets a merge fire: no merge begins in
\* a room where a member lacks a ROM.
MergesAreComplete ==
  [][\A t \in Socket : "starting" \in Kinds(sent'[t]) =>
       LET r == room'[sock'[t].code] IN
       \A s \in ToSet(Ids(r)) : HoldsAll(s, RomsOf(r.players))]_allVars

\* lobby.rs says of a failed link-up in a cable room that position 0 "presses
\* the button again", and of an error that it is non-fatal: a press of the
\* button, which greys it, is eventually over.
PressIsOver == \A s \in Socket : ui[s].starting ~> ~ui[s].starting

\* session_view.rs says that "a lobby can't outlive the session it would plug
\* into": no room links up a game launched after the one that entered it.
LinksItsOwnGame == \A s \in Socket : machine[s].kind = "netplay" => machine[s].game = "own"
=============================================================================
