------------------------------- MODULE Saves --------------------------------
(***************************************************************************)
(* Saves and the picker (gbaroll/src/runtime/mod.rs, ui/play.rs,           *)
(* ui/shell.rs, storage/mod.rs, web/mod.rs): a session's SRAM is written   *)
(* back to disk by tasks nobody waits for, while the picker lists the      *)
(* directory, drops a pick it does not find, and renames, deletes, imports *)
(* and launches in tasks of its own.                                       *)
(*                                                                         *)
(* One JavaScript thread: an action is what runs between two awaits, with  *)
(* the effects it triggers.  The bytes of a save are the number of the     *)
(* moment in the game they hold, 0 for a new cart's.  The library of ROMs, *)
(* searching and the browser's file dialogs are left out.                  *)
(***************************************************************************)
EXTENDS Integers, FiniteSets, Functions

CONSTANTS
  Game,        \* the games in the library, by CRC32
  Name,        \* names of save files
  DisplayName, \* [Game -> Name]: what a fresh cart persists into
  MaxMoments,  \* bound: moments of play
  MaxClicks,   \* bound: what the user does in the picker
  MaxFaults    \* bound: storage calls that fail

ASSUME SavesAssumption ==
  /\ DisplayName \in [Game -> Name]
  /\ MaxMoments \in Nat /\ MaxClicks \in Nat /\ MaxFaults \in Nat

VARIABLES
  disk,      \* saves/<crc32>/: per game a function from file names to bytes
  pick,      \* selected_game and selected_save
  lastSaves, \* Config::last_saves
  listing,   \* game_saves_res: [pc, game, authoritative, files], and shown, its value
  session,   \* the running session: kind ("none", "local", "netplay"), sram
  runtime,   \* save_target, saved_crc, last_persisted_save
  writes,    \* the write-backs under way
  inFlight,  \* SAVES_IN_FLIGHT
  chore,     \* the task of the picker under way: rename, delete or import
  launch,    \* the task of Play: pc, game, save, bytes
  budget     \* bounds: moments played, clicks and faults left

savesVars == <<disk, pick, lastSaves, listing, session, runtime, writes, inFlight,
               chore, launch, budget>>

NoGame == "no game"
Fresh == "(fresh save)"
Nothing == -1
Nowhere == [game |-> NoGame, file |-> Fresh]
NoChore == [kind |-> "none"]
NoLaunch == [pc |-> "none"]
NotShown == [game |-> NoGame, files |-> {}]

InPicker == session.kind = "none"
Files(g) == IF g = NoGame THEN {} ELSE DOMAIN disk[g]
With(f, name, bytes) ==
  [n \in DOMAIN f \cup {name} |-> IF n = name THEN bytes ELSE f[n]]
Without(f, name) == Restrict(f, DOMAIN f \ {name})

-----------------------------------------------------------------------------
(* The listing *)

\* Mutant: a listing speaks for the directory whatever is in flight.
AuthoritativeAlways(n) == TRUE

\* Whether a listing begun now may be believed.
Authoritative(n) == n = 0

\* The resource starts over: a listing for this game, with so many write-backs
\* in flight.  The value shown stays until the new one is there.
Relisting(game, n) ==
  [listing EXCEPT !.pc = "begun", !.game = game, !.authoritative = Authoritative(n)]

Unmounted == [pc |-> "off", game |-> NoGame, authoritative |-> FALSE, files |-> {},
              shown |-> NotShown]

Relist(game, n) == listing' = IF InPicker THEN Relisting(game, n) ELSE listing

-----------------------------------------------------------------------------
SavesInit ==
  /\ disk = [g \in Game |-> <<>>]
  /\ pick = [game |-> NoGame, save |-> Fresh]
  /\ lastSaves = [g \in Game |-> Fresh]
  /\ listing = [Unmounted EXCEPT !.pc = "begun"]
  /\ session = [kind |-> "none", sram |-> 0]
  /\ runtime = [target |-> Nowhere, saved |-> Nothing, persisted |-> Nowhere]
  /\ writes = {} /\ inFlight = 0
  /\ chore = NoChore /\ launch = NoLaunch
  /\ budget = [played |-> 0, clicks |-> MaxClicks, faults |-> MaxFaults]

Clicks == budget.clicks > 0 /\ budget' = [budget EXCEPT !.clicks = @ - 1]
Fails == budget.faults > 0 /\ budget' = [budget EXCEPT !.faults = @ - 1]

-----------------------------------------------------------------------------
(* The picker *)

PickGame(g) ==
  /\ InPicker /\ pick.game # g /\ Clicks
  /\ pick' = [game |-> g, save |-> lastSaves[g]]
  /\ Relist(g, inFlight)
  /\ UNCHANGED <<disk, lastSaves, session, runtime, writes, inFlight, chore, launch>>

\* A row of the list shown, or the fresh one.
PickSave(s) ==
  /\ InPicker /\ pick.game # NoGame /\ pick.save # s
  /\ s = Fresh \/ (listing.shown.game = pick.game /\ s \in listing.shown.files)
  /\ Clicks
  /\ pick' = [pick EXCEPT !.save = s]
  /\ lastSaves' = [lastSaves EXCEPT ![pick.game] = s]
  /\ UNCHANGED <<disk, listing, session, runtime, writes, inFlight, chore, launch>>

\* list_game_saves(): the directory as it is at that moment.
ListReads ==
  /\ listing.pc = "begun"
  /\ listing' = [listing EXCEPT !.pc = "read", !.files = Files(listing.game)]
  /\ UNCHANGED <<disk, pick, lastSaves, session, runtime, writes, inFlight, chore,
                 launch, budget>>

\* The listing lands, and a pick that an authoritative listing of its game does
\* not hold is dropped, with the memory of it.
ListLands ==
  /\ listing.pc = "read"
  /\ listing' = [listing EXCEPT !.pc = "here",
                                !.shown = [game |-> listing.game, files |-> listing.files]]
  /\ IF /\ listing.authoritative /\ listing.game # NoGame /\ listing.game = pick.game
        /\ pick.save \notin listing.files \cup {Fresh}
       THEN /\ pick' = [pick EXCEPT !.save = Fresh]
            /\ lastSaves' = [lastSaves EXCEPT ![pick.game] = Fresh]
       ELSE UNCHANGED <<pick, lastSaves>>
  /\ UNCHANGED <<disk, session, runtime, writes, inFlight, chore, launch, budget>>

\* A click on a row's rename or delete, or a file handed to the importer, starts
\* a task.
StartChore ==
  /\ InPicker /\ chore = NoChore /\ pick.game # NoGame /\ Clicks
  /\ \/ \E s \in listing.shown.files :
          /\ listing.shown.game = pick.game
          /\ \/ \E to \in Name :
                  chore' = [kind |-> "rename", pc |-> "read", game |-> pick.game,
                            save |-> s, to |-> to, bytes |-> Nothing]
             \/ chore' = [kind |-> "delete", game |-> pick.game, save |-> s]
     \/ \E n \in Name : chore' = [kind |-> "import", game |-> pick.game, save |-> n]
  /\ UNCHANGED <<disk, pick, lastSaves, listing, session, runtime, writes, inFlight, launch>>

\* storage::rename(): nothing is overwritten, and the file must be there.  A
\* refusal re-lists all the same.
RenameReads ==
  /\ chore.kind = "rename" /\ chore.pc = "read" /\ chore.save # chore.to
  /\ IF chore.to \notin Files(chore.game) /\ chore.save \in Files(chore.game)
       THEN /\ chore' = [chore EXCEPT !.pc = "copy", !.bytes = disk[chore.game][chore.save]]
            /\ UNCHANGED listing
       ELSE chore' = NoChore /\ Relist(pick.game, inFlight)
  /\ UNCHANGED <<disk, pick, lastSaves, session, runtime, writes, inFlight, launch, budget>>

\* write() makes the file and then fills it: one step here, so the moment of an
\* empty copy and the faults of a rename's storage calls are left out.
RenameCopies ==
  /\ chore.kind = "rename" /\ chore.pc = "copy"
  /\ disk' = [disk EXCEPT ![chore.game] = With(@, chore.to, chore.bytes)]
  /\ chore' = [chore EXCEPT !.pc = "drop"]
  /\ UNCHANGED <<pick, lastSaves, listing, session, runtime, writes, inFlight, launch, budget>>

\* Mutant: the directory is not listed again.
RelistNot == listing' = listing

\* SAVES_REV is bumped at the end of a task of the picker.
RelistAfter == Relist(pick.game, inFlight)

\* The old file is deleted (or was already), and the pick and the memory follow.
\* A name renamed to itself only follows.
RenameEnds ==
  /\ chore.kind = "rename" /\ (chore.pc = "drop" \/ chore.save = chore.to)
  /\ LET renamed == chore.save = chore.to \/ chore.save \in Files(chore.game)
         Follows(s) == IF renamed /\ s = chore.save THEN chore.to ELSE s
     IN  /\ disk' = IF chore.pc = "drop"
                      THEN [disk EXCEPT ![chore.game] = Without(@, chore.save)] ELSE disk
         /\ pick' = [pick EXCEPT !.save = Follows(@)]
         /\ lastSaves' = [lastSaves EXCEPT ![chore.game] = Follows(@)]
  /\ chore' = NoChore
  /\ RelistAfter
  /\ UNCHANGED <<session, runtime, writes, inFlight, launch, budget>>

\* storage::delete(); what was not there is reported and changes no pick.
DeleteEnds ==
  /\ chore.kind = "delete"
  /\ LET deleted == chore.save \in Files(chore.game)
         Forgets(s) == IF deleted /\ s = chore.save THEN Fresh ELSE s
     IN  /\ disk' = [disk EXCEPT ![chore.game] = Without(@, chore.save)]
         /\ pick' = [pick EXCEPT !.save = Forgets(@)]
         /\ lastSaves' = [lastSaves EXCEPT ![chore.game] = Forgets(@)]
  /\ chore' = NoChore
  /\ RelistAfter
  /\ UNCHANGED <<session, runtime, writes, inFlight, launch, budget>>

\* import_files() of one save into the game the task started with, then
\* select_imported() under the game picked by now.
ImportEnds ==
  /\ chore.kind = "import"
  /\ disk' = [disk EXCEPT ![chore.game] = With(@, chore.save, 0)]
  /\ pick' = [pick EXCEPT !.save = chore.save]
  /\ lastSaves' = [lastSaves EXCEPT ![pick.game] = chore.save]
  /\ chore' = NoChore
  /\ RelistAfter
  /\ UNCHANGED <<session, runtime, writes, inFlight, launch, budget>>

-----------------------------------------------------------------------------
(* Play *)

Play ==
  /\ InPicker /\ launch = NoLaunch /\ pick.game # NoGame /\ Clicks
  /\ launch' = [pc |-> "read", game |-> pick.game, save |-> pick.save, bytes |-> Nothing]
  /\ UNCHANGED <<disk, pick, lastSaves, listing, session, runtime, writes, inFlight, chore>>

\* A save that cannot be read is as good as none.
LaunchReads ==
  /\ launch.pc = "read"
  /\ launch' = [launch EXCEPT !.pc = "boot",
                              !.bytes = IF launch.save \in Files(launch.game)
                                          THEN disk[launch.game][launch.save] ELSE Nothing]
  /\ UNCHANGED <<disk, pick, lastSaves, listing, session, runtime, writes, inFlight,
                 chore, budget>>

\* web::boot() and start_local(), with no session to close.  The picker goes, and
\* the tasks of its scope with it.
Boots ==
  /\ launch.pc = "boot"
  /\ session' = [kind |-> "local", sram |-> IF launch.bytes = Nothing THEN 0 ELSE launch.bytes]
  /\ runtime' = [target |-> [game |-> launch.game,
                             file |-> IF launch.save = Fresh THEN DisplayName[launch.game]
                                      ELSE launch.save],
                 saved |-> launch.bytes, persisted |-> Nowhere]
  /\ listing' = Unmounted
  /\ chore' = NoChore /\ launch' = NoLaunch
  /\ UNCHANGED <<disk, pick, lastSaves, writes, inFlight, budget>>

-----------------------------------------------------------------------------
(* The session and its write-backs *)

\* The game writes its SRAM.
Played ==
  /\ session.kind # "none" /\ budget.played < MaxMoments
  /\ budget' = [budget EXCEPT !.played = @ + 1]
  /\ session' = [session EXCEPT !.sram = budget.played + 1]
  /\ UNCHANGED <<disk, pick, lastSaves, listing, runtime, writes, inFlight, chore, launch>>

Unsaved == runtime.target # Nowhere /\ runtime.saved # session.sram

\* persist_sram(): unless the bytes are those written last, a write-back starts.
Persist ==
  IF Unsaved
    THEN /\ writes' = writes \cup {[game |-> runtime.target.game, file |-> runtime.target.file,
                                    bytes |-> session.sram, pc |-> "open"]}
         /\ inFlight' = inFlight + 1
    ELSE UNCHANGED <<writes, inFlight>>

\* What persist_sram() leaves in the runtime, whether or not it wrote.
Persisted == [runtime EXCEPT !.persisted = runtime.target, !.saved = session.sram]

\* Every minute of a solo session.
Autosave ==
  /\ session.kind = "local" /\ runtime.target # Nowhere
  /\ Persist
  /\ runtime' = Persisted
  /\ UNCHANGED <<disk, pick, lastSaves, listing, session, chore, launch, budget>>

\* The effect on SESSION_EPOCH: where SRAM persisted is picked, if none is.
Adopt(target) ==
  IF target # Nowhere /\ pick.save = Fresh
    THEN /\ pick' = [pick EXCEPT !.save = target.file]
         /\ lastSaves' = [lastSaves EXCEPT ![target.game] = target.file]
    ELSE UNCHANGED <<pick, lastSaves>>

\* The machine is plugged into a link, or unplugged, which persists it.
Swap ==
  /\ session.kind # "none" /\ budget.clicks > 0
  /\ budget' = [budget EXCEPT !.clicks = @ - 1]
  /\ IF session.kind = "netplay"
       THEN /\ Persist
            /\ session' = [session EXCEPT !.kind = "local"]
            /\ runtime' = [Persisted EXCEPT !.persisted = Nowhere]
            /\ Adopt(Persisted.persisted)
       ELSE /\ session' = [session EXCEPT !.kind = "netplay"]
            /\ runtime' = [runtime EXCEPT !.persisted = Nowhere]
            /\ Adopt(runtime.persisted)
            /\ UNCHANGED <<writes, inFlight>>
  /\ UNCHANGED <<disk, listing, chore, launch>>

\* close_session(), from the Quit button or at an end that leaves no machine; the
\* picker mounts and lists.
Quit ==
  /\ session.kind # "none"
  /\ Persist
  /\ Adopt(Persisted.persisted)
  /\ runtime' = [target |-> Nowhere, saved |-> Nothing, persisted |-> Nowhere]
  /\ session' = [kind |-> "none", sram |-> 0]
  /\ listing' = Relisting(pick.game, inFlight')
  /\ UNCHANGED <<disk, chore, launch, budget>>

\* The write-back's first await: its directory, or none, whereupon it returns.
WriteOpens(w) ==
  /\ w.pc = "open"
  /\ \/ writes' = (writes \ {w}) \cup {[w EXCEPT !.pc = "create"]} /\ UNCHANGED budget
     \/ writes' = writes \ {w} /\ Fails
  /\ UNCHANGED <<disk, pick, lastSaves, listing, session, runtime, inFlight, chore, launch>>

\* storage::write() first makes sure of the file, which is empty if it is new.
WriteCreates(w) ==
  /\ w.pc = "create"
  /\ disk' = IF w.file \in Files(w.game) THEN disk
             ELSE [disk EXCEPT ![w.game] = With(@, w.file, 0)]
  /\ writes' = (writes \ {w}) \cup {[w EXCEPT !.pc = "write"]}
  /\ UNCHANGED <<pick, lastSaves, listing, session, runtime, inFlight, chore, launch, budget>>

\* The write is complete, or has failed, which may cost the file: either way the
\* picker lists again.
WriteEnds(w) ==
  /\ \/ /\ w.pc = "write"
        /\ disk' = [disk EXCEPT ![w.game] = With(@, w.file, w.bytes)]
        /\ UNCHANGED budget
     \/ /\ w.pc \in {"create", "write"} /\ Fails
        /\ \/ UNCHANGED disk
           \/ disk' = [disk EXCEPT ![w.game] = Without(@, w.file)]
  /\ writes' = writes \ {w}
  /\ inFlight' = inFlight - 1
  /\ Relist(pick.game, inFlight - 1)
  /\ UNCHANGED <<pick, lastSaves, session, runtime, chore, launch>>

-----------------------------------------------------------------------------
SavesNext ==
  \/ \E g \in Game : PickGame(g)
  \/ \E s \in Name \cup {Fresh} : PickSave(s)
  \/ ListReads \/ ListLands
  \/ StartChore \/ RenameReads \/ RenameCopies \/ RenameEnds \/ DeleteEnds \/ ImportEnds
  \/ Play \/ LaunchReads \/ Boots
  \/ Played \/ Autosave \/ Swap \/ Quit
  \/ \E w \in writes : WriteOpens(w) \/ WriteCreates(w) \/ WriteEnds(w)

SavesSpec == SavesInit /\ [][SavesNext]_savesVars

-----------------------------------------------------------------------------
(* Properties *)

BeingWritten(g, f) == \E w \in writes : w.game = g /\ w.file = f
BeingMade(g, f) == chore.kind = "rename" /\ chore.game = g /\ chore.to = f

\* The picker drops only picks of files that are neither on disk nor being
\* written back, however its listings and the write-backs cross (but for a file
\* that a rename is just making under the name of a ghost).
PruneOnlyGhosts ==
  [][(listing.pc = "read" /\ listing'.pc = "here" /\ pick' # pick
        /\ ~BeingMade(pick.game, pick.save)) =>
       (pick.save \notin Files(pick.game) /\ ~BeingWritten(pick.game, pick.save))]_savesVars

\* Once all is quiet the pick is a file of its game, whatever was renamed,
\* deleted, imported or not written meanwhile, and under whichever game.
PickIsReal ==
  (InPicker /\ listing.pc = "here" /\ chore = NoChore /\ writes = {} /\ inFlight = 0
     /\ pick.game # NoGame)
    => pick.save \in Files(pick.game) \cup {Fresh}

\* What shell.rs says of a session that was quit: the next Play of its save
\* continues it.
NextPlayContinues ==
  [][\A w \in writes :
       (launch.pc = "boot" /\ session'.kind = "local"
          /\ runtime'.target = [game |-> w.game, file |-> w.file])
         => session'.sram >= w.bytes]_savesVars
=============================================================================
