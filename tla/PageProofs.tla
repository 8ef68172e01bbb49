----------------------------- MODULE PageProofs -----------------------------
(***************************************************************************)
(* Proofs about parts of the page that share no state: held keys, for any  *)
(* keys, modifiers and overlay buttons; saves and the picker, for any      *)
(* library, names and amount of play, clicks and faults; the audio sink,   *)
(* for a ring, pushes, quanta and targets of any size; the stream of a     *)
(* replay, for any ticks, cut off anywhere.                                *)
(***************************************************************************)
EXTENDS Keys, Saves, Sink, ReplayCodec, FiniteSetTheorems, WellFoundedInduction,
        NaturalsInduction, SequenceTheorems, TLAPS

-----------------------------------------------------------------------------
(* Held keys *)

WindowType == [focused : BOOLEAN, playing : BOOLEAN, menu : BOOLEAN,
               capturing : BOOLEAN, inControl : BOOLEAN]

\* HeldIsDown, with keys and buttons apart and the shape of the records.
HeldInv ==
  /\ fingers \in [keys : SUBSET Key, buttons : SUBSET Button]
  /\ window \in WindowType
  /\ heldKeys \subseteq fingers.keys \cup lost
  /\ touched \subseteq fingers.buttons
  /\ ~window.focused => heldKeys = {}

\* A press leaves held what is down or lost, and that key is down.
LEMMA PressHolds ==
  ASSUME HeldInv, NEW k \in Key, Press(k)
  PROVE  HeldInv'
<1> DEFINE down == fingers.keys \cup {k}
<1>1. fingers' = [fingers EXCEPT !.keys = down] /\ touched' = touched
  BY DEF Press
<1>2. /\ fingers' \in [keys : SUBSET Key, buttons : SUBSET Button]
      /\ fingers'.keys = down /\ fingers'.buttons = fingers.buttons
  BY <1>1 DEF HeldInv
<1>3. CASE ~window.focused
  <2>1. UNCHANGED <<window, heldKeys, lost>>
    BY <1>3 DEF Press
  <2> QED
    BY <1>1, <1>2, <2>1 DEF HeldInv
<1>4. CASE window.focused /\ window.capturing
  <2>1. window' = [window EXCEPT !.capturing = FALSE] /\ UNCHANGED <<heldKeys, lost>>
    BY <1>4 DEF Press, KeyDown
  <2>2. window' \in WindowType /\ window'.focused = window.focused
    BY <2>1 DEF HeldInv, WindowType
  <2> QED
    BY <1>1, <1>2, <2>1, <2>2 DEF HeldInv
<1>5. CASE window.focused /\ ~window.capturing
  <2>1. /\ heldKeys' \subseteq (heldKeys \ ShownUp(down)) \cup {k}
        /\ lost' = (lost \ ShownUp(down)) \ {k}
    BY <1>5 DEF Press, KeyDown
  <2>2. window' = window \/ window' = [window EXCEPT !.menu = ~@]
    BY <1>5 DEF Press, KeyDown
  <2>3. window' \in WindowType /\ window'.focused
    BY <1>5, <2>2 DEF HeldInv, WindowType
  <2>4. heldKeys' \subseteq fingers'.keys \cup lost'
    BY <1>2, <2>1 DEF HeldInv
  <2> QED
    BY <1>1, <1>2, <2>3, <2>4 DEF HeldInv
<1> QED
  BY <1>3, <1>4, <1>5

\* A release takes the key from what is held; if none is seen, it is a modifier's
\* and lost, or the window has no focus.
LEMMA LiftHolds ==
  ASSUME HeldInv, NEW k \in Key, LiftKey(k)
  PROVE  HeldInv'
<1> DEFINE down == fingers.keys \ {k}
<1>1. fingers' = [fingers EXCEPT !.keys = down] /\ UNCHANGED <<window, touched>>
  BY DEF LiftKey
<1>2. /\ fingers' \in [keys : SUBSET Key, buttons : SUBSET Button]
      /\ fingers'.keys = down /\ fingers'.buttons = fingers.buttons
  BY <1>1 DEF HeldInv
<1>3. CASE window.focused /\ KeyUp(k, down)
  BY <1>1, <1>2, <1>3 DEF HeldInv, KeyUp, Released
<1>4. CASE ~window.focused /\ UNCHANGED <<heldKeys, lost>>
  BY <1>1, <1>2, <1>4 DEF HeldInv
<1>5. CASE window.focused /\ k \in Sides /\ lost' = lost \cup {k} /\ UNCHANGED heldKeys
  BY <1>1, <1>2, <1>5 DEF HeldInv
<1> QED
  BY <1>3, <1>4, <1>5 DEF LiftKey

LEMMA KeysHold ==
  HeldInv /\ [KeysNext]_keysVars => HeldInv'
<1> SUFFICES ASSUME HeldInv, [KeysNext]_keysVars
             PROVE  HeldInv'
  OBVIOUS
<1>1. CASE \E k \in Key : Press(k) \/ LiftKey(k)
  BY <1>1, PressHolds, LiftHolds
<1>2. CASE LosesFocus
  <2>1. window' \in WindowType
    BY <1>2 DEF LosesFocus, HeldInv, WindowType
  <2> QED
    BY <1>2, <2>1 DEF LosesFocus, HeldInv
<1>3. CASE GainsFocus
  <2>1. window' \in WindowType /\ window'.focused
    BY <1>3 DEF GainsFocus, HeldInv, WindowType
  <2> QED
    BY <1>3, <2>1 DEF GainsFocus, HeldInv
<1>4. CASE SessionTurns \/ Attends
  <2>1. window' \in WindowType /\ window'.focused = window.focused
    BY <1>4 DEF SessionTurns, Attends, HeldInv, WindowType
  <2>2. UNCHANGED <<fingers, heldKeys, lost>> /\ touched' \subseteq touched
    BY <1>4 DEF SessionTurns, Attends
  <2> QED
    BY <2>1, <2>2 DEF HeldInv
<1>5. ASSUME NEW b \in Button, Touches(b) \/ Lifts(b)
      PROVE  HeldInv'
  <2>1. /\ fingers' \in [keys : SUBSET Key, buttons : SUBSET Button]
        /\ fingers'.keys = fingers.keys /\ touched' \subseteq fingers'.buttons
    BY <1>5 DEF Touches, Lifts, HeldInv
  <2>2. UNCHANGED <<window, heldKeys, lost>>
    BY <1>5 DEF Touches, Lifts
  <2> QED
    BY <2>1, <2>2 DEF HeldInv
<1>6. CASE UNCHANGED keysVars
  BY <1>6 DEF keysVars, HeldInv
<1> QED
  BY <1>1, <1>2, <1>3, <1>4, <1>5, <1>6 DEF KeysNext

\* What is held for the game is under a finger, or a modifier whose release no
\* event has shown yet.
THEOREM HeldIsAlwaysDown == KeysSpec => []HeldIsDown
<1>1. KeysInit => HeldInv
  BY DEF KeysInit, HeldInv, WindowType
<1>2. HeldInv => HeldIsDown
  BY DEF HeldInv, HeldIsDown, Joyflags
<1> QED
  BY <1>1, <1>2, KeysHold, PTL DEF KeysSpec

-----------------------------------------------------------------------------
(* Saves: the shape of the state *)

Pickable == Game \cup {NoGame}
Saveable == Name \cup {Fresh}

Directory == UNION {[files -> Int] : files \in SUBSET Saveable}

Target == [game : Game, file : Saveable] \cup {Nowhere}

WriteBack == [game : Game, file : Saveable, bytes : Int, pc : {"open", "create", "write"}]

Rename == [kind : {"rename"}, pc : {"read", "copy", "drop"}, game : Game, save : Saveable,
           to : Saveable, bytes : Int]
OtherChore == [kind : {"delete", "import"}, game : Game, save : Saveable]

Launch == [pc : {"read", "boot"}, game : Game, save : Saveable, bytes : Int]

ListingType == [pc : {"off", "begun", "read", "here"}, game : Pickable,
                authoritative : BOOLEAN, files : SUBSET Saveable,
                shown : [game : Pickable, files : SUBSET Saveable]]

DiskTyped == disk \in [Game -> Directory]
PickTyped == pick \in [game : Pickable, save : Saveable] /\ lastSaves \in [Game -> Saveable]
ListingTyped == listing \in ListingType
SessionTyped == session \in [kind : {"none", "local", "netplay"}, sram : Int]
RuntimeTyped == runtime \in [target : Target, saved : Int, persisted : Target]
WritesTyped ==
  /\ writes \subseteq WriteBack /\ IsFiniteSet(writes)
  /\ inFlight \in Nat
ChoreTyped == chore \in {NoChore} \cup Rename \cup OtherChore
LaunchTyped == launch \in {NoLaunch} \cup Launch
BudgetTyped == budget \in [played : Nat, clicks : Nat, faults : Nat]

SavesTyped ==
  /\ DiskTyped /\ PickTyped /\ ListingTyped /\ SessionTyped /\ RuntimeTyped
  /\ WritesTyped /\ ChoreTyped /\ LaunchTyped /\ BudgetTyped

-----------------------------------------------------------------------------
(* Saves: the inductive invariant *)

\* The picker is mounted while there is no session, and lists the game picked;
\* its tasks go with it.
PickerMounted ==
  /\ InPicker <=> listing.pc # "off"
  /\ InPicker => listing.game = pick.game
  /\ ~InPicker => chore = NoChore

\* No write-back is forgotten, though one that never opened stays counted.
WritesCounted == Cardinality(writes) <= inFlight

\* A listing is believed only if nothing is being written from when it began...
BelievedIsQuiet ==
  listing.pc \in {"begun", "read"} /\ listing.authoritative => writes = {}

\* ... so that it lists what there is, but for what a rename is just making.
BelievedIsWhole ==
  listing.pc = "read" /\ listing.authoritative =>
    \A f \in Files(pick.game) : f \in listing.files \/ BeingMade(pick.game, f)

\* With nothing under way a listing of the game picked is believed and exact,
\* and it has dropped a pick of nothing once it is there.
AtRest ==
  InPicker /\ pick.game # NoGame /\ chore = NoChore /\ writes = {} /\ inFlight = 0
ListingExact ==
  /\ listing.pc \in {"begun", "read"} => listing.authoritative
  /\ listing.pc = "read" => listing.files = Files(pick.game)
  /\ listing.pc = "here" =>
       /\ listing.shown = [game |-> pick.game, files |-> Files(pick.game)]
       /\ pick.save \in Files(pick.game) \cup {Fresh}
ListedAtRest == AtRest => ListingExact

SavesInv ==
  /\ SavesTyped /\ PickerMounted /\ WritesCounted
  /\ BelievedIsQuiet /\ BelievedIsWhole /\ ListedAtRest

-----------------------------------------------------------------------------
(* Saves: lemmas *)

\* A file put into a directory, and one taken away.
LEMMA WithFile ==
  ASSUME NEW dir \in Directory, NEW name \in Saveable, NEW bytes \in Int
  PROVE  /\ With(dir, name, bytes) \in Directory
         /\ DOMAIN With(dir, name, bytes) = DOMAIN dir \cup {name}
<1>1. PICK files \in SUBSET Saveable : dir \in [files -> Int]
  BY DEF Directory
<1>2. With(dir, name, bytes) \in [files \cup {name} -> Int]
  BY <1>1 DEF With
<1> QED
  BY <1>1, <1>2 DEF Directory

LEMMA WithoutFile ==
  ASSUME NEW dir \in Directory, NEW name
  PROVE  /\ Without(dir, name) \in Directory
         /\ DOMAIN Without(dir, name) = DOMAIN dir \ {name}
<1>1. PICK files \in SUBSET Saveable : dir \in [files -> Int]
  BY DEF Directory
<1>2. Without(dir, name) \in [files \ {name} -> Int]
  BY <1>1 DEF Without, Restrict
<1> QED
  BY <1>1, <1>2 DEF Directory

\* What a game's directory holds.
LEMMA FilesTyped ==
  ASSUME DiskTyped, NEW g \in Pickable
  PROVE  /\ Files(g) \subseteq Saveable
         /\ \A f \in Files(g) : g \in Game /\ disk[g][f] \in Int
<1>1. CASE g = NoGame
  BY <1>1 DEF Files
<1>2. CASE g # NoGame
  <2>1. g \in Game /\ disk[g] \in Directory
    BY <1>2 DEF DiskTyped, Pickable
  <2>2. PICK files \in SUBSET Saveable : disk[g] \in [files -> Int]
    BY <2>1 DEF Directory
  <2> QED
    BY <1>2, <2>1, <2>2 DEF Files
<1> QED
  BY <1>1, <1>2

\* The resource starts over with a listing of the game picked: whatever was
\* known of the directory before is not needed any more.
LEMMA RelistHolds ==
  ASSUME SavesInv, SavesTyped', WritesCounted', session' = session,
         NEW n, n = inFlight', Relist(pick'.game, n),
         chore' = NoChore \/ chore' = chore
  PROVE  SavesInv'
<1>1. InPicker' <=> InPicker
  BY DEF InPicker
<1>2. CASE InPicker
  <2>1. /\ listing'.pc = "begun" /\ listing'.game = pick'.game
        /\ listing'.authoritative = (inFlight' = 0)
    BY <1>2 DEF Relist, Relisting, Authoritative, SavesInv, SavesTyped, ListingTyped,
                ListingType
  <2>2. inFlight' = 0 => writes' = {}
    <3>1. IsFiniteSet(writes') /\ inFlight' \in Nat /\ Cardinality(writes') <= inFlight'
      BY DEF SavesTyped, WritesTyped, WritesCounted
    <3>2. Cardinality(writes') \in Nat /\ (Cardinality(writes') = 0 => writes' = {})
      BY <3>1, FS_CardinalityType, FS_EmptySet
    <3> QED
      BY <3>1, <3>2
  <2>3. PickerMounted' /\ BelievedIsQuiet' /\ BelievedIsWhole' /\ ListedAtRest'
    BY <1>1, <1>2, <2>1, <2>2
    DEF PickerMounted, BelievedIsQuiet, BelievedIsWhole, ListedAtRest, ListingExact, AtRest
  <2> QED
    BY <2>3 DEF SavesInv
<1>3. CASE ~InPicker
  <2>1. listing' = listing /\ listing.pc = "off" /\ chore = NoChore
    BY <1>3 DEF Relist, SavesInv, PickerMounted, SavesTyped, ListingTyped, ListingType
  <2>2. PickerMounted' /\ BelievedIsQuiet' /\ BelievedIsWhole' /\ ListedAtRest'
    BY <1>1, <1>3, <2>1
    DEF PickerMounted, BelievedIsQuiet, BelievedIsWhole, ListedAtRest, ListingExact, AtRest
  <2> QED
    BY <2>2 DEF SavesInv
<1> QED
  BY <1>2, <1>3

\* A new listing has the shape of one.
LEMMA RelistTyped ==
  ASSUME ListingTyped, NEW g \in Pickable, NEW n
  PROVE  Relist(g, n) => ListingTyped'
BY DEF ListingTyped, ListingType, Relist, Relisting, Authoritative

\* While a session runs the picker is away, whatever it does to saves and pick.
LEMMA PlayingHolds ==
  ASSUME SavesInv, SavesTyped', WritesCounted', ~InPicker, ~InPicker',
         listing' = listing, chore' = chore
  PROVE  SavesInv'
<1>1. listing.pc = "off" /\ chore = NoChore
  BY DEF SavesInv, PickerMounted, SavesTyped, ListingTyped, ListingType
<1>2. PickerMounted' /\ BelievedIsQuiet' /\ BelievedIsWhole' /\ ListedAtRest'
  BY <1>1 DEF PickerMounted, BelievedIsQuiet, BelievedIsWhole, ListedAtRest, ListingExact, AtRest
<1> QED
  BY <1>2 DEF SavesInv

\* persist_sram() leaves the write-backs counted, and where it writes typed.
LEMMA PersistHolds ==
  ASSUME SavesInv, Persist
  PROVE  WritesTyped' /\ WritesCounted' /\ Persisted \in [target : Target, saved : Int,
                                                          persisted : Target]
<1>1. Persisted \in [target : Target, saved : Int, persisted : Target]
  BY DEF SavesInv, SavesTyped, RuntimeTyped, SessionTyped, Persisted
<1>2. CASE Unsaved
  <2> DEFINE w == [game |-> runtime.target.game, file |-> runtime.target.file,
                   bytes |-> session.sram, pc |-> "open"]
  <2>1. w \in WriteBack
    BY <1>2 DEF Unsaved, SavesInv, SavesTyped, RuntimeTyped, SessionTyped, Target, WriteBack
  <2>2. writes' = writes \cup {w} /\ inFlight' = inFlight + 1
    BY <1>2 DEF Persist
  <2> HIDE DEF w
  <2>3. /\ IsFiniteSet(writes \cup {w})
        /\ Cardinality(writes \cup {w}) \in {Cardinality(writes), Cardinality(writes) + 1}
    BY FS_AddElement DEF SavesInv, SavesTyped, WritesTyped
  <2>4. Cardinality(writes) \in Nat /\ inFlight \in Nat /\ Cardinality(writes) <= inFlight
    BY FS_CardinalityType DEF SavesInv, SavesTyped, WritesTyped, WritesCounted
  <2>5. writes' \subseteq WriteBack
    BY <2>1, <2>2 DEF SavesInv, SavesTyped, WritesTyped
  <2>6. Cardinality(writes') <= inFlight' /\ inFlight' \in Nat
    BY <2>2, <2>3, <2>4
  <2> QED
    BY <1>1, <2>2, <2>3, <2>5, <2>6 DEF WritesTyped, WritesCounted
<1>3. CASE ~Unsaved
  BY <1>1, <1>3 DEF Persist, SavesInv, SavesTyped, WritesTyped, WritesCounted
<1> QED
  BY <1>2, <1>3

\* A pick adopted of a session's save has the shape of one.
LEMMA AdoptTyped ==
  ASSUME PickTyped, NEW target \in Target, Adopt(target)
  PROVE  PickTyped' /\ pick'.game = pick.game
<1>1. CASE target # Nowhere /\ pick.save = Fresh
  <2>1. target.game \in Game /\ target.file \in Saveable
    BY <1>1 DEF Target
  <2> QED
    BY <1>1, <2>1 DEF Adopt, PickTyped
<1>2. CASE ~(target # Nowhere /\ pick.save = Fresh)
  BY <1>2 DEF Adopt, PickTyped
<1> QED
  BY <1>1, <1>2

-----------------------------------------------------------------------------
(* Saves: every step keeps the invariant *)

LEMMA PickGameHolds ==
  ASSUME SavesInv, NEW g \in Game, PickGame(g)
  PROVE  SavesInv'
<1>1. PickTyped' /\ pick'.game = g
  BY DEF PickGame, SavesInv, SavesTyped, PickTyped, Pickable, Saveable
<1>2. BudgetTyped'
  BY DEF PickGame, Clicks, SavesInv, SavesTyped, BudgetTyped
<1>3. ListingTyped' /\ Relist(g, inFlight)
  BY RelistTyped DEF PickGame, SavesInv, SavesTyped, Pickable
<1>4. SavesTyped' /\ WritesCounted'
  BY <1>1, <1>2, <1>3
  DEF PickGame, SavesInv, SavesTyped, DiskTyped, SessionTyped, RuntimeTyped, WritesTyped,
      ChoreTyped, LaunchTyped, WritesCounted
<1>5. session' = session /\ inFlight' = inFlight /\ chore' = chore
  BY DEF PickGame
<1> QED
  BY <1>1, <1>3, <1>4, <1>5, RelistHolds

LEMMA PickSaveHolds ==
  ASSUME SavesInv, NEW s \in Saveable, PickSave(s)
  PROVE  SavesInv'
<1>1. UNCHANGED <<disk, listing, session, runtime, writes, inFlight, chore, launch>>
  BY DEF PickSave
<1>2. PickTyped' /\ pick'.game = pick.game /\ pick'.save = s
  BY DEF PickSave, SavesInv, SavesTyped, PickTyped, Pickable
<1>3. BudgetTyped'
  BY DEF PickSave, Clicks, SavesInv, SavesTyped, BudgetTyped
<1>4. SavesTyped'
  BY <1>1, <1>2, <1>3
  DEF SavesInv, SavesTyped, DiskTyped, ListingTyped, SessionTyped, RuntimeTyped,
      WritesTyped, ChoreTyped, LaunchTyped
<1>5. /\ InPicker' <=> InPicker
      /\ \A g \in Pickable : Files(g)' = Files(g)
      /\ \A g, f : BeingMade(g, f)' = BeingMade(g, f)
  BY <1>1 DEF InPicker, Files, BeingMade
<1>6. pick.game \in Pickable
  BY DEF SavesInv, SavesTyped, PickTyped
<1>7. PickerMounted' /\ WritesCounted' /\ BelievedIsQuiet'
  BY <1>1, <1>2, <1>5 DEF SavesInv, PickerMounted, WritesCounted, BelievedIsQuiet
<1>8. BelievedIsWhole'
  BY <1>1, <1>2, <1>5, <1>6 DEF SavesInv, BelievedIsWhole
<1>9. ListedAtRest'
  <2> SUFFICES ASSUME AtRest' PROVE ListingExact'
    BY DEF ListedAtRest
  <2>1. AtRest
    BY <1>1, <1>2, <1>5 DEF AtRest
  <2>2. s = Fresh \/ (listing.shown.game = pick.game /\ s \in listing.shown.files)
    BY DEF PickSave
  <2>3. listing.pc = "here" => s \in Files(pick.game) \cup {Fresh}
    BY <2>1, <2>2 DEF SavesInv, ListedAtRest, ListingExact
  <2> QED
    BY <1>1, <1>2, <1>5, <1>6, <2>1, <2>3 DEF SavesInv, ListedAtRest, ListingExact
<1> QED
  BY <1>4, <1>7, <1>8, <1>9 DEF SavesInv

LEMMA ListReadsHolds ==
  ASSUME SavesInv, ListReads
  PROVE  SavesInv'
<1>1. UNCHANGED <<disk, pick, lastSaves, session, runtime, writes, inFlight, chore,
                  launch, budget>>
  BY DEF ListReads
<1>2. listing.pc = "begun" /\ listing.game = pick.game /\ InPicker /\ pick.game \in Pickable
  BY DEF ListReads, SavesInv, PickerMounted, SavesTyped, PickTyped
<1>3. /\ ListingTyped' /\ listing'.pc = "read" /\ listing'.game = listing.game
      /\ listing'.authoritative = listing.authoritative /\ listing'.files = Files(pick.game)
  BY <1>2, FilesTyped DEF ListReads, SavesInv, SavesTyped, ListingTyped, ListingType
<1>4. SavesTyped'
  BY <1>1, <1>3
  DEF SavesInv, SavesTyped, DiskTyped, PickTyped, SessionTyped, RuntimeTyped,
      WritesTyped, ChoreTyped, LaunchTyped, BudgetTyped
<1>5. InPicker' /\ Files(pick.game)' = Files(pick.game)
  BY <1>1, <1>2 DEF InPicker, Files
<1>6. PickerMounted' /\ WritesCounted' /\ BelievedIsQuiet'
  BY <1>1, <1>2, <1>3, <1>5 DEF SavesInv, PickerMounted, WritesCounted, BelievedIsQuiet
<1>7. BelievedIsWhole'
  BY <1>1, <1>3, <1>5 DEF BelievedIsWhole
<1>8. ListedAtRest'
  BY <1>1, <1>2, <1>3, <1>5 DEF SavesInv, ListedAtRest, ListingExact, AtRest
<1> QED
  BY <1>4, <1>6, <1>7, <1>8 DEF SavesInv

LEMMA ListLandsHolds ==
  ASSUME SavesInv, ListLands
  PROVE  SavesInv'
<1>1. UNCHANGED <<disk, session, runtime, writes, inFlight, chore, launch, budget>>
  BY DEF ListLands
<1>2. /\ listing.pc = "read" /\ listing.game = pick.game /\ InPicker
      /\ pick.game \in Pickable
  BY DEF ListLands, SavesInv, PickerMounted, SavesTyped, PickTyped
<1>3. /\ ListingTyped' /\ listing'.pc = "here" /\ listing'.game = listing.game
      /\ listing'.shown = [game |-> pick.game, files |-> listing.files]
  BY <1>2 DEF ListLands, SavesInv, SavesTyped, ListingTyped, ListingType
<1>4. PickTyped' /\ pick'.game = pick.game
  BY <1>2 DEF ListLands, SavesInv, SavesTyped, PickTyped, Pickable, Saveable
<1>5. SavesTyped'
  BY <1>1, <1>3, <1>4
  DEF SavesInv, SavesTyped, DiskTyped, SessionTyped, RuntimeTyped,
      WritesTyped, ChoreTyped, LaunchTyped, BudgetTyped
<1>6. InPicker' /\ Files(pick.game)' = Files(pick.game)
  BY <1>1, <1>2, <1>4 DEF InPicker, Files
<1>7. PickerMounted' /\ WritesCounted' /\ BelievedIsQuiet' /\ BelievedIsWhole'
  BY <1>1, <1>2, <1>3, <1>4, <1>6
  DEF SavesInv, PickerMounted, WritesCounted, BelievedIsQuiet, BelievedIsWhole
<1>8. ListedAtRest'
  <2> SUFFICES ASSUME AtRest' PROVE ListingExact'
    BY DEF ListedAtRest
  <2>1. AtRest
    BY <1>1, <1>2, <1>4, <1>6 DEF AtRest
  <2>2. listing.authoritative /\ listing.files = Files(pick.game)
    BY <1>2, <2>1 DEF SavesInv, ListedAtRest, ListingExact
  <2>3. CASE pick.save \in listing.files \cup {Fresh}
    <3>1. pick' = pick
      BY <2>3 DEF ListLands
    <3> QED
      BY <1>3, <1>4, <1>6, <2>2, <2>3, <3>1 DEF ListingExact
  <2>4. CASE pick.save \notin listing.files \cup {Fresh}
    <3>1. pick'.save = Fresh
      BY <1>2, <2>1, <2>2, <2>4 DEF ListLands, AtRest, SavesInv, SavesTyped, PickTyped
    <3> QED
      BY <1>3, <1>4, <1>6, <2>2, <3>1 DEF ListingExact
  <2> QED
    BY <2>3, <2>4
<1> QED
  BY <1>5, <1>7, <1>8 DEF SavesInv

LEMMA StartChoreHolds ==
  ASSUME SavesInv, StartChore
  PROVE  SavesInv'
<1>1. UNCHANGED <<disk, pick, lastSaves, listing, session, runtime, writes, inFlight, launch>>
  BY DEF StartChore
<1>2. InPicker /\ InPicker' /\ chore = NoChore /\ pick.game \in Game
  BY DEF StartChore, InPicker, SavesInv, SavesTyped, PickTyped, Pickable
<1>3. chore' \in Rename \cup OtherChore
  <2>1. listing.shown.files \subseteq Saveable
    BY DEF SavesInv, SavesTyped, ListingTyped, ListingType
  <2> QED
    BY <1>2, <2>1 DEF StartChore, Rename, OtherChore, Saveable, Nothing
<1>4. chore' # NoChore
  BY <1>3 DEF Rename, OtherChore, NoChore
<1>5. BudgetTyped'
  BY DEF StartChore, Clicks, SavesInv, SavesTyped, BudgetTyped
<1>6. SavesTyped'
  BY <1>1, <1>3, <1>5
  DEF SavesInv, SavesTyped, DiskTyped, PickTyped, ListingTyped, SessionTyped, RuntimeTyped,
      WritesTyped, ChoreTyped, LaunchTyped
<1>7. Files(pick.game)' = Files(pick.game) /\ \A f : ~BeingMade(pick.game, f)
  BY <1>1, <1>2 DEF Files, BeingMade, NoChore
<1>8. PickerMounted' /\ WritesCounted' /\ BelievedIsQuiet' /\ BelievedIsWhole'
  BY <1>1, <1>2, <1>7
  DEF SavesInv, PickerMounted, WritesCounted, BelievedIsQuiet, BelievedIsWhole
<1>9. ListedAtRest'
  BY <1>4 DEF ListedAtRest, AtRest
<1> QED
  BY <1>6, <1>8, <1>9 DEF SavesInv

\* A task of the picker runs only while the picker is there, on a game.
LEMMA RenameTyped ==
  ASSUME SavesInv, chore.kind = "rename"
  PROVE  chore \in Rename /\ InPicker
BY DEF SavesInv, SavesTyped, ChoreTyped, NoChore, OtherChore, PickerMounted

LEMMA OtherTyped ==
  ASSUME SavesInv, chore.kind \in {"delete", "import"}
  PROVE  chore \in OtherChore /\ InPicker
BY DEF SavesInv, SavesTyped, ChoreTyped, NoChore, Rename, PickerMounted

\* The end of a task: the picker lists again what the task left.
LEMMA ChoreEnds ==
  ASSUME SavesInv, DiskTyped', PickTyped', pick'.game = pick.game, chore' = NoChore,
         Relist(pick.game, inFlight),
         UNCHANGED <<session, runtime, writes, inFlight, launch, budget>>
  PROVE  SavesInv'
<1>1. ListingTyped'
  BY RelistTyped DEF SavesInv, SavesTyped, PickTyped
<1>2. SavesTyped' /\ WritesCounted'
  BY <1>1
  DEF SavesInv, SavesTyped, SessionTyped, RuntimeTyped, WritesTyped, ChoreTyped,
      LaunchTyped, BudgetTyped, WritesCounted
<1> QED
  BY <1>2, RelistHolds

LEMMA RenameReadsHolds ==
  ASSUME SavesInv, RenameReads
  PROVE  SavesInv'
<1>1. chore \in Rename /\ InPicker /\ chore.pc = "read"
  BY RenameTyped DEF RenameReads
<1>2. UNCHANGED <<disk, pick, lastSaves, session, runtime, writes, inFlight, launch, budget>>
  BY DEF RenameReads
<1>3. CASE chore.to \notin Files(chore.game) /\ chore.save \in Files(chore.game)
  <2>1. /\ chore' = [chore EXCEPT !.pc = "copy", !.bytes = disk[chore.game][chore.save]]
        /\ listing' = listing
    BY <1>3 DEF RenameReads
  <2>2. disk[chore.game][chore.save] \in Int
    BY <1>1, <1>3, FilesTyped DEF SavesInv, SavesTyped, Rename, Pickable
  <2>3. /\ chore' \in Rename /\ chore' # NoChore
        /\ \A g, f : BeingMade(g, f)' = BeingMade(g, f)
    BY <1>1, <2>1, <2>2 DEF Rename, NoChore, BeingMade
  <2>4. SavesTyped'
    BY <1>2, <2>1, <2>3
    DEF SavesInv, SavesTyped, DiskTyped, PickTyped, ListingTyped, SessionTyped,
        RuntimeTyped, WritesTyped, ChoreTyped, LaunchTyped, BudgetTyped
  <2>5. InPicker' /\ Files(pick.game)' = Files(pick.game)
    BY <1>1, <1>2 DEF InPicker, Files
  <2>6. PickerMounted' /\ WritesCounted' /\ BelievedIsQuiet' /\ BelievedIsWhole'
    BY <1>1, <1>2, <2>1, <2>3, <2>5
    DEF SavesInv, PickerMounted, WritesCounted, BelievedIsQuiet, BelievedIsWhole
  <2>7. ListedAtRest'
    BY <2>3 DEF ListedAtRest, AtRest
  <2> QED
    BY <2>4, <2>6, <2>7 DEF SavesInv
<1>4. CASE ~(chore.to \notin Files(chore.game) /\ chore.save \in Files(chore.game))
  <2>1. chore' = NoChore /\ Relist(pick.game, inFlight)
    BY <1>4 DEF RenameReads
  <2>2. DiskTyped' /\ PickTyped'
    BY <1>2 DEF SavesInv, SavesTyped, DiskTyped, PickTyped
  <2> QED
    BY <1>2, <2>1, <2>2, ChoreEnds
<1> QED
  BY <1>3, <1>4

LEMMA RenameCopiesHolds ==
  ASSUME SavesInv, RenameCopies
  PROVE  SavesInv'
<1>1. chore \in Rename /\ InPicker
  BY RenameTyped DEF RenameCopies
<1>2. UNCHANGED <<pick, lastSaves, listing, session, runtime, writes, inFlight, launch, budget>>
  BY DEF RenameCopies
<1>3. /\ chore' = [chore EXCEPT !.pc = "drop"]
      /\ disk' = [disk EXCEPT ![chore.game] = With(@, chore.to, chore.bytes)]
  BY DEF RenameCopies
<1>4. /\ chore.game \in Game /\ chore.to \in Saveable /\ chore.bytes \in Int
      /\ disk[chore.game] \in Directory
  BY <1>1 DEF Rename, SavesInv, SavesTyped, DiskTyped
<1>5. DiskTyped'
  BY <1>3, <1>4, WithFile DEF SavesInv, SavesTyped, DiskTyped
<1>6. chore' \in Rename /\ chore' # NoChore /\ \A g, f : BeingMade(g, f)' = BeingMade(g, f)
  BY <1>1, <1>3 DEF Rename, NoChore, BeingMade
<1>7. SavesTyped'
  BY <1>2, <1>5, <1>6
  DEF SavesInv, SavesTyped, PickTyped, ListingTyped, SessionTyped,
      RuntimeTyped, WritesTyped, ChoreTyped, LaunchTyped, BudgetTyped
<1>8. InPicker' /\ PickerMounted' /\ WritesCounted' /\ BelievedIsQuiet'
  BY <1>1, <1>2 DEF InPicker, SavesInv, PickerMounted, WritesCounted, BelievedIsQuiet
<1>9. ASSUME NEW f \in Files(pick.game)'
      PROVE  f \in Files(pick.game) \/ BeingMade(pick.game, f)
  <2>1. pick.game # NoGame /\ f \in DOMAIN disk'[pick.game]
    BY <1>2, <1>9 DEF Files
  <2>2. pick.game \in Game
    BY <2>1 DEF SavesInv, SavesTyped, PickTyped, Pickable
  <2>3. CASE pick.game = chore.game
    <3>1. DOMAIN disk'[pick.game] = DOMAIN disk[pick.game] \cup {chore.to}
      BY <1>3, <1>4, <2>3, WithFile DEF SavesInv, SavesTyped, DiskTyped
    <3>2. chore.kind = "rename"
      BY <1>1 DEF Rename
    <3> QED
      BY <2>1, <2>3, <3>1, <3>2 DEF Files, BeingMade
  <2>4. CASE pick.game # chore.game
    BY <1>3, <2>1, <2>2, <2>4 DEF SavesInv, SavesTyped, DiskTyped, Files
  <2> QED
    BY <2>3, <2>4
<1>10. BelievedIsWhole'
  BY <1>2, <1>6, <1>9 DEF SavesInv, BelievedIsWhole
<1>11. ListedAtRest'
  BY <1>6 DEF ListedAtRest, AtRest
<1> QED
  BY <1>7, <1>8, <1>10, <1>11 DEF SavesInv

LEMMA RenameEndsHolds ==
  ASSUME SavesInv, RenameEnds
  PROVE  SavesInv'
<1>1. /\ chore \in Rename /\ chore.game \in Game
      /\ chore.save \in Saveable /\ chore.to \in Saveable
  BY RenameTyped DEF RenameEnds, Rename
<1>2. DiskTyped'
  <2>1. disk[chore.game] \in Directory
    BY <1>1 DEF SavesInv, SavesTyped, DiskTyped
  <2>2. \/ disk' = [disk EXCEPT ![chore.game] = Without(@, chore.save)]
        \/ disk' = disk
    BY DEF RenameEnds
  <2>3. Without(disk[chore.game], chore.save) \in Directory
    BY <2>1, WithoutFile
  <2> QED
    BY <1>1, <2>2, <2>3 DEF SavesInv, SavesTyped, DiskTyped
<1>3. PickTyped' /\ pick'.game = pick.game
  BY <1>1 DEF RenameEnds, SavesInv, SavesTyped, PickTyped
<1> QED
  BY <1>2, <1>3, ChoreEnds DEF RenameEnds, RelistAfter

LEMMA DeleteEndsHolds ==
  ASSUME SavesInv, DeleteEnds
  PROVE  SavesInv'
<1>1. chore \in OtherChore /\ chore.game \in Game /\ chore.save \in Saveable
  BY OtherTyped DEF DeleteEnds, OtherChore
<1>2. DiskTyped'
  <2>1. disk[chore.game] \in Directory
    BY <1>1 DEF SavesInv, SavesTyped, DiskTyped
  <2>2. disk' = [disk EXCEPT ![chore.game] = Without(@, chore.save)]
    BY DEF DeleteEnds
  <2>3. Without(disk[chore.game], chore.save) \in Directory
    BY <2>1, WithoutFile
  <2> QED
    BY <1>1, <2>2, <2>3 DEF SavesInv, SavesTyped, DiskTyped
<1>3. PickTyped' /\ pick'.game = pick.game
  BY <1>1 DEF DeleteEnds, SavesInv, SavesTyped, PickTyped, Saveable
<1> QED
  BY <1>2, <1>3, ChoreEnds DEF DeleteEnds, RelistAfter

LEMMA ImportEndsHolds ==
  ASSUME SavesInv, ImportEnds
  PROVE  SavesInv'
<1>1. chore \in OtherChore /\ chore.game \in Game /\ chore.save \in Saveable
  BY OtherTyped DEF ImportEnds, OtherChore
<1>2. DiskTyped'
  <2>1. disk[chore.game] \in Directory
    BY <1>1 DEF SavesInv, SavesTyped, DiskTyped
  <2>2. disk' = [disk EXCEPT ![chore.game] = With(@, chore.save, 0)]
    BY DEF ImportEnds
  <2>3. With(disk[chore.game], chore.save, 0) \in Directory
    <3>1. 0 \in Int
      OBVIOUS
    <3> QED
      BY <1>1, <2>1, <3>1, WithFile
  <2> QED
    BY <1>1, <2>2, <2>3 DEF SavesInv, SavesTyped, DiskTyped
<1>3. PickTyped' /\ pick'.game = pick.game
  BY <1>1 DEF ImportEnds, SavesInv, SavesTyped, PickTyped
<1> QED
  BY <1>2, <1>3, ChoreEnds DEF ImportEnds, RelistAfter

\* Play reads a file and touches nothing of the picker.
LEMMA LaunchHolds ==
  ASSUME SavesInv, Play \/ LaunchReads
  PROVE  SavesInv'
<1>1. UNCHANGED <<disk, pick, lastSaves, listing, session, runtime, writes, inFlight, chore>>
  BY DEF Play, LaunchReads
<1>2. BudgetTyped'
  BY DEF Play, LaunchReads, Clicks, SavesInv, SavesTyped, BudgetTyped
<1>3. LaunchTyped'
  <2>1. CASE Play
    BY <2>1 DEF Play, SavesInv, SavesTyped, PickTyped, Pickable, LaunchTyped, Launch, Nothing
  <2>2. CASE LaunchReads
    <3>1. launch \in Launch
      BY <2>2 DEF LaunchReads, SavesInv, SavesTyped, LaunchTyped, NoLaunch
    <3>2. launch.save \in Files(launch.game) => disk[launch.game][launch.save] \in Int
      BY <3>1, FilesTyped DEF SavesInv, SavesTyped, Launch, Pickable
    <3>3. CASE launch.save \in Files(launch.game)
      BY <2>2, <3>1, <3>2, <3>3 DEF LaunchReads, LaunchTyped, Launch
    <3>4. CASE launch.save \notin Files(launch.game)
      <4>1. launch' = [launch EXCEPT !.pc = "boot", !.bytes = Nothing]
        BY <2>2, <3>4 DEF LaunchReads
      <4>2. Nothing \in Int
        BY DEF Nothing
      <4> QED
        BY <3>1, <4>1, <4>2 DEF LaunchTyped, Launch
    <3> QED
      BY <3>3, <3>4
  <2> QED
    BY <2>1, <2>2
<1>4. SavesTyped'
  BY <1>1, <1>2, <1>3
  DEF SavesInv, SavesTyped, DiskTyped, PickTyped, ListingTyped, SessionTyped, RuntimeTyped,
      WritesTyped, ChoreTyped
<1>5. /\ InPicker' <=> InPicker
      /\ Files(pick.game)' = Files(pick.game)
      /\ \A f : BeingMade(pick.game, f)' = BeingMade(pick.game, f)
  BY <1>1 DEF InPicker, Files, BeingMade
<1>6. PickerMounted' /\ WritesCounted' /\ BelievedIsQuiet' /\ BelievedIsWhole'
  BY <1>1, <1>5
  DEF SavesInv, PickerMounted, WritesCounted, BelievedIsQuiet, BelievedIsWhole
<1>7. ListedAtRest'
  BY <1>1, <1>5 DEF SavesInv, ListedAtRest, ListingExact, AtRest
<1> QED
  BY <1>4, <1>6, <1>7 DEF SavesInv

LEMMA BootsHolds ==
  ASSUME SavesInv, Boots
  PROVE  SavesInv'
<1>1. UNCHANGED <<disk, pick, lastSaves, writes, inFlight, budget>>
  BY DEF Boots
<1>2. launch \in Launch
  BY DEF Boots, SavesInv, SavesTyped, LaunchTyped, NoLaunch
<1>3. SessionTyped' /\ RuntimeTyped' /\ session'.kind = "local"
  <2>1. PICK f \in Saveable :
          runtime' = [target |-> [game |-> launch.game, file |-> f],
                      saved |-> launch.bytes, persisted |-> Nowhere]
    BY <1>2, SavesAssumption DEF Boots, Launch, Saveable
  <2>2. PICK b \in Int : session' = [kind |-> "local", sram |-> b]
    BY <1>2 DEF Boots, Launch
  <2> QED
    BY <1>2, <2>1, <2>2 DEF Launch, SessionTyped, RuntimeTyped, Target
<1>4. ListingTyped' /\ listing'.pc = "off"
  BY DEF Boots, Unmounted, NotShown, ListingTyped, ListingType, Pickable
<1>5. ChoreTyped' /\ chore' = NoChore /\ LaunchTyped'
  BY DEF Boots, ChoreTyped, LaunchTyped
<1>6. SavesTyped'
  BY <1>1, <1>3, <1>4, <1>5
  DEF SavesInv, SavesTyped, DiskTyped, PickTyped, WritesTyped, BudgetTyped
<1>7. ~InPicker'
  BY <1>3 DEF InPicker
<1>8. /\ PickerMounted' /\ WritesCounted' /\ BelievedIsQuiet' /\ BelievedIsWhole'
      /\ ListedAtRest'
  BY <1>1, <1>4, <1>5, <1>7
  DEF SavesInv, PickerMounted, WritesCounted, BelievedIsQuiet, BelievedIsWhole,
      ListedAtRest, AtRest
<1> QED
  BY <1>6, <1>8 DEF SavesInv

\* The game plays on, is saved, and changes link.
LEMMA SessionHolds ==
  ASSUME SavesInv, Played \/ Autosave \/ Swap
  PROVE  SavesInv'
<1>1. UNCHANGED <<disk, listing, chore, launch>> /\ ~InPicker
  BY DEF Played, Autosave, Swap, InPicker
<1>2. CASE Played
  <2>1. SessionTyped' /\ session'.kind = session.kind /\ BudgetTyped'
    BY <1>2 DEF Played, SavesInv, SavesTyped, SessionTyped, BudgetTyped
  <2>2. SavesTyped' /\ WritesCounted' /\ ~InPicker'
    BY <1>1, <1>2, <2>1
    DEF Played, SavesInv, SavesTyped, DiskTyped, PickTyped, ListingTyped, RuntimeTyped,
        WritesTyped, ChoreTyped, LaunchTyped, WritesCounted, InPicker
  <2> QED
    BY <1>1, <2>2, PlayingHolds
<1>3. CASE Autosave
  <2>1. WritesTyped' /\ WritesCounted' /\ RuntimeTyped'
    BY <1>3, PersistHolds DEF Autosave, RuntimeTyped
  <2>2. SavesTyped' /\ ~InPicker'
    BY <1>1, <1>3, <2>1
    DEF Autosave, SavesInv, SavesTyped, DiskTyped, PickTyped, ListingTyped, SessionTyped,
        ChoreTyped, LaunchTyped, BudgetTyped, InPicker
  <2> QED
    BY <1>1, <2>1, <2>2, PlayingHolds
<1>4. CASE Swap
  <2>1. BudgetTyped'
    BY <1>4 DEF Swap, SavesInv, SavesTyped, BudgetTyped
  <2>2. SessionTyped' /\ ~InPicker'
    BY <1>4 DEF Swap, SavesInv, SavesTyped, SessionTyped, InPicker
  <2>3. WritesTyped' /\ WritesCounted' /\ RuntimeTyped' /\ PickTyped'
    <3>1. CASE session.kind = "netplay"
      <4>1. /\ Persist /\ Adopt(Persisted.persisted)
            /\ runtime' = [Persisted EXCEPT !.persisted = Nowhere]
        BY <1>4, <3>1 DEF Swap
      <4>2. /\ WritesTyped' /\ WritesCounted'
            /\ Persisted \in [target : Target, saved : Int, persisted : Target]
        BY <4>1, PersistHolds
      <4>3. RuntimeTyped' /\ Persisted.persisted \in Target
        BY <4>1, <4>2 DEF RuntimeTyped, Target
      <4>4. PickTyped'
        BY <4>1, <4>3, AdoptTyped DEF SavesInv, SavesTyped
      <4> QED
        BY <4>2, <4>3, <4>4
    <3>2. CASE session.kind # "netplay"
      <4>1. /\ Adopt(runtime.persisted) /\ UNCHANGED <<writes, inFlight>>
            /\ runtime' = [runtime EXCEPT !.persisted = Nowhere]
        BY <1>4, <3>2 DEF Swap
      <4>2. RuntimeTyped' /\ runtime.persisted \in Target
        BY <4>1 DEF SavesInv, SavesTyped, RuntimeTyped, Target
      <4>3. PickTyped'
        BY <4>1, <4>2, AdoptTyped DEF SavesInv, SavesTyped
      <4> QED
        BY <4>1, <4>2, <4>3 DEF SavesInv, SavesTyped, WritesTyped, WritesCounted
    <3> QED
      BY <3>1, <3>2
  <2>4. SavesTyped'
    BY <1>1, <2>1, <2>2, <2>3
    DEF SavesInv, SavesTyped, DiskTyped, ListingTyped, ChoreTyped, LaunchTyped
  <2> QED
    BY <1>1, <2>2, <2>3, <2>4, PlayingHolds
<1> QED
  BY <1>2, <1>3, <1>4

LEMMA QuitHolds ==
  ASSUME SavesInv, Quit
  PROVE  SavesInv'
<1>1. UNCHANGED <<disk, chore, launch, budget>> /\ ~InPicker /\ InPicker' /\ chore = NoChore
  BY DEF Quit, InPicker, SavesInv, PickerMounted
<1>2. WritesTyped' /\ WritesCounted' /\ Persisted.persisted \in Target
  BY PersistHolds DEF Quit
<1>3. PickTyped' /\ pick'.game = pick.game /\ pick.game \in Pickable
  BY <1>2, AdoptTyped DEF Quit, SavesInv, SavesTyped, PickTyped
<1>4. SessionTyped' /\ RuntimeTyped'
  BY DEF Quit, SessionTyped, RuntimeTyped, Target, Nothing
<1>5. /\ ListingTyped' /\ listing'.pc = "begun" /\ listing'.game = pick'.game
      /\ listing'.authoritative = (inFlight' = 0)
  BY <1>3 DEF Quit, Relisting, Authoritative, SavesInv, SavesTyped, ListingTyped, ListingType
<1>6. SavesTyped'
  BY <1>1, <1>2, <1>3, <1>4, <1>5
  DEF SavesInv, SavesTyped, DiskTyped, ChoreTyped, LaunchTyped, BudgetTyped
<1>7. inFlight' = 0 => writes' = {}
  <2>1. Cardinality(writes') \in Nat /\ (Cardinality(writes') = 0 => writes' = {})
    BY <1>2, FS_CardinalityType, FS_EmptySet DEF WritesTyped
  <2> QED
    BY <1>2, <2>1 DEF WritesCounted
<1>8. PickerMounted' /\ BelievedIsQuiet' /\ BelievedIsWhole' /\ ListedAtRest'
  BY <1>1, <1>5, <1>7
  DEF PickerMounted, BelievedIsQuiet, BelievedIsWhole, ListedAtRest, ListingExact, AtRest
<1> QED
  BY <1>2, <1>6, <1>8 DEF SavesInv

\* A write-back moves on, or has not opened: others may be under way, and it
\* stays counted.
LEMMA WriteMovesHolds ==
  ASSUME SavesInv, NEW w \in writes, WriteOpens(w) \/ WriteCreates(w)
  PROVE  SavesInv'
<1>1. UNCHANGED <<pick, lastSaves, listing, session, runtime, inFlight, chore, launch>>
  BY DEF WriteOpens, WriteCreates
<1>2. w \in WriteBack
  BY DEF SavesInv, SavesTyped, WritesTyped
<1>3. BudgetTyped'
  BY DEF WriteOpens, WriteCreates, Fails, SavesInv, SavesTyped, BudgetTyped
<1>4. DiskTyped'
  <2>1. CASE WriteOpens(w)
    BY <2>1 DEF WriteOpens, SavesInv, SavesTyped, DiskTyped
  <2>2. CASE WriteCreates(w)
    <3>1. w.game \in Game /\ disk[w.game] \in Directory
      BY <1>2 DEF WriteBack, SavesInv, SavesTyped, DiskTyped
    <3>2. With(disk[w.game], w.file, 0) \in Directory
      <4>1. w.file \in Saveable /\ 0 \in Int
        BY <1>2 DEF WriteBack
      <4> QED
        BY <3>1, <4>1, WithFile
    <3> QED
      BY <2>2, <3>1, <3>2 DEF WriteCreates, SavesInv, SavesTyped, DiskTyped
  <2> QED
    BY <2>1, <2>2
<1>5. Cardinality(writes) \in Nat /\ Cardinality(writes) # 0
  BY FS_CardinalityType, FS_EmptySet DEF SavesInv, SavesTyped, WritesTyped
<1>6. inFlight \in Nat /\ inFlight # 0 /\ Cardinality(writes) <= inFlight
  BY <1>5 DEF SavesInv, SavesTyped, WritesTyped, WritesCounted
<1>7. /\ IsFiniteSet(writes \ {w}) /\ Cardinality(writes \ {w}) = Cardinality(writes) - 1
      /\ writes \ {w} \subseteq WriteBack
  BY FS_RemoveElement DEF SavesInv, SavesTyped, WritesTyped
<1>8. WritesTyped' /\ WritesCounted'
  <2>1. CASE writes' = writes \ {w}
    BY <1>1, <1>5, <1>6, <1>7, <2>1 DEF WritesTyped, WritesCounted
  <2>2. ASSUME NEW pc \in {"create", "write"},
               writes' = (writes \ {w}) \cup {[w EXCEPT !.pc = pc]}
        PROVE  WritesTyped' /\ WritesCounted'
    <3> DEFINE v == [w EXCEPT !.pc = pc]
    <3>1. v \in WriteBack
      BY <1>2 DEF WriteBack
    <3> HIDE DEF v
    <3>2. /\ IsFiniteSet((writes \ {w}) \cup {v})
          /\ Cardinality((writes \ {w}) \cup {v}) \in
               {Cardinality(writes \ {w}), Cardinality(writes \ {w}) + 1}
      BY <1>7, FS_AddElement
    <3>3. writes' = (writes \ {w}) \cup {v}
      BY <2>2 DEF v
    <3>4. Cardinality(writes') <= inFlight
      BY <1>5, <1>6, <1>7, <3>2, <3>3
    <3> QED
      BY <1>1, <1>6, <1>7, <3>1, <3>2, <3>3, <3>4 DEF WritesTyped, WritesCounted
  <2> QED
    BY <2>1, <2>2 DEF WriteOpens, WriteCreates
<1>9. SavesTyped'
  BY <1>1, <1>3, <1>4, <1>8
  DEF SavesInv, SavesTyped, PickTyped, ListingTyped, SessionTyped, RuntimeTyped, ChoreTyped,
      LaunchTyped
<1>10. ~(listing.pc \in {"begun", "read"} /\ listing.authoritative)
  BY DEF SavesInv, BelievedIsQuiet
<1>11. PickerMounted' /\ BelievedIsQuiet' /\ BelievedIsWhole'
  BY <1>1, <1>10 DEF SavesInv, PickerMounted, BelievedIsQuiet, BelievedIsWhole, InPicker
<1>12. ListedAtRest'
  BY <1>1, <1>6 DEF ListedAtRest, AtRest
<1> QED
  BY <1>8, <1>9, <1>11, <1>12 DEF SavesInv

LEMMA WriteEndsHolds ==
  ASSUME SavesInv, NEW w \in writes, WriteEnds(w)
  PROVE  SavesInv'
<1>1. UNCHANGED <<pick, lastSaves, session, runtime, chore, launch>>
  BY DEF WriteEnds
<1>2. w.game \in Game /\ w.file \in Saveable /\ w.bytes \in Int /\ disk[w.game] \in Directory
  BY DEF SavesInv, SavesTyped, WritesTyped, WriteBack, DiskTyped
<1>3. BudgetTyped'
  BY DEF WriteEnds, Fails, SavesInv, SavesTyped, BudgetTyped
<1>4. DiskTyped'
  <2>1. /\ With(disk[w.game], w.file, w.bytes) \in Directory
        /\ Without(disk[w.game], w.file) \in Directory
    BY <1>2, WithFile, WithoutFile
  <2>2. PICK dir \in Directory : disk' = disk \/ disk' = [disk EXCEPT ![w.game] = dir]
    BY <2>1 DEF WriteEnds
  <2> QED
    BY <2>2 DEF SavesInv, SavesTyped, DiskTyped
<1>5. Cardinality(writes) \in Nat /\ Cardinality(writes) # 0
  BY FS_CardinalityType, FS_EmptySet DEF SavesInv, SavesTyped, WritesTyped
<1>6. inFlight \in Nat /\ Cardinality(writes) <= inFlight
  BY DEF SavesInv, SavesTyped, WritesTyped, WritesCounted
<1>7. /\ IsFiniteSet(writes \ {w}) /\ Cardinality(writes \ {w}) = Cardinality(writes) - 1
      /\ writes \ {w} \subseteq WriteBack
  BY FS_RemoveElement DEF SavesInv, SavesTyped, WritesTyped
<1>8. writes' = writes \ {w} /\ inFlight' = inFlight - 1
  BY DEF WriteEnds
<1>9. WritesTyped' /\ WritesCounted'
  BY <1>5, <1>6, <1>7, <1>8 DEF WritesTyped, WritesCounted
<1>10. Relist(pick'.game, inFlight')
  BY <1>1, <1>8 DEF WriteEnds
<1>11. ListingTyped'
  BY <1>10, RelistTyped DEF WriteEnds, SavesInv, SavesTyped, PickTyped
<1>12. SavesTyped'
  BY <1>1, <1>3, <1>4, <1>9, <1>11
  DEF SavesInv, SavesTyped, PickTyped, SessionTyped, RuntimeTyped, ChoreTyped, LaunchTyped
<1> QED
  BY <1>1, <1>9, <1>10, <1>12, RelistHolds

-----------------------------------------------------------------------------
(* Saves: the theorems *)

LEMMA SavesInitHolds == SavesInit => SavesInv
<1> SUFFICES ASSUME SavesInit PROVE SavesInv
  OBVIOUS
<1>1. DiskTyped
  <2>1. <<>> \in [{} -> Int]
    OBVIOUS
  <2>2. <<>> \in Directory
    BY <2>1 DEF Directory
  <2> QED
    BY <2>2 DEF SavesInit, DiskTyped
<1>2. PickTyped
  BY DEF SavesInit, PickTyped, Pickable, Saveable
<1>3. ListingTyped /\ listing.pc = "begun" /\ listing.game = NoGame /\ ~listing.authoritative
  BY DEF SavesInit, ListingTyped, ListingType, Unmounted, NotShown, Pickable
<1>4. SessionTyped /\ RuntimeTyped
  BY DEF SavesInit, SessionTyped, RuntimeTyped, Target, Nothing
<1>5. WritesTyped /\ WritesCounted
  BY FS_EmptySet DEF SavesInit, WritesTyped, WritesCounted
<1>6. ChoreTyped /\ LaunchTyped /\ BudgetTyped
  BY SavesAssumption DEF SavesInit, ChoreTyped, LaunchTyped, BudgetTyped
<1>7. PickerMounted /\ BelievedIsQuiet /\ BelievedIsWhole /\ ListedAtRest
  BY <1>3
  DEF SavesInit, InPicker, PickerMounted, BelievedIsQuiet, BelievedIsWhole, ListedAtRest, AtRest
<1> QED
  BY <1>1, <1>2, <1>3, <1>4, <1>5, <1>6, <1>7 DEF SavesInv, SavesTyped

LEMMA SavesHold == SavesInv /\ [SavesNext]_savesVars => SavesInv'
<1> SUFFICES ASSUME SavesInv, [SavesNext]_savesVars PROVE SavesInv'
  OBVIOUS
<1>1. CASE \E g \in Game : PickGame(g)
  BY <1>1, PickGameHolds
<1>2. CASE \E s \in Name \cup {Fresh} : PickSave(s)
  BY <1>2, PickSaveHolds DEF Saveable
<1>3. CASE ListReads \/ ListLands
  BY <1>3, ListReadsHolds, ListLandsHolds
<1>4. CASE StartChore \/ RenameReads \/ RenameCopies \/ RenameEnds \/ DeleteEnds \/ ImportEnds
  BY <1>4, StartChoreHolds, RenameReadsHolds, RenameCopiesHolds, RenameEndsHolds,
     DeleteEndsHolds, ImportEndsHolds
<1>5. CASE Play \/ LaunchReads \/ Boots
  BY <1>5, LaunchHolds, BootsHolds
<1>6. CASE Played \/ Autosave \/ Swap \/ Quit
  BY <1>6, SessionHolds, QuitHolds
<1>7. CASE \E w \in writes : WriteOpens(w) \/ WriteCreates(w) \/ WriteEnds(w)
  BY <1>7, WriteMovesHolds, WriteEndsHolds
<1>8. CASE UNCHANGED savesVars
  BY <1>8
  DEF savesVars, SavesInv, SavesTyped, DiskTyped, PickTyped, ListingTyped, SessionTyped,
      RuntimeTyped, WritesTyped, ChoreTyped, LaunchTyped, BudgetTyped, InPicker,
      PickerMounted, WritesCounted, BelievedIsQuiet, BelievedIsWhole, BeingMade, Files,
      ListedAtRest, ListingExact, AtRest
<1> QED
  BY <1>1, <1>2, <1>3, <1>4, <1>5, <1>6, <1>7, <1>8 DEF SavesNext

\* Once all is quiet the pick is a file of its game or the fresh save, for any
\* library, any names and however long the picker is used and games are played.
THEOREM PickIsAlwaysReal == SavesSpec => []PickIsReal
<1>1. SavesInv => PickIsReal
  BY DEF SavesInv, PickIsReal, ListedAtRest, ListingExact, AtRest
<1> QED
  BY <1>1, SavesInitHolds, SavesHold, PTL DEF SavesSpec

\* The picker drops a pick only if there is no such file and none is being
\* written back, but for one that a rename is just making.
THEOREM PruningIsFair == SavesSpec => PruneOnlyGhosts
<1>1. ASSUME SavesInv, SavesNext, listing.pc = "read", listing'.pc = "here", pick' # pick,
             ~BeingMade(pick.game, pick.save)
      PROVE  pick.save \notin Files(pick.game) /\ ~BeingWritten(pick.game, pick.save)
  <2> SUFFICES ASSUME ~ListLands PROVE FALSE
    <3>1. ASSUME ListLands
          PROVE  pick.save \notin Files(pick.game) /\ ~BeingWritten(pick.game, pick.save)
      <4>1. listing.authoritative /\ pick.save \notin listing.files
        BY <1>1, <3>1 DEF ListLands
      <4>2. writes = {} /\ pick.save \notin Files(pick.game)
        BY <1>1, <4>1 DEF SavesInv, BelievedIsQuiet, BelievedIsWhole
      <4> QED
        BY <4>2 DEF BeingWritten
    <3> QED
      BY <3>1
  <2>1. listing.pc # listing'.pc
    BY <1>1
  <2>2. \A g, n : ~Relist(g, n)
    <3>1. ASSUME NEW g, NEW n, Relist(g, n)
          PROVE  listing' = listing \/ listing'.pc = "begun"
      BY <1>1, <3>1 DEF Relist, Relisting, SavesInv, SavesTyped, ListingTyped, ListingType
    <3> QED
      BY <1>1, <2>1, <3>1
  <2>3. /\ \A g \in Game : ~PickGame(g)
        /\ \A s \in Name \cup {Fresh} : ~PickSave(s)
    BY <2>1, <2>2 DEF PickGame, PickSave
  <2>4. ~(ListReads \/ StartChore \/ RenameCopies \/ Play \/ LaunchReads \/ Played)
    BY <1>1, <2>1 DEF ListReads, StartChore, RenameCopies, Play, LaunchReads, Played
  <2>5. ~(RenameReads \/ RenameEnds \/ DeleteEnds \/ ImportEnds)
    BY <1>1, <2>1, <2>2 DEF RenameReads, RenameEnds, DeleteEnds, ImportEnds, RelistAfter
  <2>6. ~(Boots \/ Autosave \/ Swap)
    BY <1>1, <2>1 DEF Boots, Autosave, Swap
  <2>7. ~Quit
    <3>1. ASSUME Quit PROVE listing.pc = "off"
      BY <1>1, <3>1 DEF Quit, InPicker, SavesInv, PickerMounted
    <3> QED
      BY <1>1, <3>1
  <2>8. \A w \in writes : ~(WriteOpens(w) \/ WriteCreates(w) \/ WriteEnds(w))
    BY <1>1 DEF WriteOpens, WriteCreates, WriteEnds
  <2> QED
    BY <1>1, <2>3, <2>4, <2>5, <2>6, <2>7, <2>8 DEF SavesNext
<1>2. SavesInv /\ [SavesNext]_savesVars =>
        [(listing.pc = "read" /\ listing'.pc = "here" /\ pick' # pick
            /\ ~BeingMade(pick.game, pick.save)) =>
           (pick.save \notin Files(pick.game)
              /\ ~BeingWritten(pick.game, pick.save))]_savesVars
  BY <1>1
<1> QED
  BY <1>2, SavesInitHolds, SavesHold, PTL DEF SavesSpec, PruneOnlyGhosts
-----------------------------------------------------------------------------
(* Arithmetic modulo the size of a ring *)

LEMMA ModIs ==
  ASSUME NEW c \in Nat \ {0}, NEW q \in Int, NEW r \in 0 .. c - 1
  PROVE  (c * q + r) % c = r
  OBVIOUS

LEMMA DivBounds ==
  ASSUME NEW c \in Nat \ {0}, NEW a \in Int
  PROVE  a \div c \in Int /\ c * (a \div c) <= a /\ a < c * (a \div c) + c
<1>1. c \in Int /\ c > 0
  OBVIOUS
<1>2. a \div c \in Int
  OBVIOUS
<1>3. c * (a \div c) <= a /\ a < c * (a \div c) + c
  BY <1>1, SMTT(30)
<1> QED
  BY <1>2, <1>3

LEMMA Quotient ==
  ASSUME NEW c \in Nat \ {0}, NEW a \in Int
  PROVE  \E q \in Int, r \in 0 .. c - 1 : a = c * q + r /\ a % c = r
<1>1. PICK q \in Int : c * q <= a /\ a < c * q + c
  BY DivBounds
<1>2. PICK w \in Int : w = c * q
  OBVIOUS
<1>3. PICK r \in Int : r = a - w
  OBVIOUS
<1>4. r \in 0 .. c - 1
  BY <1>1, <1>2, <1>3
<1>5. (c * q + r) % c = r
  BY <1>4, ModIs
<1>6. a = w + r
  BY <1>3
<1>7. a = c * q + r
  BY <1>2, <1>6, Zenon
<1>8. a % c = r
  BY <1>5, <1>7, Zenon
<1> QED
  BY <1>4, <1>7, <1>8, Zenon

LEMMA Distributes ==
  ASSUME NEW c \in Int, NEW a \in Int, NEW b \in Int
  PROVE  c * (a + b) = c * a + c * b /\ c * a \in Int /\ c * b \in Int
  OBVIOUS

\* An index moved on from where another one came to rest.
LEMMA ModPlus ==
  ASSUME NEW c \in Nat \ {0}, NEW a \in Int, NEW b \in Int
  PROVE  ((a % c) + b) % c = (a + b) % c
<1>1. PICK q \in Int, r \in 0 .. c - 1 : a = c * q + r /\ a % c = r
  BY Quotient
<1>2. PICK x \in Int : x = r + b
  OBVIOUS
<1>3. PICK p \in Int, s \in 0 .. c - 1 : x = c * p + s /\ x % c = s
  BY Quotient
<1>4. PICK v \in Int, w \in Int : v = c * q /\ w = c * p /\ v + w = c * (q + p)
  <2>1. c \in Int
    OBVIOUS
  <2> QED
    BY <2>1, Distributes
<1>5. a = v + r /\ x = w + s
  BY <1>1, <1>3, <1>4, Zenon
<1>6. a + b = (v + w) + s
  BY <1>2, <1>5
<1>7. a + b = c * (q + p) + s
  BY <1>4, <1>6, Zenon
<1>8. (c * (q + p) + s) % c = s
  <2>1. q + p \in Int
    OBVIOUS
  <2> QED
    BY <2>1, ModIs
<1>9. (a + b) % c = s
  BY <1>7, <1>8, Zenon
<1>10. (a % c) + b = x
  BY <1>1, <1>2, Zenon
<1> QED
  BY <1>3, <1>9, <1>10, Zenon

\* The distance of an index from another one.
LEMMA ModMinus ==
  ASSUME NEW c \in Nat \ {0}, NEW a \in Int, NEW b \in Int
  PROVE  ((a % c) - (b % c)) % c = (a - b) % c
<1>1. PICK q \in Int, r \in 0 .. c - 1 : b = c * q + r /\ b % c = r
  BY Quotient
<1>2. PICK p \in Int, s \in 0 .. c - 1 : a - b = c * p + s /\ (a - b) % c = s
  <2>1. a - b \in Int
    OBVIOUS
  <2> QED
    BY <2>1, Quotient
<1>3. PICK v \in Int, w \in Int : v = c * q /\ w = c * p /\ v + w = c * (q + p)
  <2>1. c \in Int
    OBVIOUS
  <2> QED
    BY <2>1, Distributes
<1>4. b = v + r /\ a - b = w + s
  BY <1>1, <1>2, <1>3, Zenon
<1>5. a = (v + w) + (r + s)
  BY <1>4
<1>6. a = c * (q + p) + (r + s)
  BY <1>3, <1>5, Zenon
<1>7. PICK t \in 0 .. c - 1, k \in Int : a = c * k + t /\ a % c = t
  BY Quotient
<1>8. PICK x \in Int, y \in Int : x = k - q /\ y = t - r
  OBVIOUS
<1>9. PICK z \in Int : z = c * x /\ c * k = v + z
  <2>1. c \in Int /\ k = q + x
    BY <1>8
  <2>2. c * (q + x) = c * q + c * x /\ c * x \in Int
    BY <2>1, Distributes
  <2> QED
    BY <1>3, <2>1, <2>2, Zenon
<1>10. a = v + z + t
  BY <1>7, <1>9, Zenon
<1>11. y = (w - z) + s
  BY <1>4, <1>8, <1>10
<1>12. PICK d \in Int : d = p - x
  OBVIOUS
<1>13. w - z = c * d
  <2>1. c \in Int /\ p = x + d
    BY <1>12
  <2>2. c * (x + d) = c * x + c * d /\ c * d \in Int
    BY <2>1, Distributes
  <2>3. PICK e \in Int : e = c * d
    BY <2>2
  <2>4. w = z + e
    BY <1>3, <1>9, <2>1, <2>2, <2>3, Zenon
  <2>5. w - z = e
    BY <2>4
  <2> QED
    BY <2>3, <2>5, Zenon
<1>14. y = c * d + s
  BY <1>11, <1>13, Zenon
<1>15. (c * d + s) % c = s
  BY ModIs
<1>16. (a % c) - (b % c) = y
  <2>1. a % c = t /\ b % c = r
    BY <1>1, <1>7
  <2>2. (a % c) - (b % c) = t - r
    BY <2>1, Zenon
  <2> QED
    BY <1>8, <2>2
<1> QED
  BY <1>2, <1>14, <1>15, <1>16, Zenon

\* An index that is in the ring, and one just before it.
LEMMA ModSmall ==
  ASSUME NEW c \in Nat \ {0}, NEW a \in 0 .. c - 1
  PROVE  a % c = a
<1>1. (c * 0 + a) % c = a
  BY ModIs
<1>2. c * 0 + a = a
  OBVIOUS
<1> QED
  BY <1>1, <1>2, Zenon

LEMMA ModBefore ==
  ASSUME NEW c \in Nat \ {0}, NEW a \in 1 .. c
  PROVE  (-a) % c = c - a
<1>1. PICK r \in 0 .. c - 1 : r = c - a
  OBVIOUS
<1>2. (c * (-1) + r) % c = r
  BY ModIs
<1>3. c * (-1) + r = -a
  BY <1>1
<1> QED
  BY <1>1, <1>2, <1>3, Zenon

-----------------------------------------------------------------------------
(* Sink: the ring *)

WorkletType ==
  [ring : [0 .. Capacity - 1 -> Int], read : 0 .. Capacity - 1, len : 0 .. Capacity,
   pushed : Nat, quanta : Nat]

\* The size of the ring is a size.
LEMMA RingSize == Capacity \in Nat \ {0} /\ PushCapacity \in Nat \ {0} /\ PushCapacity <= Capacity
  BY SinkAssumption

\* When the oldest frames go, the others stay in order.
LEMMA DroppedFifo ==
  ASSUME NEW w \in WorkletType, Fifo(w), NEW n \in 0 .. w.len
  PROVE  /\ Dropped(w, n) \in WorkletType /\ Fifo(Dropped(w, n))
         /\ Dropped(w, n).len = w.len - n /\ Dropped(w, n).pushed = w.pushed
         /\ Dropped(w, n).ring = w.ring
<1> DEFINE d == Dropped(w, n)
<1>1. /\ w.read \in 0 .. Capacity - 1 /\ w.len \in 0 .. Capacity /\ w.pushed \in Nat
      /\ Capacity \in Nat \ {0}
  BY RingSize DEF WorkletType
<1>2. (w.read + n) % Capacity \in 0 .. Capacity - 1
  <2>1. w.read + n \in Int
    BY <1>1
  <2> QED
    BY <1>1, <2>1, Quotient
<1>3. w.len - n \in 0 .. Capacity
  BY <1>1
<1>4. /\ d.ring = w.ring /\ d.pushed = w.pushed /\ d.len = w.len - n
      /\ d.read = (w.read + n) % Capacity /\ d \in WorkletType
  BY <1>2, <1>3 DEF Dropped, WorkletType
<1> HIDE DEF d
<1>5. ASSUME NEW i \in 0 .. d.len - 1
      PROVE  d.ring[(d.read + i) % Capacity] = d.pushed - d.len + 1 + i
  <2>1. n + i \in 0 .. w.len - 1
    BY <1>1, <1>4
  <2>2. w.ring[(w.read + (n + i)) % Capacity] = w.pushed - w.len + 1 + (n + i)
    BY <2>1 DEF Fifo
  <2>3. (((w.read + n) % Capacity) + i) % Capacity = ((w.read + n) + i) % Capacity
    <3>1. w.read + n \in Int /\ i \in Int
      BY <1>1, <1>4
    <3> QED
      BY <1>1, <3>1, ModPlus
  <2>4. (w.read + n) + i = w.read + (n + i)
    BY <1>1, <1>4
  <2>5. w.pushed - w.len + 1 + (n + i) = d.pushed - d.len + 1 + i
    BY <1>1, <1>4
  <2> QED
    BY <1>4, <2>2, <2>3, <2>4, <2>5, Zenon
<1>6. Fifo(d)
  BY <1>5 DEF Fifo
<1> QED
  BY <1>4, <1>6 DEF d

\* A push of the frames behind the last one keeps the newest in order.
LEMMA PushedFifo ==
  ASSUME NEW w \in WorkletType, Fifo(w), NEW from, from = w.pushed + 1,
         NEW n \in 0 .. Capacity
  PROVE  /\ PushedTo(w, from, n) \in WorkletType /\ Fifo(PushedTo(w, from, n))
         /\ PushedTo(w, from, n).pushed = w.pushed + n
<1> DEFINE over  == IF w.len + n > Capacity THEN w.len + n - Capacity ELSE 0
           room  == Dropped(w, over)
           write == (room.read + room.len) % Capacity
           after == PushedTo(w, from, n)
<1>1. w.len \in 0 .. Capacity /\ w.pushed \in Nat /\ Capacity \in Nat \ {0}
  BY RingSize DEF WorkletType
<1>2. over \in 0 .. w.len /\ (w.len - over) + n \in 0 .. Capacity
  BY <1>1
<1> HIDE DEF over
<1>3. /\ room \in WorkletType /\ Fifo(room)
      /\ room.len = w.len - over /\ room.pushed = w.pushed
  BY <1>2, DroppedFifo
<1>4. /\ after.ring = [i \in 0 .. Capacity - 1 |->
                         LET k == (i - write) % Capacity
                         IN  IF k < n THEN from + k ELSE room.ring[i]]
      /\ after.len = room.len + n /\ after.pushed = from + n - 1
      /\ after.read = room.read /\ after.quanta = room.quanta
      /\ after = [ring |-> after.ring, read |-> after.read, len |-> after.len,
                  pushed |-> after.pushed, quanta |-> after.quanta]
  <2>1. after = [room EXCEPT !.ring = [i \in 0 .. Capacity - 1 |->
                                       LET k == (i - write) % Capacity
                                       IN  IF k < n THEN from + k ELSE @[i]],
                             !.len = @ + n, !.pushed = from + n - 1]
    BY DEF PushedTo, over
  <2> HIDE DEF room, write, after
  <2> QED
    BY <1>3, <2>1 DEF WorkletType
<1> HIDE DEF room, after
<1>5. /\ room.read \in 0 .. Capacity - 1 /\ room.len \in 0 .. Capacity
      /\ room.len + n \in 0 .. Capacity
  BY <1>2, <1>3 DEF WorkletType
<1>13. after.len = room.len + n /\ after.pushed = from + n - 1
  BY <1>4
<1>12. room.ring \in [0 .. Capacity - 1 -> Int] /\ room.quanta \in Nat
  BY <1>3 DEF WorkletType
<1>6. write \in 0 .. Capacity - 1
  <2>1. room.read + room.len \in Int
    BY <1>5
  <2> QED
    BY <1>1, <2>1, Quotient
<1>7. \A i \in 0 .. Capacity - 1 : (i - write) % Capacity \in Int
  <2>1. \A i \in 0 .. Capacity - 1 : i - write \in Int
    BY <1>6
  <2> QED
    BY <1>1, <2>1, Quotient
<1>8. after.pushed = w.pushed + n /\ after.pushed \in Nat
  BY <1>1, <1>4
<1>9. after \in WorkletType
  <2> HIDE DEF write
  <2>1. ASSUME NEW i \in 0 .. Capacity - 1
        PROVE  (IF (i - write) % Capacity < n THEN from + ((i - write) % Capacity)
                ELSE room.ring[i]) \in Int
    <3>1. PICK k \in Int : k = (i - write) % Capacity
      BY <1>7
    <3>2. room.ring[i] \in Int /\ from + k \in Int
      BY <1>1, <1>12
    <3>3. (IF k < n THEN from + k ELSE room.ring[i]) \in Int
      BY <3>2, Zenon
    <3> QED
      BY <3>1, <3>3, Zenon
  <2>2. after.ring \in [0 .. Capacity - 1 -> Int]
    BY <1>4, <2>1, Zenon
  <2> QED
    BY <1>4, <1>5, <1>8, <1>12, <2>2 DEF WorkletType
<1>10. ASSUME NEW j \in 0 .. after.len - 1
       PROVE  after.ring[(after.read + j) % Capacity] = after.pushed - after.len + 1 + j
  <2> DEFINE at == (room.read + j) % Capacity
             k  == (at - write) % Capacity
  <2>1. j \in 0 .. (room.len + n) - 1
    BY <1>4
  <2>2. at \in 0 .. Capacity - 1
    <3>1. room.read + j \in Int
      BY <1>5, <2>1
    <3> QED
      BY <1>1, <3>1, Quotient
  <2>3. k = (j - room.len) % Capacity
    <3>1. room.read + j \in Int /\ room.read + room.len \in Int
      BY <1>5, <2>1
    <3>2. PICK x \in Int, y \in Int : x = room.read + j /\ y = room.read + room.len
      BY <3>1
    <3>3. ((x % Capacity) - (y % Capacity)) % Capacity = (x - y) % Capacity
      BY <1>1, ModMinus
    <3>4. x - y = j - room.len
      BY <1>5, <2>1, <3>2
    <3> QED
      BY <3>2, <3>3, <3>4, Zenon DEF k, write
  <2>4. after.ring[at] = IF k < n THEN from + k ELSE room.ring[at]
    BY <1>4, <2>2
  <2> HIDE DEF k, write
  <2>5. CASE j >= room.len
    <3>1. j - room.len \in 0 .. Capacity - 1 /\ j - room.len < n
      BY <1>1, <1>5, <2>1, <2>5
    <3>2. k = j - room.len
      BY <1>1, <2>3, <3>1, ModSmall
    <3>3. after.ring[at] = from + (j - room.len)
      BY <2>4, <3>1, <3>2
    <3>4. from + (j - room.len) = after.pushed - after.len + 1 + j
      BY <1>1, <1>5, <1>13, <2>1
    <3> QED
      BY <1>4, <3>3, <3>4, Zenon
  <2>6. CASE j < room.len
    <3>1. room.len - j \in 1 .. Capacity /\ j - room.len = -(room.len - j)
          /\ Capacity - (room.len - j) >= n
      BY <1>1, <1>5, <2>1, <2>6
    <3>2. k = Capacity - (room.len - j)
      BY <1>1, <2>3, <3>1, ModBefore
    <3>3. after.ring[at] = room.ring[at]
      BY <2>4, <3>1, <3>2, <1>5, <1>1
    <3>4. room.ring[at] = room.pushed - room.len + 1 + j
      <4>1. j \in 0 .. room.len - 1
        BY <2>1, <2>6, <1>5
      <4> QED
        BY <1>3, <4>1 DEF Fifo
    <3>5. room.pushed - room.len + 1 + j = after.pushed - after.len + 1 + j
      BY <1>1, <1>3, <1>5, <1>13, <2>1
    <3> QED
      BY <1>4, <3>3, <3>4, <3>5, Zenon
  <2> QED
    BY <1>5, <2>1, <2>5, <2>6
<1>11. Fifo(after)
  BY <1>10 DEF Fifo
<1> QED
  BY <1>8, <1>9, <1>11 DEF after

-----------------------------------------------------------------------------
(* Sink: a chunk, slice by slice *)

\* The first number at which something is not so.
LEMMA FirstOf ==
  ASSUME NEW T \in SUBSET Nat, T # {}
  PROVE  \E m \in T : \A k \in T : m <= k
<1>1. PICK m \in T : \A k \in T : <<k, m>> \notin OpToRel(<, Nat)
  BY WFMin, NatLessThanWellFounded, Zenon
<1>2. ASSUME NEW k \in T
      PROVE  m <= k
  <2>1. m \in Nat /\ k \in Nat
    OBVIOUS
  <2>2. ~(k < m)
    BY <1>1, <2>1, Zenon DEF OpToRel
  <2> QED
    BY <2>1, <2>2
<1> QED
  BY <1>2

\* The states of the ring after so many slices.
IsPushing(g, w, c, n) ==
  g = [s \in 0 .. n |-> IF s = 0 THEN w ELSE Slice(g[s - 1], c, s)]

LEMMA PushingExists ==
  ASSUME NEW w, NEW c, NEW n \in Nat
  PROVE  \E g : IsPushing(g, w, c, n)
<1> DEFINE T == {k \in Nat : ~ \E g : IsPushing(g, w, c, k)}
<1> SUFFICES ASSUME T # {} PROVE FALSE
  OBVIOUS
<1>1. PICK m \in T : \A k \in T : m <= k
  <2>1. T \in SUBSET Nat
    OBVIOUS
  <2> HIDE DEF T
  <2> QED
    BY <2>1, FirstOf
<1>2. m \in Nat /\ ~ \E g : IsPushing(g, w, c, m)
  OBVIOUS
<1>3. CASE m = 0
  <2> DEFINE g == [s \in 0 .. 0 |-> w]
  <2>1. IsPushing(g, w, c, 0)
    BY DEF IsPushing
  <2> QED
    BY <1>2, <1>3, <2>1
<1>4. CASE m # 0
  <2>1. m - 1 \in Nat /\ m - 1 \notin T
    BY <1>1, <1>2, <1>4
  <2>2. PICK g : IsPushing(g, w, c, m - 1)
    BY <2>1
  <2>3. /\ \A s \in 0 .. m - 1 : g[s] = IF s = 0 THEN w ELSE Slice(g[s - 1], c, s)
    BY <2>2 DEF IsPushing
  <2> DEFINE h == [s \in 0 .. m |-> IF s = m THEN Slice(g[m - 1], c, m) ELSE g[s]]
  <2>4. ASSUME NEW s \in 0 .. m
        PROVE  h[s] = IF s = 0 THEN w ELSE Slice(h[s - 1], c, s)
    <3>1. CASE s = 0
      BY <1>2, <1>4, <2>3, <3>1
    <3>2. CASE s # 0 /\ s # m
      <4>1. s \in 0 .. m - 1 /\ s - 1 \in 0 .. m /\ s - 1 # m
        BY <1>2, <3>2
      <4>2. h[s] = g[s] /\ h[s - 1] = g[s - 1]
        BY <3>2, <4>1
      <4> QED
        BY <2>3, <3>2, <4>1, <4>2
    <3>3. CASE s = m
      <4>1. s - 1 \in 0 .. m /\ s - 1 # m
        BY <1>2, <1>4, <3>3
      <4>2. h[s - 1] = g[m - 1] /\ h[s] = Slice(g[m - 1], c, m)
        BY <3>3, <4>1
      <4> QED
        BY <1>4, <3>3, <4>2
    <3> QED
      BY <3>1, <3>2, <3>3
  <2>5. h = [s \in 0 .. m |-> h[s]]
    OBVIOUS
  <2> HIDE DEF h
  <2>6. IsPushing(h, w, c, m)
    BY <2>4, <2>5 DEF IsPushing
  <2> QED
    BY <1>2, <2>6
<1> QED
  BY <1>3, <1>4

\* AllPushed is what the last slice leaves.
LEMMA AllPushedIs ==
  ASSUME NEW w, NEW c, Slices(c) \in Nat
  PROVE  \E g : IsPushing(g, w, c, Slices(c)) /\ AllPushed(w, c) = g[Slices(c)]
<1>1. \E g : IsPushing(g, w, c, Slices(c))
  BY PushingExists
<1> QED
  BY <1>1 DEF AllPushed, IsPushing

Chunk == [first : Nat, length : Nat]

\* There are as many slices as it takes: the last but one ends before the chunk.
LEMMA SlicesCover ==
  ASSUME NEW c \in Chunk
  PROVE  /\ Slices(c) \in Nat
         /\ c.length <= PushCapacity * Slices(c)
         /\ PushCapacity * Slices(c) < c.length + PushCapacity
<1>1. PushCapacity \in Nat \ {0} /\ c.length \in Nat
  BY RingSize DEF Chunk
<1>2. PICK a \in Nat : a = c.length + PushCapacity - 1
  BY <1>1
<1>3. /\ a \div PushCapacity \in Int /\ PushCapacity * (a \div PushCapacity) <= a
      /\ a < PushCapacity * (a \div PushCapacity) + PushCapacity
  BY <1>1, DivBounds
<1>4. PICK n \in Int : n = Slices(c) /\ PushCapacity * n <= a
                        /\ a < PushCapacity * n + PushCapacity
  BY <1>2, <1>3, Zenon DEF Slices
<1>5. PICK v \in Int : v = PushCapacity * n
  BY <1>1
<1>6. n \in Nat
  <2>1. CASE n <= -1
    <3>1. v <= -PushCapacity
      BY <1>1, <1>5, <2>1
    <3> QED
      BY <1>1, <1>2, <1>4, <1>5, <3>1
  <2> QED
    BY <2>1
<1>7. c.length <= v /\ v < c.length + PushCapacity
  BY <1>1, <1>2, <1>4, <1>5
<1> QED
  BY <1>4, <1>5, <1>6, <1>7, Zenon

\* One slice, behind the frames that the ones before it pushed.
LEMMA SliceFifo ==
  ASSUME NEW v \in WorkletType, Fifo(v), NEW c \in Chunk, NEW p \in Nat,
         c.first = p + 1, NEW s \in 1 .. Slices(c),
         v.pushed = p + Least(PushCapacity * (s - 1), c.length)
  PROVE  /\ Slice(v, c, s) \in WorkletType /\ Fifo(Slice(v, c, s))
         /\ Slice(v, c, s).pushed = p + Least(PushCapacity * s, c.length)
<1>1. /\ PushCapacity \in Nat \ {0} /\ Capacity \in Nat \ {0} /\ PushCapacity <= Capacity
      /\ c.length \in Nat
  BY RingSize DEF Chunk
<1>2. PICK n \in Nat : /\ n = Slices(c) /\ s <= n
                       /\ PushCapacity * n < c.length + PushCapacity
  BY SlicesCover
<1>3. PICK from \in Nat : /\ from = PushCapacity * (s - 1) /\ from = (s - 1) * PushCapacity
                          /\ PushCapacity * s = from + PushCapacity
  BY <1>1
<1>4. PushCapacity * s <= PushCapacity * n
  <2>1. PICK d \in Nat : n = s + d
    BY <1>2
  <2>2. PushCapacity * (s + d) = PushCapacity * s + PushCapacity * d
    BY <1>1
  <2>3. PushCapacity * d >= 0
    BY <1>1
  <2>4. PushCapacity * n = PushCapacity * s + PushCapacity * d
    BY <2>1, <2>2, Zenon
  <2>5. PICK x \in Int, y \in Int : x = PushCapacity * s /\ y = PushCapacity * d
    BY <1>1
  <2>6. x <= x + y
    BY <2>3, <2>5
  <2> QED
    BY <2>4, <2>5, <2>6, Zenon
<1>5. from < c.length
  <2>1. PICK x \in Int, y \in Int : x = PushCapacity * s /\ y = PushCapacity * n
    BY <1>1
  <2>2. x <= y /\ y < c.length + PushCapacity /\ x = from + PushCapacity
    BY <1>2, <1>3, <1>4, <2>1, Zenon
  <2> QED
    BY <1>1, <2>1, <2>2
<1>6. v.pushed = p + from
  <2>1. Least(from, c.length) = from
    BY <1>1, <1>5 DEF Least
  <2> QED
    BY <1>3, <2>1, Zenon
<1>7. PICK k \in 0 .. Capacity : k = Least(PushCapacity, c.length - from)
  BY <1>1, <1>5 DEF Least
<1>8. Slice(v, c, s) = PushedTo(v, c.first + from, k)
  BY <1>3, <1>7, Zenon DEF Slice
<1>9. c.first + from = v.pushed + 1
  BY <1>6
<1>10. /\ PushedTo(v, c.first + from, k) \in WorkletType
       /\ Fifo(PushedTo(v, c.first + from, k))
       /\ PushedTo(v, c.first + from, k).pushed = v.pushed + k
  BY <1>9, PushedFifo
<1>11. v.pushed + k = p + Least(from + PushCapacity, c.length)
  BY <1>1, <1>5, <1>6, <1>7 DEF Least
<1> QED
  BY <1>3, <1>8, <1>10, <1>11, Zenon

\* A chunk goes into the ring whole, however it is sliced.
LEMMA ChunkFifo ==
  ASSUME NEW w \in WorkletType, Fifo(w), NEW c \in Chunk, c.first = w.pushed + 1
  PROVE  /\ AllPushed(w, c) \in WorkletType /\ Fifo(AllPushed(w, c))
         /\ AllPushed(w, c).pushed = w.pushed + c.length
<1>1. /\ PushCapacity \in Nat \ {0} /\ c.length \in Nat /\ w.pushed \in Nat
      /\ Slices(c) \in Nat
  BY RingSize, SlicesCover DEF Chunk, WorkletType
<1>2. PICK g : IsPushing(g, w, c, Slices(c)) /\ AllPushed(w, c) = g[Slices(c)]
  BY <1>1, AllPushedIs
<1> DEFINE Good(s) == /\ g[s] \in WorkletType /\ Fifo(g[s])
                      /\ g[s].pushed = w.pushed + Least(PushCapacity * s, c.length)
           T == {s \in Nat : s <= Slices(c) /\ ~Good(s)}
<1>3. Good(0)
  <2>1. g[0] = w
    BY <1>1, <1>2 DEF IsPushing
  <2>2. PushCapacity * 0 = 0
    BY <1>1
  <2>3. Least(0, c.length) = 0
    BY <1>1 DEF Least
  <2>4. w.pushed + 0 = w.pushed
    BY <1>1
  <2> QED
    BY <2>1, <2>2, <2>3, <2>4, Zenon
<1>4. ASSUME NEW s \in 1 .. Slices(c), Good(s - 1)
      PROVE  Good(s)
  <2>1. g[s] = Slice(g[s - 1], c, s)
    BY <1>1, <1>2 DEF IsPushing
  <2> QED
    BY <1>1, <1>4, <2>1, SliceFifo
<1>5. T = {}
  <2> SUFFICES ASSUME T # {} PROVE FALSE
    OBVIOUS
  <2>1. PICK m \in T : \A k \in T : m <= k
    <3>1. T \in SUBSET Nat
      OBVIOUS
    <3> HIDE DEF T
    <3> QED
      BY <3>1, FirstOf
  <2>2. m \in Nat /\ m <= Slices(c) /\ ~Good(m)
    OBVIOUS
  <2> HIDE DEF Good
  <2>3. m # 0
    BY <1>3, <2>2
  <2>4. m \in 1 .. Slices(c) /\ m - 1 \in Nat /\ m - 1 <= Slices(c) /\ ~(m <= m - 1)
    BY <1>1, <2>2, <2>3
  <2>5. m - 1 \notin T
    BY <2>1, <2>4
  <2>6. Good(m - 1)
    BY <2>4, <2>5
  <2> QED
    BY <1>4, <2>2, <2>4, <2>6
<1>6. Good(Slices(c))
  <2> HIDE DEF Good
  <2> QED
    BY <1>1, <1>5
<1>7. Least(PushCapacity * Slices(c), c.length) = c.length
  <2>1. c.length <= PushCapacity * Slices(c)
    BY SlicesCover
  <2>2. PICK x \in Int : x = PushCapacity * Slices(c)
    BY <1>1
  <2>3. Least(x, c.length) = c.length
    <3>1. c.length <= x
      BY <2>1, <2>2, Zenon
    <3> QED
      BY <1>1, <3>1 DEF Least
  <2> QED
    BY <2>2, <2>3, Zenon
<1> QED
  BY <1>2, <1>6, <1>7, Zenon

-----------------------------------------------------------------------------
(* Sink: the inductive invariant *)

SourceTyped == source \in [playing : BOOLEAN, queued : Nat, priming : BOOLEAN]
PumpTyped == pump \in [reported : Nat, sent : Nat, next : Nat]
QueuesTyped == chunks \in Seq(Chunk) /\ reports \in Seq(Nat)

\* Where a chunk ends, that is, where the next one starts.
Ending(c) == c.first + c.length

\* The chunks on their way follow each other, and the frames in the ring.
ChunksFollow ==
  /\ \A i \in 1 .. Len(chunks) :
       chunks[i].first = IF i = 1 THEN worklet.pushed + 1 ELSE Ending(chunks[i - 1])
  /\ pump.next = IF chunks = <<>> THEN worklet.pushed + 1 ELSE Ending(chunks[Len(chunks)])

SinkInv ==
  /\ SourceTyped /\ PumpTyped /\ QueuesTyped
  /\ worklet \in WorkletType /\ Fifo(worklet)
  /\ ChunksFollow

-----------------------------------------------------------------------------
(* Sink: every step keeps it *)

\* Postings are counted.
LEMMA PostedIs ==
  ASSUME NEW p \in [reported : Nat, sent : Nat, next : Nat], NEW n \in Nat
  PROVE  /\ Posted(p, n) \in [reported : Nat, sent : Nat, next : Nat]
         /\ Posted(p, n).next = p.next + n
<1>1. p.sent + n \in Nat /\ p.next + n \in Nat
  OBVIOUS
<1>2. PICK a \in Nat, b \in Nat : a = p.sent + n /\ b = p.next + n
  BY <1>1
<1>3. Posted(p, n) = [p EXCEPT !.sent = a, !.next = b]
  BY <1>2, Zenon DEF Posted
<1>4. Posted(p, n) \in [reported : Nat, sent : Nat, next : Nat] /\ Posted(p, n).next = b
  BY <1>3
<1> QED
  BY <1>2, <1>4

\* A chunk is sent behind all others.
LEMMA ChunkSent ==
  ASSUME SinkInv, NEW n \in Nat, worklet' = worklet,
         pump'.next = pump.next + n,
         chunks' = Append(chunks, [first |-> pump.next, length |-> n])
  PROVE  chunks' \in Seq(Chunk) /\ ChunksFollow'
<1> DEFINE c == [first |-> pump.next, length |-> n]
<1>1. c \in Chunk /\ chunks \in Seq(Chunk) /\ Len(chunks) \in Nat
  BY DEF SinkInv, PumpTyped, QueuesTyped, Chunk
<1>2. c.first = pump.next /\ Ending(c) = pump.next + n
  BY DEF Ending
<1> HIDE DEF c
<1>3. chunks' = Append(chunks, c)
  BY DEF c
<1>4. /\ chunks' \in Seq(Chunk) /\ Len(chunks') = Len(chunks) + 1 /\ chunks' # <<>>
      /\ chunks'[Len(chunks) + 1] = c
      /\ \A i \in 1 .. Len(chunks) : chunks'[i] = chunks[i]
  BY <1>1, <1>3, AppendProperties
<1>5. chunks' \in Seq(Chunk)
  BY <1>4
<1>6. chunks = <<>> <=> Len(chunks) = 0
  BY <1>1, EmptySeq
<1>7. ASSUME NEW i \in 1 .. Len(chunks')
      PROVE  chunks'[i].first =
               IF i = 1 THEN worklet.pushed + 1 ELSE Ending(chunks'[i - 1])
  <2>1. CASE i <= Len(chunks)
    <3>1. i \in 1 .. Len(chunks) /\ (i # 1 => i - 1 \in 1 .. Len(chunks))
      BY <1>1, <1>4, <2>1
    <3> QED
      BY <1>4, <3>1 DEF SinkInv, ChunksFollow
  <2>2. CASE i = Len(chunks) + 1
    <3>1. CASE i = 1
      BY <1>1, <1>2, <1>4, <1>6, <2>2, <3>1 DEF SinkInv, ChunksFollow
    <3>2. CASE i # 1
      <4>1. Len(chunks) \in 1 .. Len(chunks) /\ i - 1 = Len(chunks) /\ chunks # <<>>
        BY <1>1, <1>4, <1>6, <2>2, <3>2
      <4> QED
        BY <1>2, <1>4, <2>2, <3>2, <4>1 DEF SinkInv, ChunksFollow
    <3> QED
      BY <3>1, <3>2
  <2> QED
    BY <1>1, <1>4, <2>1, <2>2
<1>8. pump'.next = Ending(chunks'[Len(chunks')])
  BY <1>2, <1>4
<1>9. ChunksFollow'
  BY <1>4, <1>7, <1>8 DEF ChunksFollow
<1> QED
  BY <1>5, <1>9

\* WebAudio::pump() sends the frames it got, if any.
LEMMA TopsHolds ==
  ASSUME SinkInv, NEW p \in [reported : Nat, sent : Nat, next : Nat], p.next = pump.next,
         Tops(p), worklet' = worklet,
         reports' = reports \/ (reports # <<>> /\ reports' = Tail(reports))
  PROVE  SinkInv'
<1>1. reports' \in Seq(Nat)
  <2>1. reports \in Seq(Nat)
    BY DEF SinkInv, QueuesTyped
  <2>2. CASE reports # <<>> /\ reports' = Tail(reports)
    BY <2>1, <2>2, HeadTailProperties
  <2> QED
    BY <2>1, <2>2
<1>2. worklet' \in WorkletType /\ Fifo(worklet')
  BY DEF SinkInv
<1>3. CASE pump' = p /\ UNCHANGED <<source, chunks>>
  <2>1. ChunksFollow'
    BY <1>3 DEF SinkInv, ChunksFollow
  <2> QED
    BY <1>1, <1>2, <1>3, <2>1 DEF SinkInv, SourceTyped, PumpTyped, QueuesTyped
<1>4. CASE ~(pump' = p /\ UNCHANGED <<source, chunks>>)
  <2> DEFINE estimate == p.reported + p.sent
             frames   == SinkTarget - estimate
             filled   == Filled(frames)
  <2>1. ~(estimate + MinChunk > SinkTarget) /\ source' = filled.source
        /\ pump' = Posted(p, filled.n)
        /\ chunks' = IF filled.n = 0 THEN chunks
                     ELSE Append(chunks, [first |-> p.next, length |-> filled.n])
    BY <1>4 DEF Tops
  <2>2. frames \in Nat
    BY <2>1, SinkAssumption
  <2> HIDE DEF frames
  <2>3. filled.n \in Nat /\ filled.source \in [playing : BOOLEAN, queued : Nat,
                                               priming : BOOLEAN]
    <3> DEFINE kept == IF source.queued > Discard * CoreTarget THEN CoreTarget
                       ELSE source.queued
               n    == Least(kept, frames)
    <3>1. /\ source.queued \in Nat /\ source \in [playing : BOOLEAN, queued : Nat,
                                                  priming : BOOLEAN]
          /\ CoreTarget \in Nat
      BY SinkAssumption DEF SinkInv, SourceTyped
    <3>2. kept \in Nat
      BY <3>1
    <3> HIDE DEF kept
    <3>3. n \in Nat /\ kept - n \in Nat
      BY <2>2, <3>2 DEF Least
    <3>4. filled = IF ~source.playing
                   THEN [n |-> 0, source |-> [source EXCEPT !.priming = TRUE]]
                   ELSE IF source.priming /\ kept < CoreTarget
                   THEN [n |-> 0, source |-> [source EXCEPT !.queued = kept]]
                   ELSE [n |-> n, source |-> [source EXCEPT !.queued = kept - n,
                                                            !.priming = n < frames]]
      BY DEF Filled, kept
    <3> HIDE DEF n, filled
    <3>5. CASE ~source.playing
      BY <3>1, <3>4, <3>5
    <3>6. CASE source.playing /\ source.priming /\ kept < CoreTarget
      BY <3>1, <3>2, <3>4, <3>6
    <3>7. CASE source.playing /\ ~(source.priming /\ kept < CoreTarget)
      <4>1. filled = [n |-> n, source |-> [source EXCEPT !.queued = kept - n,
                                                         !.priming = n < frames]]
        BY <3>4, <3>7
      <4>2. (n < frames) \in BOOLEAN
        OBVIOUS
      <4> QED
        BY <3>1, <3>3, <4>1, <4>2
    <3> QED
      BY <3>5, <3>6, <3>7
  <2> HIDE DEF filled, estimate
  <2>4. PumpTyped' /\ pump'.next = pump.next + filled.n
    BY <2>1, <2>3, PostedIs DEF PumpTyped
  <2>5. SourceTyped'
    BY <2>1, <2>3 DEF SourceTyped
  <2>6. QueuesTyped' /\ ChunksFollow'
    <3>1. CASE filled.n = 0
      <4>1. chunks' = chunks /\ pump'.next = pump.next
        BY <2>1, <2>4, <3>1 DEF SinkInv, PumpTyped
      <4> QED
        BY <1>1, <4>1 DEF SinkInv, QueuesTyped, ChunksFollow
    <3>2. CASE filled.n # 0
      <4>1. chunks' = Append(chunks, [first |-> pump.next, length |-> filled.n])
        BY <2>1, <3>2
      <4>2. chunks' \in Seq(Chunk) /\ ChunksFollow'
        BY <2>3, <2>4, <4>1, ChunkSent
      <4> QED
        BY <1>1, <4>2 DEF QueuesTyped
    <3> QED
      BY <3>1, <3>2
  <2> QED
    BY <1>2, <2>4, <2>5, <2>6 DEF SinkInv
<1> QED
  BY <1>3, <1>4

\* The head of the chunks goes into the ring.
LEMMA ChunkArrivesHolds ==
  ASSUME SinkInv, ChunkArrives
  PROVE  SinkInv'
<1>1. /\ chunks \in Seq(Chunk) /\ chunks # <<>> /\ Len(chunks) \in Nat \ {0}
  BY EmptySeq DEF SinkInv, QueuesTyped, ChunkArrives
<1>2. /\ Head(chunks) \in Chunk /\ Head(chunks) = chunks[1]
      /\ chunks' = Tail(chunks) /\ chunks' \in Seq(Chunk)
      /\ Len(chunks') = Len(chunks) - 1
      /\ \A i \in 1 .. Len(chunks') : chunks'[i] = chunks[i + 1]
  BY <1>1, HeadTailProperties DEF ChunkArrives
<1>3. Head(chunks).first = worklet.pushed + 1
  BY <1>1, <1>2 DEF SinkInv, ChunksFollow
<1>4. /\ worklet' \in WorkletType /\ Fifo(worklet')
      /\ worklet'.pushed = worklet.pushed + Head(chunks).length
  BY <1>2, <1>3, ChunkFifo DEF SinkInv, ChunkArrives
<1>5. worklet'.pushed + 1 = Ending(chunks[1])
  <2>1. worklet.pushed \in Nat
    BY DEF SinkInv, WorkletType
  <2>2. chunks[1].length \in Nat /\ chunks[1].first = worklet.pushed + 1
        /\ worklet'.pushed = worklet.pushed + chunks[1].length
    BY <1>2, <1>3, <1>4 DEF Chunk
  <2> QED
    BY <2>1, <2>2 DEF Ending
<1>6. ASSUME NEW i \in 1 .. Len(chunks')
      PROVE  chunks'[i].first =
               IF i = 1 THEN worklet'.pushed + 1 ELSE Ending(chunks'[i - 1])
  <2>1. i + 1 \in 1 .. Len(chunks) /\ i + 1 # 1 /\ (i + 1) - 1 = i
    BY <1>1, <1>2
  <2>2. chunks'[i].first = Ending(chunks[i])
    BY <1>2, <2>1 DEF SinkInv, ChunksFollow
  <2>3. CASE i = 1
    BY <1>5, <2>2, <2>3
  <2>4. CASE i # 1
    <3>1. i - 1 \in 1 .. Len(chunks') /\ (i - 1) + 1 = i
      BY <1>1, <1>2, <2>4
    <3>2. chunks'[i - 1] = chunks[i]
      BY <1>2, <3>1
    <3> QED
      BY <2>2, <2>4, <3>2
  <2> QED
    BY <2>3, <2>4
<1>7. pump'.next = IF chunks' = <<>> THEN worklet'.pushed + 1
                   ELSE Ending(chunks'[Len(chunks')])
  <2>1. pump'.next = Ending(chunks[Len(chunks)])
    BY <1>1 DEF ChunkArrives, SinkInv, ChunksFollow
  <2>2. CASE chunks' = <<>>
    <3>1. Len(chunks) = 1
      BY <1>1, <1>2, <2>2
    <3> QED
      BY <1>5, <2>1, <2>2, <3>1
  <2>3. CASE chunks' # <<>>
    <3>1. Len(chunks') \in 1 .. Len(chunks') /\ Len(chunks') + 1 = Len(chunks)
      BY <1>1, <1>2, <2>3, EmptySeq
    <3> QED
      BY <1>2, <2>1, <2>3, <3>1
  <2> QED
    BY <2>2, <2>3
<1>8. ChunksFollow'
  BY <1>6, <1>7 DEF ChunksFollow
<1>9. UNCHANGED <<source, pump, reports>>
  BY DEF ChunkArrives
<1> QED
  BY <1>2, <1>4, <1>8, <1>9 DEF SinkInv, SourceTyped, PumpTyped, QueuesTyped

\* render() takes the oldest frames out.
LEMMA RendersHolds ==
  ASSUME SinkInv, Renders
  PROVE  SinkInv'
<1> DEFINE n   == Least(Quantum, worklet.len)
           due == worklet.quanta + 1 >= ReportEvery
           d   == Dropped(worklet, n)
<1>1. worklet \in WorkletType /\ Fifo(worklet) /\ worklet.len \in Nat /\ worklet.quanta \in Nat
  BY RingSize DEF SinkInv, WorkletType
<1>2. n \in 0 .. worklet.len
  BY <1>1, SinkAssumption DEF Least
<1>3. /\ worklet' = [worklet EXCEPT !.read = (@ + n) % Capacity, !.len = @ - n,
                                    !.quanta = IF due THEN 0 ELSE @ + 1]
      /\ reports' = IF due THEN Append(reports, worklet.len - n) ELSE reports
      /\ UNCHANGED <<source, pump, chunks>>
  BY DEF Renders
<1> HIDE DEF n, due
<1>4. PICK q \in Nat : q = IF due THEN 0 ELSE worklet.quanta + 1
  BY <1>1
<1>5. worklet' = [d EXCEPT !.quanta = q]
  BY <1>1, <1>3, <1>4 DEF Dropped, WorkletType
<1>6. d \in WorkletType /\ Fifo(d) /\ d.pushed = worklet.pushed
  BY <1>1, <1>2, DroppedFifo
<1> HIDE DEF d
<1>7. /\ worklet' \in WorkletType /\ worklet'.pushed = worklet.pushed
      /\ worklet'.ring = d.ring /\ worklet'.read = d.read /\ worklet'.len = d.len
      /\ worklet'.pushed = d.pushed
  BY <1>5, <1>6 DEF WorkletType
<1>8. Fifo(worklet')
  BY <1>6, <1>7 DEF Fifo
<1>9. reports' \in Seq(Nat)
  <2>1. worklet.len - n \in Nat /\ reports \in Seq(Nat)
    BY <1>1, <1>2 DEF SinkInv, QueuesTyped
  <2>2. reports' = reports \/ reports' = Append(reports, worklet.len - n)
    BY <1>3
  <2> QED
    BY <2>1, <2>2, AppendProperties
<1>10. ChunksFollow'
  BY <1>3, <1>7 DEF SinkInv, ChunksFollow
<1> QED
  BY <1>3, <1>7, <1>8, <1>9, <1>10 DEF SinkInv, SourceTyped, PumpTyped, QueuesTyped

LEMMA SinkInitHolds == SinkInit => SinkInv
<1> SUFFICES ASSUME SinkInit PROVE SinkInv
  OBVIOUS
<1>1. worklet \in WorkletType /\ worklet.len = 0 /\ worklet.pushed = 0
  BY RingSize DEF SinkInit, WorkletType
<1>2. Fifo(worklet)
  BY <1>1 DEF Fifo
<1>3. SourceTyped /\ PumpTyped /\ QueuesTyped
  BY DEF SinkInit, SourceTyped, PumpTyped, QueuesTyped
<1>4. Len(chunks) = 0 /\ chunks = <<>> /\ pump.next = 1
  BY DEF SinkInit
<1>5. ChunksFollow
  BY <1>1, <1>4 DEF ChunksFollow
<1> QED
  BY <1>1, <1>2, <1>3, <1>5 DEF SinkInv

LEMMA SinkHolds == SinkInv /\ [SinkNext]_sinkVars => SinkInv'
<1> SUFFICES ASSUME SinkInv, [SinkNext]_sinkVars PROVE SinkInv'
  OBVIOUS
<1>1. CASE Adopted
  <2>1. SourceTyped'
    BY <1>1 DEF Adopted, SourceTyped
  <2>2. PumpTyped' /\ pump'.next = pump.next + Prime /\ Prime \in Nat
    BY <1>1, SinkAssumption, PostedIs DEF Adopted, SinkInv, PumpTyped
  <2>3. chunks' \in Seq(Chunk) /\ ChunksFollow'
    BY <1>1, <2>2, ChunkSent DEF Adopted
  <2> QED
    BY <1>1, <2>1, <2>2, <2>3 DEF Adopted, SinkInv, QueuesTyped
<1>2. CASE Pauses \/ Emulates
  <2>1. SourceTyped' /\ UNCHANGED <<pump, chunks, reports, worklet>>
    <3>1. /\ source \in [playing : BOOLEAN, queued : Nat, priming : BOOLEAN]
          /\ (~source.playing) \in BOOLEAN /\ source.queued + 1 \in Nat
      BY DEF SinkInv, SourceTyped
    <3>2. CASE Pauses
      BY <3>1, <3>2 DEF Pauses, SourceTyped
    <3>3. CASE Emulates
      BY <3>1, <3>3 DEF Emulates, SourceTyped
    <3> QED
      BY <1>2, <3>2, <3>3
  <2> QED
    BY <2>1 DEF SinkInv, PumpTyped, QueuesTyped, ChunksFollow
<1>3. CASE Pumps
  <2>1. pump \in [reported : Nat, sent : Nat, next : Nat]
    BY DEF SinkInv, PumpTyped
  <2> QED
    BY <1>3, <2>1, TopsHolds DEF Pumps
<1>4. CASE Reported
  <2> DEFINE p == [pump EXCEPT !.reported = Head(reports), !.sent = 0]
  <2>1. Head(reports) \in Nat
    BY <1>4 DEF Reported, SinkInv, QueuesTyped
  <2>2. p \in [reported : Nat, sent : Nat, next : Nat] /\ p.next = pump.next
    BY <2>1 DEF SinkInv, PumpTyped
  <2>3. Tops(p) /\ worklet' = worklet /\ reports # <<>> /\ reports' = Tail(reports)
    BY <1>4 DEF Reported
  <2> HIDE DEF p
  <2> QED
    BY <2>2, <2>3, TopsHolds
<1>5. CASE ChunkArrives
  BY <1>5, ChunkArrivesHolds
<1>6. CASE Renders
  BY <1>6, RendersHolds
<1>7. CASE UNCHANGED sinkVars
  BY <1>7 DEF sinkVars, SinkInv, SourceTyped, PumpTyped, QueuesTyped, ChunksFollow
<1> QED
  BY <1>1, <1>2, <1>3, <1>4, <1>5, <1>6, <1>7 DEF SinkNext

\* The ring holds the newest frames it was sent, in order and without a gap,
\* for any sizes of ring, pushes and quanta, any targets, and however long the
\* page pumps.
THEOREM RingIsAlwaysFifo == SinkSpec => []RingIsFifo
<1>1. SinkInv => RingIsFifo
  BY DEF SinkInv, RingIsFifo, WorkletType
<1> QED
  BY <1>1, SinkInitHolds, SinkHolds, PTL DEF SinkSpec

-----------------------------------------------------------------------------
(* Replay stream: records *)

Byte == 0 .. 255

One(x, S) == IF x \in S THEN 1 ELSE 0

LEMMA PlayerFacts ==
  /\ Players \in Nat /\ 2 <= Players /\ Players <= 4
  /\ Player \subseteq 1 .. 4 /\ IsFiniteSet(Player)
  /\ \A i \in 1 .. 4 : i \in Player <=> i <= Players
<1>1. Players \in 2 .. 4
  BY CodecAssumption
<1> QED
  BY <1>1, FS_Interval DEF Player

\* Players are few enough to be counted one by one.
LEMMA CountFour ==
  ASSUME NEW S \in SUBSET (1 .. 4)
  PROVE  /\ IsFiniteSet(S)
         /\ Cardinality(S) = One(1, S) + One(2, S) + One(3, S) + One(4, S)
<1> DEFINE a == S \ {4}
           b == a \ {3}
           c == b \ {2}
           d == c \ {1}
<1>1. IsFiniteSet(S)
  <2>1. PICK four \in Int : four = 4
    OBVIOUS
  <2>2. \A n \in Int : IsFiniteSet(1 .. n)
    BY FS_Interval
  <2>3. IsFiniteSet(1 .. four)
    BY <2>1, <2>2, Zenon
  <2>4. S \in SUBSET (1 .. four)
    BY <2>1
  <2> QED
    BY <2>3, <2>4, FS_Subset, Zenon
<1>2. IsFiniteSet(a) /\ Cardinality(a) = IF 4 \in S THEN Cardinality(S) - 1 ELSE Cardinality(S)
  BY <1>1, FS_RemoveElement
<1>3. IsFiniteSet(b) /\ Cardinality(b) = IF 3 \in a THEN Cardinality(a) - 1 ELSE Cardinality(a)
  BY <1>2, FS_RemoveElement
<1>4. IsFiniteSet(c) /\ Cardinality(c) = IF 2 \in b THEN Cardinality(b) - 1 ELSE Cardinality(b)
  BY <1>3, FS_RemoveElement
<1>5. IsFiniteSet(d) /\ Cardinality(d) = IF 1 \in c THEN Cardinality(c) - 1 ELSE Cardinality(c)
  BY <1>4, FS_RemoveElement
<1>6. d = {} /\ Cardinality({}) = 0
  BY FS_EmptySet
<1>7. Cardinality(S) \in Nat /\ Cardinality(a) \in Nat /\ Cardinality(b) \in Nat /\ Cardinality(c) \in Nat
  BY <1>1, <1>2, <1>3, <1>4, FS_CardinalityType
<1>8. /\ (3 \in a <=> 3 \in S) /\ (2 \in b <=> 2 \in S) /\ (1 \in c <=> 1 \in S)
  OBVIOUS
<1> HIDE DEF a, b, c, d
<1> QED
  BY <1>1, <1>2, <1>3, <1>4, <1>5, <1>6, <1>7, <1>8 DEF One

\* What is read of a tag.
LEMMA TagBits ==
  ASSUME NEW o \in {0, 128}, NEW a \in {0, 1}, NEW b \in {0, 1}, NEW c \in {0, 1}, NEW d \in {0, 1},
         NEW t, t = o + a + 2 * b + 4 * c + 8 * d
  PROVE  /\ t \in Byte
         /\ t >= 128 <=> o = 128
         /\ (t \div 1) % 2 = a /\ (t \div 2) % 2 = b
         /\ (t \div 4) % 2 = c /\ (t \div 8) % 2 = d
<1>1. t \in Byte /\ (t >= 128 <=> o = 128)
  BY DEF Byte
<1>2. (t \div 1) % 2 = a
  OBVIOUS
<1>3. (t \div 2) % 2 = b
  OBVIOUS
<1>4. (t \div 4) % 2 = c
  OBVIOUS
<1>5. (t \div 8) % 2 = d
  OBVIOUS
<1> QED
  BY <1>1, <1>2, <1>3, <1>4, <1>5

\* Two bytes hold a mask.
LEMMA TwoBytes ==
  ASSUME NEW k \in Mask
  PROVE  /\ k % 256 \in Byte /\ k \div 256 \in Byte
         /\ (k % 256) + 256 * (k \div 256) = k
<1>1. k \in Nat /\ k < 65536
  BY DEF Mask
<1>2. (k % 256) + 256 * (k \div 256) = k
  BY <1>1
<1>3. k % 256 \in Byte
  BY <1>1 DEF Byte
<1>4. k \div 256 \in Byte
  BY <1>1 DEF Byte
<1> QED
  BY <1>2, <1>3, <1>4

\* Where five sequences lie in their concatenation.
InARow(s, t, a, b, c, d) ==
  /\ s \in Seq(Byte)
  /\ Len(s) = Len(t) + Len(a) + Len(b) + Len(c) + Len(d)
  /\ \A j \in 1 .. Len(t) : s[j] = t[j]
  /\ \A j \in 1 .. Len(a) : s[Len(t) + j] = a[j]
  /\ \A j \in 1 .. Len(b) : s[Len(t) + Len(a) + j] = b[j]
  /\ \A j \in 1 .. Len(c) : s[Len(t) + Len(a) + Len(b) + j] = c[j]
  /\ \A j \in 1 .. Len(d) : s[Len(t) + Len(a) + Len(b) + Len(c) + j] = d[j]

LEMMA FiveInARow ==
  ASSUME NEW t \in Seq(Byte), NEW a \in Seq(Byte), NEW b \in Seq(Byte),
         NEW c \in Seq(Byte), NEW d \in Seq(Byte),
         NEW s, s = t \o a \o b \o c \o d
  PROVE  InARow(s, t, a, b, c, d)
<1> DEFINE Joined(x, y, z) ==
             /\ z \in Seq(Byte) /\ Len(z) = Len(x) + Len(y)
             /\ \A i \in 1 .. Len(x) + Len(y) : z[i] = IF i <= Len(x) THEN x[i] ELSE y[i - Len(x)]
<1>join. ASSUME NEW x \in Seq(Byte), NEW y \in Seq(Byte)
         PROVE  Joined(x, y, x \o y)
  BY ConcatProperties
<1> HIDE DEF Joined
<1>0. /\ Len(t) \in Nat /\ Len(a) \in Nat /\ Len(b) \in Nat /\ Len(c) \in Nat /\ Len(d) \in Nat
  BY LenProperties
<1>p. PICK p : p = t \o a /\ Joined(t, a, p)
  BY <1>join, Zenon
<1>P. p \in Seq(Byte)
  BY <1>p DEF Joined
<1>q. PICK q : q = p \o b /\ Joined(p, b, q)
  BY <1>P, <1>join, Zenon
<1>Q. q \in Seq(Byte)
  BY <1>q DEF Joined
<1>r. PICK r : r = q \o c /\ Joined(q, c, r)
  BY <1>Q, <1>join, Zenon
<1>R. r \in Seq(Byte)
  BY <1>r DEF Joined
<1>s. Joined(r, d, s)
  BY <1>p, <1>q, <1>r, <1>R, <1>join, Zenon
<1>1. /\ p \in Seq(Byte) /\ Len(p) = Len(t) + Len(a)
      /\ \A i \in 1 .. Len(t) + Len(a) : p[i] = IF i <= Len(t) THEN t[i] ELSE a[i - Len(t)]
  BY <1>p DEF Joined
<1>2. /\ q \in Seq(Byte) /\ Len(q) = Len(p) + Len(b)
      /\ \A i \in 1 .. Len(p) + Len(b) : q[i] = IF i <= Len(p) THEN p[i] ELSE b[i - Len(p)]
  BY <1>q DEF Joined
<1>3. /\ r \in Seq(Byte) /\ Len(r) = Len(q) + Len(c)
      /\ \A i \in 1 .. Len(q) + Len(c) : r[i] = IF i <= Len(q) THEN q[i] ELSE c[i - Len(q)]
  BY <1>r DEF Joined
<1>4. /\ s \in Seq(Byte) /\ Len(s) = Len(r) + Len(d)
      /\ \A i \in 1 .. Len(r) + Len(d) : s[i] = IF i <= Len(r) THEN r[i] ELSE d[i - Len(r)]
  BY <1>s DEF Joined
<1>lens. /\ Len(p) \in Nat /\ Len(q) \in Nat /\ Len(r) \in Nat
         /\ Len(p) <= Len(q) /\ Len(q) <= Len(r) /\ Len(r) <= Len(r) + Len(d)
  BY <1>0, <1>1, <1>2, <1>3
<1>5. Len(s) = Len(t) + Len(a) + Len(b) + Len(c) + Len(d)
  BY <1>0, <1>1, <1>2, <1>3, <1>4
<1>6. ASSUME NEW j \in 1 .. Len(t) PROVE s[j] = t[j]
  BY <1>0, <1>1, <1>2, <1>3, <1>4
<1>7. ASSUME NEW j \in 1 .. Len(a) PROVE s[Len(t) + j] = a[j]
  <2>0. PICK n \in Nat : n = Len(t) + j /\ n <= Len(t) + Len(a)
    <3>1. j \in Nat /\ j <= Len(a)
      BY <1>0
    <3>2. Len(t) + j \in Nat /\ Len(t) + j <= Len(t) + Len(a)
      BY <1>0, <3>1
    <3> QED
      BY <3>2
  <2>1. s[n] = r[n]
    <3>1. n \in 1 .. Len(r) + Len(d) /\ n <= Len(r)
      <4>1. 1 <= n /\ n <= Len(q)
        BY <1>0, <1>1, <1>2, <1>lens, <2>0
      <4> QED
        BY <1>0, <1>lens, <4>1
    <3> QED
      BY <1>4, <3>1
  <2>2. r[n] = q[n]
    <3>1. n \in 1 .. Len(q) + Len(c) /\ n <= Len(q)
      BY <1>0, <1>1, <1>2, <2>0
    <3> QED
      BY <1>3, <3>1
  <2>3. q[n] = p[n]
    <3>1. n \in 1 .. Len(p) + Len(b) /\ n <= Len(p)
      BY <1>0, <1>1, <2>0
    <3> QED
      BY <1>2, <3>1
  <2>4. p[n] = a[j]
    <3>1. n \in 1 .. Len(t) + Len(a) /\ ~(n <= Len(t)) /\ n - Len(t) = j
      BY <1>0, <2>0
    <3> QED
      BY <1>1, <3>1
  <2> QED
    BY <2>0, <2>1, <2>2, <2>3, <2>4
<1>8. ASSUME NEW j \in 1 .. Len(b) PROVE s[Len(t) + Len(a) + j] = b[j]
  <2>0. PICK n \in Nat : n = Len(t) + Len(a) + j
    BY <1>0
  <2>1. s[n] = r[n]
    <3>1. n \in 1 .. Len(r) + Len(d) /\ n <= Len(r)
      <4>1. 1 <= n /\ n <= Len(q)
        BY <1>0, <1>1, <1>2, <1>lens, <2>0
      <4> QED
        BY <1>0, <1>lens, <4>1
    <3> QED
      BY <1>4, <3>1
  <2>2. r[n] = q[n]
    <3>1. n \in 1 .. Len(q) + Len(c) /\ n <= Len(q)
      BY <1>0, <1>1, <1>2, <2>0
    <3> QED
      BY <1>3, <3>1
  <2>3. q[n] = b[j]
    <3>1. n = Len(p) + j /\ Len(p) \in Nat /\ j \in 1 .. Len(b)
      BY <1>0, <1>1, <2>0
    <3>2. n \in 1 .. Len(p) + Len(b) /\ ~(n <= Len(p)) /\ n - Len(p) = j
      BY <1>0, <3>1
    <3> QED
      BY <1>2, <3>2
  <2> QED
    BY <2>0, <2>1, <2>2, <2>3
<1>9. ASSUME NEW j \in 1 .. Len(c) PROVE s[Len(t) + Len(a) + Len(b) + j] = c[j]
  <2>0. PICK n \in Nat : n = Len(t) + Len(a) + Len(b) + j
    BY <1>0
  <2>1. s[n] = r[n]
    <3>1. n \in 1 .. Len(r) + Len(d) /\ n <= Len(r)
      BY <1>0, <1>1, <1>2, <1>3, <2>0
    <3> QED
      BY <1>4, <3>1
  <2>2. r[n] = c[j]
    <3>1. n = Len(q) + j /\ Len(q) \in Nat /\ j \in 1 .. Len(c)
      BY <1>0, <1>1, <1>2, <2>0
    <3>2. n \in 1 .. Len(q) + Len(c) /\ ~(n <= Len(q)) /\ n - Len(q) = j
      BY <1>0, <3>1
    <3> QED
      BY <1>3, <3>2
  <2> QED
    BY <2>0, <2>1, <2>2
<1>10. ASSUME NEW j \in 1 .. Len(d) PROVE s[Len(t) + Len(a) + Len(b) + Len(c) + j] = d[j]
  BY <1>0, <1>1, <1>2, <1>3, <1>4
<1> QED
  BY <1>4, <1>5, <1>6, <1>7, <1>8, <1>9, <1>10 DEF InARow

\* A player's keys, spelt out or left to the default.
SpeltOut(i, S, keys, q) ==
  /\ q \in Seq(Byte) /\ Len(q) = 2 * One(i, S)
  /\ i \in S => q[1] = keys[i] % 256 /\ q[2] = keys[i] \div 256

LEMMA SpeltIs ==
  ASSUME NEW S \in SUBSET Player, NEW keys \in [Player -> Mask], NEW i \in 1 .. 4
  PROVE  SpeltOut(i, S, keys, IF i \in S THEN <<keys[i] % 256, keys[i] \div 256>> ELSE <<>>)
<1>1. CASE i \in S
  <2>1. keys[i] \in Mask
    BY <1>1
  <2>2. PICK lo \in Byte : lo = keys[i] % 256
    BY <2>1, TwoBytes
  <2>3. PICK hi \in Byte : hi = keys[i] \div 256
    BY <2>1, TwoBytes
  <2>4. <<lo, hi>> \in Seq(Byte) /\ Len(<<lo, hi>>) = 2 /\ <<lo, hi>>[1] = lo /\ <<lo, hi>>[2] = hi
    OBVIOUS
  <2> QED
    BY <1>1, <2>2, <2>3, <2>4 DEF SpeltOut, One
<1>2. CASE i \notin S
  BY <1>2, EmptySeq DEF SpeltOut, One
<1> QED
  BY <1>1, <1>2

\* The bytes of a record, and where in it each explicit player's keys are.
Encodes(s, op, defaults, keys, S) ==
  /\ s \in Seq(Byte) /\ Len(s) = 1 + 2 * Cardinality(S)
  /\ s[1] \in Byte /\ (s[1] >= OpPrev <=> op)
  /\ (op \/ defaults # {}) => s[1] # EndOfReplay
  /\ \A i \in Player : (s[1] \div Bit[i]) % 2 = 0 <=> i \in S
  /\ \A i \in S : LET n == 2 + 2 * Cardinality({j \in S : j < i})
                 IN  /\ n \in Nat /\ 1 < n /\ n < Len(s)
                     /\ s[n] = keys[i] % 256 /\ s[n + 1] = keys[i] \div 256

LEMMA EncodedIs ==
  ASSUME NEW op \in BOOLEAN, NEW defaults \in SUBSET Player, NEW keys \in [Player -> Mask],
         NEW S, S = Player \ defaults, NEW s, s = Encoded(op, defaults, keys)
  PROVE  Encodes(s, op, defaults, keys, S)
<1> DEFINE Spelt(i) == IF i \in S THEN <<keys[i] % 256, keys[i] \div 256>> ELSE <<>>
           Flag(i)  == IF i \in defaults THEN Bit[i] ELSE 0
<1>1. S \in SUBSET Player /\ S \in SUBSET (1 .. 4)
  BY PlayerFacts
<1>2. PICK t \in Byte : t = (IF op THEN OpPrev ELSE 0) + Flag(1) + Flag(2) + Flag(3) + Flag(4)
  BY DEF Bit, OpPrev, Byte
<1>spelt. \A i \in 1 .. 4 : SpeltOut(i, S, keys, Spelt(i))
  BY <1>1, SpeltIs
<1>four. 1 \in 1 .. 4 /\ 2 \in 1 .. 4 /\ 3 \in 1 .. 4 /\ 4 \in 1 .. 4
  OBVIOUS
<1>3. PICK a : a = Spelt(1) /\ SpeltOut(1, S, keys, a)
  BY <1>spelt, <1>four, Zenon
<1>4. PICK b : b = Spelt(2) /\ SpeltOut(2, S, keys, b)
  BY <1>spelt, <1>four, Zenon
<1>5. PICK c : c = Spelt(3) /\ SpeltOut(3, S, keys, c)
  BY <1>spelt, <1>four, Zenon
<1>6. PICK d : d = Spelt(4) /\ SpeltOut(4, S, keys, d)
  BY <1>spelt, <1>four, Zenon
<1>7. s = <<t>> \o a \o b \o c \o d
  BY <1>2, <1>3, <1>4, <1>5, <1>6 DEF Encoded
<1>8. <<t>> \in Seq(Byte) /\ Len(<<t>>) = 1 /\ <<t>>[1] = t
  OBVIOUS
<1>tag. /\ t >= 128 <=> op
        /\ (op \/ defaults # {}) => t # 0
        /\ \A i \in Player : (t \div Bit[i]) % 2 = 0 <=> i \in S
  <2>1. t = (IF op THEN 128 ELSE 0) + One(1, defaults) + 2 * One(2, defaults)
              + 4 * One(3, defaults) + 8 * One(4, defaults)
    BY <1>2 DEF OpPrev, Bit, One
  <2>2. /\ t >= 128 <=> op
        /\ (t \div 1) % 2 = One(1, defaults) /\ (t \div 2) % 2 = One(2, defaults)
        /\ (t \div 4) % 2 = One(3, defaults) /\ (t \div 8) % 2 = One(4, defaults)
    <3>1. \A i : One(i, defaults) \in {0, 1}
      BY DEF One
    <3>2. (IF op THEN 128 ELSE 0) \in {0, 128}
      OBVIOUS
    <3> HIDE DEF One
    <3> QED
      BY <2>1, <3>1, <3>2, TagBits
  <2>3. (op \/ defaults # {}) => t # 0
    <3>1. defaults # {} => \E i \in 1 .. 4 : i \in defaults
      BY PlayerFacts
    <3> QED
      BY <2>1, <3>1 DEF One
  <2>4. Bit[1] = 1 /\ Bit[2] = 2 /\ Bit[3] = 4 /\ Bit[4] = 8
    BY DEF Bit
  <2>5. ASSUME NEW i \in Player PROVE (t \div Bit[i]) % 2 = 0 <=> i \in S
    <3>1. i \in {1, 2, 3, 4} /\ (i \in S <=> i \notin defaults)
      BY PlayerFacts
    <3>2. (t \div Bit[i]) % 2 = One(i, defaults)
      BY <2>2, <2>4, <3>1
    <3> QED
      BY <3>1, <3>2 DEF One
  <2> QED
    BY <2>2, <2>3, <2>5
<1> HIDE DEF Spelt, Flag
<1>w. PICK w1 \in {0, 1}, w2 \in {0, 1}, w3 \in {0, 1}, w4 \in {0, 1} :
        /\ w1 = One(1, S) /\ w2 = One(2, S) /\ w3 = One(3, S) /\ w4 = One(4, S)
        /\ (1 \in S <=> w1 = 1) /\ (2 \in S <=> w2 = 1) /\ (3 \in S <=> w3 = 1) /\ (4 \in S <=> w4 = 1)
  BY DEF One
<1>9. /\ s \in Seq(Byte) /\ s[1] = t
      /\ Len(s) = 1 + 2 * w1 + 2 * w2 + 2 * w3 + 2 * w4
      /\ 1 \in S => s[2] = keys[1] % 256 /\ s[3] = keys[1] \div 256
      /\ 2 \in S => s[2 + 2 * w1] = keys[2] % 256 /\ s[3 + 2 * w1] = keys[2] \div 256
      /\ 3 \in S => s[2 + 2 * w1 + 2 * w2] = keys[3] % 256 /\ s[3 + 2 * w1 + 2 * w2] = keys[3] \div 256
      /\ 4 \in S => s[2 + 2 * w1 + 2 * w2 + 2 * w3] = keys[4] % 256 /\ s[3 + 2 * w1 + 2 * w2 + 2 * w3] = keys[4] \div 256
  <2>1. PICK h \in Seq(Byte) : h = <<t>> /\ Len(h) = 1 /\ h[1] = t
    BY <1>8
  <2>2. s = h \o a \o b \o c \o d
    BY <1>7, <2>1
  <2>3. a \in Seq(Byte) /\ b \in Seq(Byte) /\ c \in Seq(Byte) /\ d \in Seq(Byte)
    BY <1>3, <1>4, <1>5, <1>6 DEF SpeltOut
  <2>4. InARow(s, h, a, b, c, d)
    BY <2>1, <2>2, <2>3, FiveInARow, Zenon
  <2>6. Len(a) = 2 * w1 /\ Len(b) = 2 * w2 /\ Len(c) = 2 * w3 /\ Len(d) = 2 * w4
    BY <1>3, <1>4, <1>5, <1>6, <1>w DEF SpeltOut
  <2>7. s \in Seq(Byte) /\ s[1] = t /\ Len(s) = 1 + 2 * w1 + 2 * w2 + 2 * w3 + 2 * w4
    BY <2>1, <2>4, <2>6 DEF InARow
  <2>8. ASSUME 1 \in S
        PROVE  s[2] = keys[1] % 256 /\ s[3] = keys[1] \div 256
    <3>1. a[1] = keys[1] % 256 /\ a[2] = keys[1] \div 256
      BY <1>3, <2>8 DEF SpeltOut
    <3>2. 1 \in 1 .. Len(a) /\ 2 \in 1 .. Len(a)
      <4>1. w1 = 1
        BY <1>w, <2>8
      <4>2. Len(a) = 2
        BY <2>6, <4>1
      <4> QED
        BY <4>2
    <3>3. \A j \in 1 .. Len(a) : s[Len(h) + j] = a[j]
      BY <2>4 DEF InARow
    <3>4. Len(h) + 1 = 2 /\ Len(h) + 2 = 3
      BY <2>1, <2>6
    <3> QED
      BY <3>1, <3>2, <3>3, <3>4
  <2>9. ASSUME 2 \in S
        PROVE  s[2 + 2 * w1] = keys[2] % 256 /\ s[3 + 2 * w1] = keys[2] \div 256
    <3>1. b[1] = keys[2] % 256 /\ b[2] = keys[2] \div 256
      BY <1>4, <2>9 DEF SpeltOut
    <3>2. 1 \in 1 .. Len(b) /\ 2 \in 1 .. Len(b)
      <4>1. w2 = 1
        BY <1>w, <2>9
      <4>2. Len(b) = 2
        BY <2>6, <4>1
      <4> QED
        BY <4>2
    <3>3. \A j \in 1 .. Len(b) : s[Len(h) + Len(a) + j] = b[j]
      BY <2>4 DEF InARow
    <3>4. Len(h) + Len(a) + 1 = 2 + 2 * w1 /\ Len(h) + Len(a) + 2 = 3 + 2 * w1
      BY <2>1, <2>6
    <3> QED
      BY <3>1, <3>2, <3>3, <3>4
  <2>10. ASSUME 3 \in S
         PROVE  s[2 + 2 * w1 + 2 * w2] = keys[3] % 256 /\ s[3 + 2 * w1 + 2 * w2] = keys[3] \div 256
    <3>1. c[1] = keys[3] % 256 /\ c[2] = keys[3] \div 256
      BY <1>5, <2>10 DEF SpeltOut
    <3>2. 1 \in 1 .. Len(c) /\ 2 \in 1 .. Len(c)
      <4>1. w3 = 1
        BY <1>w, <2>10
      <4>2. Len(c) = 2
        BY <2>6, <4>1
      <4> QED
        BY <4>2
    <3>3. \A j \in 1 .. Len(c) : s[Len(h) + Len(a) + Len(b) + j] = c[j]
      BY <2>4 DEF InARow
    <3>4. Len(h) + Len(a) + Len(b) + 1 = 2 + 2 * w1 + 2 * w2 /\ Len(h) + Len(a) + Len(b) + 2 = 3 + 2 * w1 + 2 * w2
      BY <2>1, <2>6
    <3> QED
      BY <3>1, <3>2, <3>3, <3>4
  <2>11. ASSUME 4 \in S
         PROVE  s[2 + 2 * w1 + 2 * w2 + 2 * w3] = keys[4] % 256 /\ s[3 + 2 * w1 + 2 * w2 + 2 * w3] = keys[4] \div 256
    <3>1. d[1] = keys[4] % 256 /\ d[2] = keys[4] \div 256
      BY <1>6, <2>11 DEF SpeltOut
    <3>2. 1 \in 1 .. Len(d) /\ 2 \in 1 .. Len(d)
      <4>1. w4 = 1
        BY <1>w, <2>11
      <4>2. Len(d) = 2
        BY <2>6, <4>1
      <4> QED
        BY <4>2
    <3>3. \A j \in 1 .. Len(d) : s[Len(h) + Len(a) + Len(b) + Len(c) + j] = d[j]
      BY <2>4 DEF InARow
    <3>4. Len(h) + Len(a) + Len(b) + Len(c) + 1 = 2 + 2 * w1 + 2 * w2 + 2 * w3 /\ Len(h) + Len(a) + Len(b) + Len(c) + 2 = 3 + 2 * w1 + 2 * w2 + 2 * w3
      BY <2>1, <2>6
    <3> QED
      BY <3>1, <3>2, <3>3, <3>4
  <2> QED
    BY <2>7, <2>8, <2>9, <2>10, <2>11
<1>10. ASSUME NEW i \in S, NEW n, n = 2 + 2 * Cardinality({j \in S : j < i})
       PROVE  /\ n \in Nat /\ 1 < n /\ n < Len(s)
              /\ s[n] = keys[i] % 256 /\ s[n + 1] = keys[i] \div 256
  <2> DEFINE B == {j \in S : j < i}
  <2>1. B \in SUBSET (1 .. 4)
    BY <1>1
  <2>2. i \in {1, 2, 3, 4}
    BY <1>1
  <2>3. PICK v1 \in {0, 1}, v2 \in {0, 1}, v3 \in {0, 1}, v4 \in {0, 1} :
          /\ v1 = One(1, B) /\ v2 = One(2, B) /\ v3 = One(3, B) /\ v4 = One(4, B)
          /\ (1 \in B <=> v1 = 1) /\ (2 \in B <=> v2 = 1) /\ (3 \in B <=> v3 = 1) /\ (4 \in B <=> v4 = 1)
    <3> HIDE DEF B
    <3> QED
      BY DEF One
  <2>4. /\ 1 \in B <=> 1 \in S /\ 1 < i
        /\ 2 \in B <=> 2 \in S /\ 2 < i
        /\ 3 \in B <=> 3 \in S /\ 3 < i
        /\ 4 \in B <=> 4 \in S /\ 4 < i
    OBVIOUS
  <2>5. n = 2 + 2 * Cardinality(B)
    BY <1>10
  <2> HIDE DEF B
  <2>6. Cardinality(B) = v1 + v2 + v3 + v4
    BY <2>1, <2>3, CountFour
  <2>7. n = 2 + 2 * v1 + 2 * v2 + 2 * v3 + 2 * v4
    BY <2>5, <2>6
  <2>8. CASE i = 1
    <3>1. n = 2 /\ w1 = 1
      <4>1. w1 = 1
        BY <1>w, <2>8
      <4>2. v1 = 0
        BY <1>w, <2>3, <2>4, <2>8
      <4>3. v2 = 0
        BY <1>w, <2>3, <2>4, <2>8
      <4>4. v3 = 0
        BY <1>w, <2>3, <2>4, <2>8
      <4>5. v4 = 0
        BY <1>w, <2>3, <2>4, <2>8
      <4> QED
        BY <2>7, <4>1, <4>2, <4>3, <4>4, <4>5
    <3>2. n \in Nat /\ 1 < n /\ n < Len(s) /\ n + 1 = 3
      BY <1>9, <3>1
    <3> QED
      BY <1>9, <2>8, <3>1, <3>2
  <2>9. CASE i = 2
    <3>1. n = 2 + 2 * w1 /\ w2 = 1
      <4>1. w2 = 1
        BY <1>w, <2>9
      <4>2. v1 = w1
        BY <1>w, <2>3, <2>4, <2>9
      <4>3. v2 = 0
        BY <1>w, <2>3, <2>4, <2>9
      <4>4. v3 = 0
        BY <1>w, <2>3, <2>4, <2>9
      <4>5. v4 = 0
        BY <1>w, <2>3, <2>4, <2>9
      <4> QED
        BY <2>7, <4>1, <4>2, <4>3, <4>4, <4>5
    <3>2. n \in Nat /\ 1 < n /\ n < Len(s) /\ n + 1 = 3 + 2 * w1
      BY <1>9, <3>1
    <3> QED
      BY <1>9, <2>9, <3>1, <3>2
  <2>10. CASE i = 3
    <3>1. n = 2 + 2 * w1 + 2 * w2 /\ w3 = 1
      <4>1. w3 = 1
        BY <1>w, <2>10
      <4>2. v1 = w1
        BY <1>w, <2>3, <2>4, <2>10
      <4>3. v2 = w2
        BY <1>w, <2>3, <2>4, <2>10
      <4>4. v3 = 0
        BY <1>w, <2>3, <2>4, <2>10
      <4>5. v4 = 0
        BY <1>w, <2>3, <2>4, <2>10
      <4> QED
        BY <2>7, <4>1, <4>2, <4>3, <4>4, <4>5
    <3>2. n \in Nat /\ 1 < n /\ n < Len(s) /\ n + 1 = 3 + 2 * w1 + 2 * w2
      BY <1>9, <3>1
    <3> QED
      BY <1>9, <2>10, <3>1, <3>2
  <2>11. CASE i = 4
    <3>1. n = 2 + 2 * w1 + 2 * w2 + 2 * w3 /\ w4 = 1
      <4>1. w4 = 1
        BY <1>w, <2>11
      <4>2. v1 = w1
        BY <1>w, <2>3, <2>4, <2>11
      <4>3. v2 = w2
        BY <1>w, <2>3, <2>4, <2>11
      <4>4. v3 = w3
        BY <1>w, <2>3, <2>4, <2>11
      <4>5. v4 = 0
        BY <1>w, <2>3, <2>4, <2>11
      <4> QED
        BY <2>7, <4>1, <4>2, <4>3, <4>4, <4>5
    <3>2. n \in Nat /\ 1 < n /\ n < Len(s) /\ n + 1 = 3 + 2 * w1 + 2 * w2 + 2 * w3
      BY <1>9, <3>1
    <3> QED
      BY <1>9, <2>11, <3>1, <3>2
  <2> QED
    BY <2>2, <2>8, <2>9, <2>10, <2>11
<1>11. Len(s) = 1 + 2 * Cardinality(S)
  <2>1. Cardinality(S) = w1 + w2 + w3 + w4
    BY <1>1, <1>w, CountFour
  <2> QED
    BY <1>9, <2>1
<1> QED
  BY <1>2, <1>9, <1>10, <1>11, <1>tag DEF Encodes, OpPrev, EndOfReplay

RowType == [Player -> Mask]

\* A tick is encoded in full by its own keys or by the row before it.
LEMMA RecordIs ==
  ASSUME NEW previous \in RowType, NEW keys \in RowType
  PROVE  \E op \in BOOLEAN, defaults \in SUBSET Player :
           /\ Record(previous, keys) = Encoded(op, defaults, keys)
           /\ op \/ defaults # {}
           /\ \A i \in defaults : keys[i] = IF op THEN previous[i] ELSE 0
<1> DEFINE zero     == {i \in Player : keys[i] = 0}
           prev     == {i \in Player : keys[i] = previous[i]}
           chosen   == Cardinality(prev) > Cardinality(zero)
           defaults == IF chosen THEN prev ELSE zero
           op       == Op(chosen, defaults)
<1>1. Record(previous, keys) = Encoded(op, defaults, keys)
  BY DEF Record
<1>2. chosen \in BOOLEAN /\ op \in BOOLEAN /\ defaults \in SUBSET Player
  BY DEF Op
<1>3. op <=> chosen \/ defaults = {}
  BY DEF Op
<1>4. \A i \in defaults : keys[i] = IF op THEN previous[i] ELSE 0
  <2>1. CASE chosen
    BY <1>3, <2>1
  <2>2. CASE ~chosen
    BY <1>3, <2>2
  <2> QED
    BY <2>1, <2>2
<1> HIDE DEF defaults, op
<1> QED
  BY <1>1, <1>2, <1>3, <1>4

ParseType == [at : Nat \ {0}, prev : RowType, inputs : Seq(RowType),
              complete : BOOLEAN, stopped : BOOLEAN]

\* The bytes of rec, as far as data has them, begin at a place of data.
Begins(data, at, rec) ==
  \A j \in 1 .. Len(rec) : at + j - 1 <= Len(data) => data[at + j - 1] = rec[j]

Stopped(s) == [s EXCEPT !.stopped = TRUE]

\* What a round makes of a record that begins where the loop is.
Reads(data, s, rec, keys) ==
  /\ s.at + Len(rec) - 1 <= Len(data)
       => ParseRecord(data, s) = [s EXCEPT !.at = s.at + Len(rec), !.prev = keys,
                                           !.inputs = Append(s.inputs, keys)]
  /\ Len(data) < s.at + Len(rec) - 1 => ParseRecord(data, s) = Stopped(s)

\* A record that is there is read as the row it was written from, one that is cut
\* off is not read.
LEMMA ReadsBack ==
  ASSUME NEW data, Len(data) \in Nat, NEW s \in ParseType, NEW keys \in RowType, ~s.stopped,
         NEW rec, rec = Record(s.prev, keys),
         Begins(data, s.at, rec), s.at <= Len(data)
  PROVE  Reads(data, s, rec, keys)
<1>1. s.at \in Nat \ {0} /\ s.prev \in RowType
  BY DEF ParseType
<1>2. PICK op \in BOOLEAN, defaults \in SUBSET Player :
        /\ rec = Encoded(op, defaults, keys)
        /\ op \/ defaults # {}
        /\ \A i \in defaults : keys[i] = IF op THEN s.prev[i] ELSE 0
  BY <1>1, RecordIs
<1>3. PICK S : S = Player \ defaults
  OBVIOUS
<1>enc. Encodes(rec, op, defaults, keys, S)
  BY <1>2, <1>3, EncodedIs, Zenon DEF RowType
<1>4. /\ Len(rec) = 1 + 2 * Cardinality(S)
      /\ rec[1] \in Byte /\ (rec[1] >= OpPrev <=> op)
      /\ rec[1] # EndOfReplay
      /\ \A i \in Player : (rec[1] \div Bit[i]) % 2 = 0 <=> i \in S
      /\ \A i \in S : LET n == 2 + 2 * Cardinality({j \in S : j < i})
                     IN  /\ n \in Nat /\ 1 < n /\ n < Len(rec)
                         /\ rec[n] = keys[i] % 256 /\ rec[n + 1] = keys[i] \div 256
  BY <1>2, <1>enc DEF Encodes
<1>5. Cardinality(S) \in Nat
  BY <1>3, PlayerFacts, FS_Subset, FS_CardinalityType
<1>6. Len(rec) \in Nat \ {0}
  BY <1>4, <1>5
<1> DEFINE tag      == data[s.at]
           explicit == {i \in Player : (tag \div Bit[i]) % 2 = 0}
           At(i)    == s.at + 1 + 2 * Cardinality({j \in explicit : j < i})
           row      == [i \in Player |->
                          IF i \in explicit THEN data[At(i)] + 256 * data[At(i) + 1]
                          ELSE IF tag >= OpPrev THEN s.prev[i] ELSE 0]
<1>7. ParseRecord(data, s) =
        IF s.stopped \/ s.at > Len(data) THEN [s EXCEPT !.stopped = TRUE]
        ELSE IF tag = EndOfReplay THEN [s EXCEPT !.stopped = TRUE, !.complete = TRUE]
        ELSE IF s.at + 2 * Cardinality(explicit) > Len(data) THEN [s EXCEPT !.stopped = TRUE]
        ELSE [s EXCEPT !.at = @ + 1 + 2 * Cardinality(explicit), !.prev = row,
                       !.inputs = Append(@, row)]
  BY DEF ParseRecord
<1>8. tag = rec[1]
  <2>1. s.at + 1 - 1 = s.at /\ 1 \in 1 .. Len(rec)
    BY <1>1, <1>6
  <2> QED
    BY <2>1 DEF Begins
<1>9. explicit = S
  BY <1>3, <1>4, <1>8
<1>10. ASSUME s.at + Len(rec) - 1 <= Len(data)
       PROVE  row = keys
  <2>1. ASSUME NEW i \in Player
        PROVE  row[i] = keys[i]
    <3>1. CASE i \in S
      <4>1. PICK n : n = 2 + 2 * Cardinality({j \in S : j < i})
        OBVIOUS
      <4>2. /\ n \in Nat /\ 1 < n /\ n < Len(rec)
            /\ rec[n] = keys[i] % 256 /\ rec[n + 1] = keys[i] \div 256
        BY <1>4, <3>1, <4>1
      <4>3. At(i) = s.at + n - 1 /\ At(i) + 1 = s.at + (n + 1) - 1
        <5>1. PICK m : m = Cardinality({j \in S : j < i})
          OBVIOUS
        <5>2. m \in Nat
          <6>1. IsFiniteSet(S)
            BY <1>3, PlayerFacts, FS_Subset
          <6>2. IsFiniteSet({j \in S : j < i})
            BY <6>1, FS_Subset
          <6> QED
            BY <5>1, <6>2, FS_CardinalityType
        <5>3. At(i) = s.at + 1 + 2 * m
          BY <1>9, <5>1
        <5> HIDE DEF At
        <5>4. n = 2 + 2 * m
          BY <4>1, <5>1
        <5> QED
          BY <1>1, <5>2, <5>3, <5>4
      <4>4. data[At(i)] = rec[n] /\ data[At(i) + 1] = rec[n + 1]
        <5>1. /\ n \in 1 .. Len(rec) /\ n + 1 \in 1 .. Len(rec)
              /\ s.at + n - 1 <= Len(data) /\ s.at + (n + 1) - 1 <= Len(data)
          BY <1>1, <1>6, <1>10, <4>2
        <5> QED
          BY <4>3, <5>1 DEF Begins
      <4>5. row[i] = data[At(i)] + 256 * data[At(i) + 1]
        BY <1>9, <3>1
      <4>6. keys[i] \in Mask
        BY DEF RowType
      <4>7. row[i] = (keys[i] % 256) + 256 * (keys[i] \div 256)
        <5> HIDE DEF row, At
        <5> QED
          BY <4>2, <4>4, <4>5
      <4>8. (keys[i] % 256) + 256 * (keys[i] \div 256) = keys[i]
        BY <4>6, TwoBytes
      <4> HIDE DEF row, At
      <4> QED
        BY <4>7, <4>8
    <3>2. CASE i \notin S
      <4>1. row[i] = IF tag >= OpPrev THEN s.prev[i] ELSE 0
        BY <1>9, <3>2
      <4>2. keys[i] = IF op THEN s.prev[i] ELSE 0
        BY <1>2, <1>3, <3>2
      <4>3. tag >= OpPrev <=> op
        BY <1>4, <1>8
      <4> HIDE DEF row, tag
      <4> QED
        BY <4>1, <4>2, <4>3
    <3> QED
      BY <3>1, <3>2
  <2>2. row = [i \in Player |-> row[i]] /\ keys = [i \in Player |-> keys[i]]
    BY DEF RowType
  <2> HIDE DEF row
  <2> QED
    BY <2>1, <2>2
<1> HIDE DEF tag, explicit, At, row
<1>11. s.at + 2 * Cardinality(explicit) = s.at + Len(rec) - 1
       /\ s.at + 1 + 2 * Cardinality(explicit) = s.at + Len(rec)
  BY <1>1, <1>4, <1>5, <1>9
<1>12. ~(s.at > Len(data)) /\ tag # EndOfReplay
  BY <1>1, <1>4, <1>8
<1>13. ASSUME s.at + Len(rec) - 1 <= Len(data)
       PROVE  ParseRecord(data, s) = [s EXCEPT !.at = s.at + Len(rec), !.prev = keys,
                                               !.inputs = Append(s.inputs, keys)]
  <2>1. ~(s.at + 2 * Cardinality(explicit) > Len(data))
    BY <1>1, <1>6, <1>11, <1>13
  <2>2. ParseRecord(data, s) = [s EXCEPT !.at = s.at + 1 + 2 * Cardinality(explicit), !.prev = row,
                                         !.inputs = Append(s.inputs, row)]
    BY <1>7, <1>12, <2>1
  <2> QED
    BY <1>10, <1>11, <1>13, <2>2
<1>14. ASSUME Len(data) < s.at + Len(rec) - 1
       PROVE  ParseRecord(data, s) = [s EXCEPT !.stopped = TRUE]
  <2>1. s.at + 2 * Cardinality(explicit) > Len(data)
    BY <1>1, <1>6, <1>11, <1>14
  <2> QED
    BY <1>7, <1>12, <2>1
<1> QED
  BY <1>13, <1>14 DEF Reads, Stopped

-----------------------------------------------------------------------------
(* Replay stream: the file *)

RowBefore(k) == IF k = 1 THEN Idle ELSE rows[k - 1]
EndOf(k) == IF k = 0 THEN 0 ELSE ends[k]

\* The record of a tick stands in the file behind the record before.
Stands(k) ==
  LET rec == Record(RowBefore(k), rows[k])
  IN  /\ Len(rec) \in Nat \ {0}
      /\ ends[k] = EndOf(k - 1) + Len(rec)
      /\ \A j \in 1 .. Len(rec) : file[EndOf(k - 1) + j] = rec[j]

\* The file is the records, in order, and the sentinel.
CodecInv ==
  /\ rows \in Seq(RowType) /\ ends \in Seq(Nat) /\ file \in Seq(Byte) /\ finished \in BOOLEAN
  /\ Len(ends) = Len(rows)
  /\ Len(file) = EndOf(Len(rows)) + (IF finished THEN 1 ELSE 0)
  /\ finished => file[Len(file)] = EndOfReplay
  /\ \A k \in 1 .. Len(rows) :
       /\ Stands(k)
       /\ k <= ends[k]
       /\ \A j \in 0 .. k - 1 : EndOf(j) < ends[k]

LEMMA IdleRow == Idle \in RowType
  BY DEF Idle, RowType, Mask

LEMMA RecordType ==
  ASSUME NEW previous \in RowType, NEW keys \in RowType
  PROVE  /\ Record(previous, keys) \in Seq(Byte)
         /\ Len(Record(previous, keys)) \in Nat \ {0}
<1>1. PICK op \in BOOLEAN, defaults \in SUBSET Player :
        Record(previous, keys) = Encoded(op, defaults, keys)
  BY RecordIs
<1>2. Encodes(Record(previous, keys), op, defaults, keys, Player \ defaults)
  BY <1>1, EncodedIs, Zenon DEF RowType
<1>3. Cardinality(Player \ defaults) \in Nat
  BY PlayerFacts, FS_Subset, FS_CardinalityType
<1> QED
  BY <1>2, <1>3 DEF Encodes

LEMMA EndsGrow ==
  ASSUME CodecInv, NEW k \in 0 .. Len(rows)
  PROVE  /\ Len(rows) \in Nat /\ EndOf(k) \in Nat /\ k <= EndOf(k) /\ EndOf(k) <= Len(file)
         /\ \A j \in 0 .. k - 1 : EndOf(j) < EndOf(k)
<1>1. Len(rows) \in Nat /\ Len(ends) \in Nat
  BY LenProperties DEF CodecInv
<1>2. \A i \in 1 .. Len(rows) : ends[i] \in Nat
  BY ElementOfSeq DEF CodecInv
<1>3. \A i \in 0 .. Len(rows) : EndOf(i) \in Nat
  BY <1>1, <1>2 DEF EndOf
<1>4. k <= EndOf(k) /\ \A j \in 0 .. k - 1 : EndOf(j) < EndOf(k)
  BY <1>1 DEF CodecInv, EndOf
<1>5. EndOf(k) <= EndOf(Len(rows))
  <2>1. CASE k = Len(rows)
    BY <1>3, <2>1
  <2>2. CASE k # Len(rows)
    <3>1. Len(rows) \in 1 .. Len(rows) /\ k \in 0 .. Len(rows) - 1 /\ Len(rows) # 0
      BY <1>1, <2>2
    <3>2. EndOf(k) < ends[Len(rows)]
      BY <3>1 DEF CodecInv
    <3> QED
      BY <1>3, <3>1, <3>2 DEF EndOf
  <2> QED
    BY <2>1, <2>2
<1>6. EndOf(Len(rows)) <= Len(file)
  BY <1>1, <1>3 DEF CodecInv
<1> QED
  BY <1>1, <1>3, <1>4, <1>5, <1>6

\* A tick's record is written behind the others.
LEMMA PushStands ==
  ASSUME CodecInv, PushTick
  PROVE  CodecInv'
<1>0. PICK L \in Nat : L = Len(rows)
  BY LenProperties DEF CodecInv
<1>E. PICK E \in Nat : E = EndOf(L)
  <2>1. L \in 0 .. Len(rows)
    BY <1>0
  <2> QED
    BY <2>1, EndsGrow
<1>1. PICK keys \in [Player -> Joypads] :
        /\ rows' = Append(rows, keys)
        /\ file' = file \o Record(Previous, keys)
        /\ ends' = Append(ends, Len(file \o Record(Previous, keys)))
        /\ ~finished /\ finished' = finished
  BY DEF PushTick
<1>2. keys \in RowType
  BY CodecAssumption DEF RowType
<1>3. /\ L \in Nat /\ L = Len(rows) /\ rows \in Seq(RowType) /\ ends \in Seq(Nat) /\ file \in Seq(Byte)
      /\ Len(ends) = L /\ Len(file) = E /\ E \in Nat /\ L <= E
      /\ \A j \in 0 .. L - 1 : EndOf(j) < E
  <2>2. L \in 0 .. Len(rows)
    BY <1>0
  <2>3. /\ EndOf(L) \in Nat /\ L <= EndOf(L)
        /\ \A j \in 0 .. L - 1 : EndOf(j) < EndOf(L)
    BY <2>2, EndsGrow, Zenon
  <2> QED
    BY <1>0, <1>E, <1>1, <2>3 DEF CodecInv
<1>4. Previous = RowBefore(L + 1) /\ Previous \in RowType
  <2>1. CASE rows = <<>>
    <3>1. L = 0
      BY <1>0, <2>1, EmptySeq
    <3> QED
      BY <2>1, <3>1, IdleRow DEF Previous, RowBefore
  <2>2. CASE rows # <<>>
    <3>1. L \in 1 .. L /\ L + 1 # 1 /\ L + 1 - 1 = L
      BY <1>0, <1>3, <2>2, EmptySeq
    <3>2. rows[L] \in RowType
      BY <1>0, <1>3, <3>1, ElementOfSeq
    <3> QED
      BY <1>0, <2>2, <3>1, <3>2 DEF Previous, RowBefore
  <2> QED
    BY <2>1, <2>2
<1>5. PICK rec \in Seq(Byte) : rec = Record(Previous, keys) /\ Len(rec) \in Nat \ {0}
  BY <1>2, <1>4, RecordType
<1>6. /\ file' \in Seq(Byte) /\ Len(file') = E + Len(rec)
      /\ \A i \in 1 .. E + Len(rec) : file'[i] = IF i <= E THEN file[i] ELSE rec[i - E]
  <2>1. file' = file \o rec
    BY <1>1, <1>5
  <2>2. /\ file \o rec \in Seq(Byte) /\ Len(file \o rec) = Len(file) + Len(rec)
        /\ \A i \in 1 .. Len(file) + Len(rec) :
             (file \o rec)[i] = IF i <= Len(file) THEN file[i] ELSE rec[i - Len(file)]
    BY <1>3, <1>5, ConcatProperties
  <2> QED
    BY <1>3, <2>1, <2>2
<1>7. /\ rows' \in Seq(RowType) /\ Len(rows') = L + 1
      /\ \A i \in 1 .. L : rows'[i] = rows[i]
      /\ rows'[L + 1] = keys
  BY <1>0, <1>1, <1>2, <1>3, AppendProperties
<1>8. /\ ends' \in Seq(Nat) /\ Len(ends') = L + 1
      /\ \A i \in 1 .. L : ends'[i] = ends[i]
      /\ ends'[L + 1] = E + Len(rec)
  <2>1. PICK n \in Nat : n = Len(file') /\ n = E + Len(rec)
    BY <1>3, <1>5, <1>6
  <2>2. ends' = Append(ends, n)
    BY <1>1, <2>1
  <2> QED
    BY <1>3, <2>1, <2>2, AppendProperties
<1>9. /\ \A i \in 0 .. L : EndOf(i)' = EndOf(i)
      /\ EndOf(L + 1)' = E + Len(rec)
      /\ \A i \in 1 .. L : RowBefore(i)' = RowBefore(i)
      /\ RowBefore(L + 1)' = Previous
  <2>1. ASSUME NEW i \in 0 .. L PROVE EndOf(i)' = EndOf(i)
    BY <1>3, <1>8, <2>1 DEF EndOf
  <2>2. EndOf(L + 1)' = E + Len(rec)
    BY <1>3, <1>8 DEF EndOf
  <2>3. ASSUME NEW i \in 1 .. L PROVE RowBefore(i)' = RowBefore(i)
    BY <1>3, <1>7, <2>3 DEF RowBefore
  <2>4. RowBefore(L + 1)' = RowBefore(L + 1)
    BY <1>3, <1>7 DEF RowBefore
  <2> QED
    BY <1>4, <2>1, <2>2, <2>3, <2>4
<1>10. ASSUME NEW k \in 1 .. L
       PROVE  /\ Stands(k)' /\ k <= ends'[k]
              /\ \A j \in 0 .. k - 1 : EndOf(j)' < ends'[k]
  <2>1. Stands(k) /\ k <= ends[k] /\ \A j \in 0 .. k - 1 : EndOf(j) < ends[k]
    BY <1>0, <1>10 DEF CodecInv
  <2>2. /\ rows'[k] = rows[k] /\ ends'[k] = ends[k] /\ RowBefore(k)' = RowBefore(k)
        /\ k - 1 \in 0 .. L /\ EndOf(k - 1)' = EndOf(k - 1) /\ EndOf(k - 1) \in Nat
    <3>1. k - 1 \in 0 .. L
      BY <1>3
    <3>2. EndOf(k - 1) \in Nat
      BY <1>0, <3>1, EndsGrow
    <3> QED
      BY <1>7, <1>8, <1>9, <3>1, <3>2
  <2>3. PICK r : r = Record(RowBefore(k), rows[k])
    OBVIOUS
  <2>4. /\ Len(r) \in Nat \ {0} /\ ends[k] = EndOf(k - 1) + Len(r)
        /\ \A j \in 1 .. Len(r) : file[EndOf(k - 1) + j] = r[j]
    BY <2>1, <2>3 DEF Stands
  <2>5. ends[k] <= E
    <3>1. k \in 0 .. L /\ k # 0
      BY <1>3
    <3>2. EndOf(k) <= Len(file)
      BY <1>0, <3>1, EndsGrow
    <3> QED
      BY <1>3, <3>1, <3>2 DEF EndOf
  <2>6. \A j \in 1 .. Len(r) : file'[EndOf(k - 1) + j] = r[j]
    <3> SUFFICES ASSUME NEW j \in 1 .. Len(r) PROVE file'[EndOf(k - 1) + j] = r[j]
      OBVIOUS
    <3>1. PICK i \in Nat : i = EndOf(k - 1) + j
      BY <2>2, <2>4
    <3>2. i \in 1 .. E + Len(rec) /\ i <= E
      <4>1. i <= ends[k]
        BY <2>2, <2>4, <3>1
      <4>2. i <= E /\ 1 <= i
        BY <1>E, <2>2, <2>4, <2>5, <3>1, <4>1
      <4> QED
        BY <1>E, <1>5, <3>1, <4>2
    <3> QED
      BY <1>6, <2>4, <3>1, <3>2
  <2>7. r = Record(RowBefore(k)', rows'[k])
    BY <2>2, <2>3
  <2>8. Stands(k)'
    BY <2>2, <2>4, <2>6, <2>7 DEF Stands
  <2>9. ASSUME NEW j \in 0 .. k - 1 PROVE EndOf(j)' < ends'[k]
    <3>1. j \in 0 .. L
      BY <1>3
    <3> QED
      BY <1>9, <2>1, <2>2, <3>1
  <2> QED
    BY <2>1, <2>2, <2>8, <2>9
<1>11. /\ Stands(L + 1)' /\ L + 1 <= ends'[L + 1]
       /\ \A j \in 0 .. L + 1 - 1 : EndOf(j)' < ends'[L + 1]
  <2>1. rec = Record(RowBefore(L + 1)', rows'[L + 1])
    BY <1>5, <1>7, <1>9
  <2>2. L + 1 - 1 = L /\ EndOf(L)' = E
    BY <1>E, <1>9
  <2>3. \A j \in 1 .. Len(rec) : file'[E + j] = rec[j]
    <3> SUFFICES ASSUME NEW j \in 1 .. Len(rec) PROVE file'[E + j] = rec[j]
      OBVIOUS
    <3>1. PICK i \in Nat : i = E + j
      BY <1>3, <1>5
    <3>2. i \in 1 .. E + Len(rec) /\ ~(i <= E) /\ i - E = j
      BY <1>3, <1>5, <3>1
    <3> QED
      BY <1>6, <3>1, <3>2
  <2>4. Stands(L + 1)'
    BY <1>5, <1>8, <2>1, <2>2, <2>3 DEF Stands
  <2>5. ASSUME NEW j \in 0 .. L PROVE EndOf(j)' < ends'[L + 1]
    <3>1. EndOf(j)' = EndOf(j) /\ EndOf(j) \in Nat
      BY <1>0, <1>9, EndsGrow
    <3>2. EndOf(j) <= E
      BY <1>3, <1>E, <3>1
    <3> QED
      BY <1>3, <1>5, <1>8, <3>1, <3>2
  <2>6. L + 1 <= ends'[L + 1]
    BY <1>3, <1>5, <1>8
  <2> QED
    BY <2>2, <2>4, <2>5, <2>6
<1>12. Len(file') = EndOf(Len(rows))' + (IF finished' THEN 1 ELSE 0)
  <2>1. EndOf(Len(rows))' = EndOf(L + 1)'
    BY <1>7 DEF EndOf
  <2> QED
    BY <1>1, <1>3, <1>5, <1>6, <1>9, <2>1
<1>13. \A k \in 1 .. Len(rows') : k \in 1 .. L \/ k = L + 1
  BY <1>3, <1>7
<1> QED
  BY <1>1, <1>6, <1>7, <1>8, <1>10, <1>11, <1>12, <1>13 DEF CodecInv

LEMMA FinishStands ==
  ASSUME CodecInv, FinishRecording
  PROVE  CodecInv'
<1>1. PICK L \in Nat, n \in Nat : L = Len(rows) /\ n = Len(file)
  BY LenProperties DEF CodecInv
<1>2. /\ ~finished /\ finished' /\ rows' = rows /\ ends' = ends
      /\ file' \in Seq(Byte) /\ Len(file') = n + 1 /\ file'[n + 1] = EndOfReplay
      /\ \A i \in 1 .. n : file'[i] = file[i]
  <2>1. EndOfReplay \in Byte
    BY DEF EndOfReplay, Byte
  <2> QED
    BY <1>1, <2>1, AppendProperties DEF FinishRecording, CodecInv
<1>3. \A k : EndOf(k)' = EndOf(k) /\ RowBefore(k)' = RowBefore(k)
  BY <1>2 DEF EndOf, RowBefore
<1>4. ASSUME NEW k \in 1 .. L
      PROVE  Stands(k)'
  <2>1. Stands(k)
    BY <1>1 DEF CodecInv
  <2>2. PICK r : r = Record(RowBefore(k), rows[k])
    OBVIOUS
  <2>3. /\ Len(r) \in Nat \ {0} /\ ends[k] = EndOf(k - 1) + Len(r)
        /\ \A j \in 1 .. Len(r) : file[EndOf(k - 1) + j] = r[j]
    BY <2>1, <2>2 DEF Stands
  <2>4. PICK e \in Nat : e = EndOf(k - 1) /\ e + Len(r) <= n
    <3>1. k - 1 \in 0 .. Len(rows) /\ k \in 0 .. Len(rows)
      BY <1>1
    <3>2. EndOf(k - 1) \in Nat /\ EndOf(k) <= Len(file)
      BY <3>1, EndsGrow
    <3> QED
      BY <1>1, <2>3, <3>2 DEF EndOf
  <2>5. ASSUME NEW j \in 1 .. Len(r) PROVE file'[e + j] = r[j]
    <3>1. e + j \in 1 .. n
      BY <2>3, <2>4
    <3>2. file[e + j] = r[j]
      BY <2>3, <2>4
    <3> QED
      BY <1>2, <3>1, <3>2
  <2>6. EndOf(k - 1)' = e /\ RowBefore(k)' = RowBefore(k) /\ rows'[k] = rows[k] /\ ends'[k] = ends[k]
    BY <1>2, <1>3, <2>4
  <2> QED
    BY <2>2, <2>3, <2>4, <2>5, <2>6 DEF Stands
<1>5. n = EndOf(L)
  <2>1. L \in 0 .. Len(rows)
    BY <1>1
  <2>2. EndOf(L) \in Nat
    BY <2>1, EndsGrow
  <2> QED
    BY <1>1, <1>2, <2>2 DEF CodecInv
<1>6. EndOf(Len(rows))' = EndOf(Len(rows))
  BY <1>2 DEF EndOf
<1> QED
  BY <1>1, <1>2, <1>3, <1>4, <1>5, <1>6 DEF CodecInv

LEMMA CodecInvHolds == CodecSpec => []CodecInv
<1>1. CodecInit => CodecInv
  <2> SUFFICES ASSUME CodecInit PROVE CodecInv
    OBVIOUS
  <2>1. rows = <<>> /\ ends = <<>> /\ file = <<>> /\ finished = FALSE
    BY DEF CodecInit
  <2>2. rows \in Seq(RowType) /\ ends \in Seq(Nat) /\ file \in Seq(Byte) /\ Len(rows) = 0
        /\ Len(ends) = 0 /\ Len(file) = 0
    BY <2>1, EmptySeq
  <2>3. \A k \in 1 .. Len(rows) : FALSE
    BY <2>2
  <2>4. EndOf(Len(rows)) = 0 /\ finished = FALSE
    BY <2>1, <2>2 DEF EndOf
  <2>5. Len(file) = EndOf(Len(rows)) + (IF finished THEN 1 ELSE 0)
    BY <2>2, <2>4
  <2>6. finished \in BOOLEAN /\ ~finished /\ Len(ends) = Len(rows)
    BY <2>1, <2>2
  <2> QED
    BY <2>2, <2>3, <2>5, <2>6, Zenon DEF CodecInv
<1>2. CodecInv /\ [CodecNext]_codecVars => CodecInv'
  <2> SUFFICES ASSUME CodecInv, [CodecNext]_codecVars
               PROVE  CodecInv'
    OBVIOUS
  <2>1. CASE CodecNext
    BY <2>1, PushStands, FinishStands DEF CodecNext
  <2>2. CASE UNCHANGED codecVars
    <3>1. rows' = rows /\ ends' = ends /\ file' = file /\ finished' = finished
      BY <2>2 DEF codecVars
    <3>2. ASSUME NEW k
          PROVE  EndOf(k)' = EndOf(k) /\ RowBefore(k)' = RowBefore(k)
      BY <3>1 DEF EndOf, RowBefore
    <3>3. ASSUME NEW k
          PROVE  Stands(k)' <=> Stands(k)
      BY <3>1, <3>2 DEF Stands
    <3>4. EndOf(Len(rows))' = EndOf(Len(rows))
      BY <3>1 DEF EndOf
    <3> QED
      BY <3>1, <3>2, <3>3, <3>4 DEF CodecInv
  <2> QED
    BY <2>1, <2>2
<1> QED
  BY <1>1, <1>2, PTL DEF CodecSpec

-----------------------------------------------------------------------------
(* Replay stream: the reader *)

\* The states of the loop after so many rounds.
IsParsing(g, data, n) ==
  g = [round \in 0 .. n |-> IF round = 0 THEN Start ELSE ParseRecord(data, g[round - 1])]

LEMMA ParsingExists ==
  ASSUME NEW data, NEW n \in Nat
  PROVE  \E g : IsParsing(g, data, n)
<1> DEFINE T == {k \in Nat : ~ \E g : IsParsing(g, data, k)}
<1> SUFFICES ASSUME T # {} PROVE FALSE
  OBVIOUS
<1>1. PICK m \in T : \A k \in T : m <= k
  <2>1. T \in SUBSET Nat
    OBVIOUS
  <2> HIDE DEF T
  <2> QED
    BY <2>1, FirstOf
<1>2. m \in Nat /\ ~ \E g : IsParsing(g, data, m)
  OBVIOUS
<1>3. CASE m = 0
  <2> DEFINE g == [round \in 0 .. 0 |-> Start]
  <2>1. IsParsing(g, data, 0)
    BY DEF IsParsing
  <2> QED
    BY <1>2, <1>3, <2>1
<1>4. CASE m # 0
  <2>1. m - 1 \in Nat /\ m - 1 \notin T
    BY <1>1, <1>2, <1>4
  <2>2. PICK g : IsParsing(g, data, m - 1)
    BY <2>1
  <2>3. \A r \in 0 .. m - 1 : g[r] = IF r = 0 THEN Start ELSE ParseRecord(data, g[r - 1])
    BY <2>2 DEF IsParsing
  <2> DEFINE h == [r \in 0 .. m |-> IF r = m THEN ParseRecord(data, g[m - 1]) ELSE g[r]]
  <2>4. ASSUME NEW r \in 0 .. m
        PROVE  h[r] = IF r = 0 THEN Start ELSE ParseRecord(data, h[r - 1])
    <3>1. CASE r = 0
      BY <1>2, <1>4, <2>3, <3>1
    <3>2. CASE r # 0 /\ r # m
      <4>1. r \in 0 .. m - 1 /\ r - 1 \in 0 .. m /\ r - 1 # m
        BY <1>2, <3>2
      <4>2. h[r] = g[r] /\ h[r - 1] = g[r - 1]
        BY <3>2, <4>1
      <4> QED
        BY <2>3, <3>2, <4>1, <4>2
    <3>3. CASE r = m
      <4>1. r - 1 \in 0 .. m /\ r - 1 # m
        BY <1>2, <1>4, <3>3
      <4>2. h[r - 1] = g[m - 1] /\ h[r] = ParseRecord(data, g[m - 1])
        BY <3>3, <4>1
      <4> QED
        BY <1>4, <3>3, <4>2
    <3> QED
      BY <3>1, <3>2, <3>3
  <2>5. h = [r \in 0 .. m |-> h[r]]
    OBVIOUS
  <2> HIDE DEF h
  <2>6. IsParsing(h, data, m)
    BY <2>4, <2>5 DEF IsParsing
  <2> QED
    BY <1>2, <2>6
<1> QED
  BY <1>3, <1>4

\* Parsed is where the last round leaves the loop.
LEMMA ParsedIs ==
  ASSUME NEW data, Len(data) \in Nat
  PROVE  \E g : IsParsing(g, data, Len(data) + 1) /\ Parsed(data) = g[Len(data) + 1]
<1>1. \E g : IsParsing(g, data, Len(data) + 1)
  <2>1. Len(data) + 1 \in Nat
    OBVIOUS
  <2> QED
    BY <2>1, ParsingExists, Zenon
<1> QED
  BY <1>1 DEF Parsed, IsParsing

\* The loop when it has read the first k ticks.
After(k) ==
  [at |-> EndOf(k) + 1, prev |-> IF k = 0 THEN Idle ELSE rows[k],
   inputs |-> SubSeq(rows, 1, k), complete |-> FALSE, stopped |-> FALSE]

LEMMA AfterType ==
  ASSUME CodecInv, NEW k \in 0 .. Len(rows)
  PROVE  /\ After(k) \in ParseType
         /\ After(k).at = EndOf(k) + 1
         /\ k < Len(rows) => After(k).prev = RowBefore(k + 1)
         /\ After(k).inputs = SubSeq(rows, 1, k)
         /\ ~After(k).stopped /\ ~After(k).complete
<1>1. Len(rows) \in Nat /\ EndOf(k) \in Nat
  BY EndsGrow
<1>2. \A i \in 1 .. k : rows[i] \in RowType
  BY <1>1, ElementOfSeq DEF CodecInv
<1>3. SubSeq(rows, 1, k) \in Seq(RowType)
  BY <1>1, <1>2, SubSeqProperties
<1>4. (IF k = 0 THEN Idle ELSE rows[k]) \in RowType
  BY <1>1, <1>2, IdleRow
<1>5. k < Len(rows) => (IF k = 0 THEN Idle ELSE rows[k]) = RowBefore(k + 1)
  BY <1>1 DEF RowBefore
<1>6. EndOf(k) + 1 \in Nat \ {0}
  BY <1>1
<1> QED
  BY <1>3, <1>4, <1>5, <1>6 DEF After, ParseType

\* A tick whose record is whole is read, one that is cut off ends the loop.
LEMMA ReadsTick ==
  ASSUME CodecInv, NEW n \in 0 .. Len(file), NEW data, data = SubSeq(file, 1, n),
         NEW k \in 0 .. Len(rows) - 1, EndOf(k) < n
  PROVE  /\ EndOf(k + 1) <= n => ParseRecord(data, After(k)) = After(k + 1)
         /\ n < EndOf(k + 1) => ParseRecord(data, After(k)) = Stopped(After(k))
<1>1. /\ Len(rows) \in Nat /\ k \in 0 .. Len(rows) /\ k + 1 \in 0 .. Len(rows)
      /\ k + 1 \in 1 .. Len(rows) /\ k + 1 - 1 = k
  BY LenProperties DEF CodecInv
<1>2. PICK e \in Nat : e = EndOf(k)
  BY <1>1, EndsGrow
<1>3. /\ After(k) \in ParseType /\ After(k).at = e + 1 /\ After(k).prev = RowBefore(k + 1)
      /\ After(k).inputs = SubSeq(rows, 1, k) /\ ~After(k).stopped /\ ~After(k).complete
  BY <1>1, <1>2, AfterType
<1>4. rows \in Seq(RowType) /\ rows[k + 1] \in RowType
  BY <1>1, ElementOfSeq DEF CodecInv
<1>5. PICK r : r = Record(After(k).prev, rows[k + 1])
  OBVIOUS
<1>6. /\ Len(r) \in Nat \ {0} /\ EndOf(k + 1) = e + Len(r)
      /\ \A j \in 1 .. Len(r) : file[e + j] = r[j]
  <2>1. Stands(k + 1)
    BY <1>1 DEF CodecInv
  <2> QED
    BY <1>1, <1>2, <1>3, <1>5, <2>1 DEF Stands, EndOf
<1>7. /\ Len(file) \in Nat /\ n \in Nat /\ Len(data) = n
      /\ \A i \in 1 .. n : data[i] = file[i]
  <2>1. Len(file) \in Nat
    BY LenProperties DEF CodecInv
  <2>2. \A i \in 1 .. n : file[i] \in Byte
    BY <2>1, ElementOfSeq DEF CodecInv
  <2>3. n \in Nat
    BY <2>1
  <2>4. Len(data) = n /\ \A i \in 1 .. n : data[i] = file[1 + i - 1]
    BY <2>2, <2>3, SubSeqProperties
  <2> QED
    BY <2>1, <2>3, <2>4
<1>8. Begins(data, After(k).at, r)
  <2> SUFFICES ASSUME NEW j \in 1 .. Len(r), After(k).at + j - 1 <= Len(data)
               PROVE  data[After(k).at + j - 1] = r[j]
    BY DEF Begins
  <2>1. j \in Nat \ {0} /\ After(k).at + j - 1 = e + j
    BY <1>3, <1>6
  <2>2. e + j \in 1 .. n
    BY <1>7, <2>1
  <2> QED
    BY <1>6, <1>7, <2>1, <2>2
<1>9. After(k).at <= Len(data)
  BY <1>2, <1>3, <1>7
<1>10. Reads(data, After(k), r, rows[k + 1])
  <2>1. Len(data) \in Nat
    BY <1>7
  <2> QED
    <3>1. PICK a \in ParseType : a = After(k)
      BY <1>3
    <3>2. PICK keys \in RowType : keys = rows[k + 1]
      BY <1>4
    <3>3. /\ ~a.stopped /\ r = Record(a.prev, keys) /\ Begins(data, a.at, r) /\ a.at <= Len(data)
      BY <1>3, <1>5, <1>8, <1>9, <3>1, <3>2
    <3>4. Reads(data, a, r, keys)
      BY <2>1, <3>3, ReadsBack
    <3> QED
      BY <3>1, <3>2, <3>4
<1>11. After(k).at + Len(r) - 1 = EndOf(k + 1) /\ After(k).at + Len(r) = EndOf(k + 1) + 1
  BY <1>3, <1>6
<1>12. Append(SubSeq(rows, 1, k), rows[k + 1]) = SubSeq(rows, 1, k + 1)
  <2> DEFINE a == Append(SubSeq(rows, 1, k), rows[k + 1])
             b == SubSeq(rows, 1, k + 1)
  <2>1. \A i \in 1 .. k + 1 : rows[i] \in RowType
    BY <1>1, <1>4, ElementOfSeq
  <2>2. /\ b \in Seq(RowType) /\ Len(b) = k + 1
        /\ \A i \in 1 .. k + 1 : b[i] = rows[i]
    BY <1>1, <2>1, SubSeqProperties
  <2>3. /\ SubSeq(rows, 1, k) \in Seq(RowType) /\ Len(SubSeq(rows, 1, k)) = k
        /\ \A i \in 1 .. k : SubSeq(rows, 1, k)[i] = rows[i]
    BY <1>1, <2>1, SubSeqProperties
  <2>4. /\ a \in Seq(RowType) /\ Len(a) = k + 1
        /\ \A i \in 1 .. k : a[i] = rows[i]
        /\ a[k + 1] = rows[k + 1]
    BY <1>1, <1>4, <2>3, AppendProperties
  <2>5. \A i \in 1 .. Len(a) : a[i] = b[i]
    <3>1. \A i \in 1 .. k + 1 : i \in 1 .. k \/ i = k + 1
      BY <1>1
    <3> HIDE DEF a, b
    <3> QED
      BY <2>2, <2>4, <3>1
  <2> HIDE DEF a, b
  <2>6. a = b
    BY <2>2, <2>4, <2>5, SeqEqual
  <2> QED
    BY <2>6 DEF a, b
<1>13. ASSUME EndOf(k + 1) <= n
       PROVE  ParseRecord(data, After(k)) = After(k + 1)
  <2>1. ParseRecord(data, After(k))
          = [After(k) EXCEPT !.at = EndOf(k + 1) + 1, !.prev = rows[k + 1],
                             !.inputs = SubSeq(rows, 1, k + 1)]
    BY <1>3, <1>7, <1>10, <1>11, <1>12, <1>13 DEF Reads
  <2>2. k + 1 # 0
    BY <1>1
  <2> QED
    BY <2>1, <2>2 DEF After
<1>14. ASSUME n < EndOf(k + 1)
       PROVE  ParseRecord(data, After(k)) = Stopped(After(k))
  BY <1>7, <1>10, <1>11, <1>14 DEF Reads
<1> QED
  BY <1>13, <1>14

\* Where the loop stops, it stays.
LEMMA StopsForGood ==
  ASSUME NEW data, NEW s \in ParseType, s.stopped
  PROVE  ParseRecord(data, s) = s
  BY DEF ParseRecord, ParseType

\* The loop reads the ticks that are whole, then stops, and finds the sentinel only
\* at the end of a finished file.
LEMMA StopsBehind ==
  ASSUME CodecInv, NEW n \in 0 .. Len(file), NEW data, data = SubSeq(file, 1, n),
         NEW K \in 0 .. Len(rows), EndOf(K) <= n, K < Len(rows) => n < EndOf(K + 1),
         NEW s, s = ParseRecord(data, After(K))
  PROVE  /\ s \in ParseType /\ s.stopped /\ s.inputs = SubSeq(rows, 1, K)
         /\ s.complete = (finished /\ n = Len(file))
<1>1. /\ Len(rows) \in Nat /\ EndOf(K) \in Nat /\ EndOf(K) <= Len(file)
      /\ Len(file) \in Nat /\ n \in Nat /\ Len(rows) \in 0 .. Len(rows)
  BY EndsGrow, LenProperties DEF CodecInv
<1>2. /\ After(K) \in ParseType /\ After(K).at = EndOf(K) + 1
      /\ After(K).inputs = SubSeq(rows, 1, K) /\ After(K).stopped = FALSE
      /\ After(K).complete = FALSE
  BY AfterType DEF ParseType
<1>3. Len(data) = n /\ \A i \in 1 .. n : data[i] = file[i]
  <2>1. \A i \in 1 .. n : file[i] \in Byte
    BY <1>1, ElementOfSeq DEF CodecInv
  <2>2. Len(data) = n /\ \A i \in 1 .. n : data[i] = file[1 + i - 1]
    BY <1>1, <2>1, SubSeqProperties
  <2> QED
    BY <1>1, <2>2
<1>4. EndOf(Len(rows)) \in Nat /\ Len(file) = EndOf(Len(rows)) + (IF finished THEN 1 ELSE 0)
  BY <1>1, EndsGrow DEF CodecInv
<1>5. ASSUME NEW f, f = Stopped(After(K))
      PROVE  f \in ParseType /\ f.stopped /\ f.inputs = SubSeq(rows, 1, K) /\ f.complete = FALSE
  BY <1>2, <1>5 DEF ParseType, Stopped
<1>6. CASE n = EndOf(K)
  <2>1. s = Stopped(After(K))
    <3>1. After(K).at > Len(data)
      BY <1>1, <1>2, <1>3, <1>6
    <3> QED
      BY <3>1 DEF ParseRecord, Stopped
  <2>2. ~(finished /\ n = Len(file))
    <3>1. CASE K = Len(rows)
      BY <1>1, <1>4, <1>6, <3>1
    <3>2. CASE K < Len(rows)
      <4>1. K + 1 \in 0 .. Len(rows) /\ K \in 0 .. K + 1 - 1
        BY <1>1, <3>2
      <4>2. EndOf(K + 1) <= Len(file) /\ EndOf(K) < EndOf(K + 1) /\ EndOf(K + 1) \in Nat
        BY <4>1, EndsGrow
      <4> QED
        BY <1>1, <1>6, <4>2
    <3> QED
      BY <1>1, <3>1, <3>2
  <2> QED
    BY <1>5, <2>1, <2>2
<1>7. CASE n # EndOf(K) /\ K < Len(rows)
  <2>1. K \in 0 .. Len(rows) - 1 /\ EndOf(K) < n
    BY <1>1, <1>7
  <2>2. s = Stopped(After(K))
    <3>1. n < EndOf(K + 1)
      BY <1>7
    <3> QED
      BY <2>1, <3>1, ReadsTick, Zenon
  <2>3. n # Len(file)
    <3>1. K + 1 \in 0 .. Len(rows)
      BY <1>1, <1>7
    <3>2. EndOf(K + 1) <= Len(file) /\ EndOf(K + 1) \in Nat
      BY <3>1, EndsGrow
    <3> QED
      BY <1>1, <1>7, <3>2
  <2> QED
    BY <1>5, <2>2, <2>3
<1>8. CASE n # EndOf(K) /\ K = Len(rows)
  <2>1. finished /\ n = Len(file) /\ n = EndOf(K) + 1
    BY <1>1, <1>4, <1>8
  <2>2. data[After(K).at] = EndOfReplay /\ After(K).at <= Len(data)
    <3>1. file[n] = EndOfReplay
      BY <2>1 DEF CodecInv
    <3>2. n \in 1 .. n
      BY <1>1, <2>1
    <3> QED
      BY <1>2, <1>3, <2>1, <3>1, <3>2
  <2>3. s = [After(K) EXCEPT !.stopped = TRUE, !.complete = TRUE]
    <3>1. ~(After(K).stopped \/ After(K).at > Len(data))
      BY <1>1, <1>2, <1>3, <2>1
    <3> QED
      BY <2>2, <3>1 DEF ParseRecord
  <2> QED
    BY <1>2, <2>1, <2>3 DEF ParseType
<1> QED
  BY <1>1, <1>6, <1>7, <1>8

\* What is read of a file cut off after n bytes, K ticks of which are whole.
LEMMA ReadsWhole ==
  ASSUME CodecInv, NEW n \in 0 .. Len(file), NEW data, data = SubSeq(file, 1, n),
         NEW K \in 0 .. Len(rows), EndOf(K) <= n, K < Len(rows) => n < EndOf(K + 1)
  PROVE  /\ Parsed(data).inputs = SubSeq(rows, 1, K)
         /\ Parsed(data).complete = (finished /\ n = Len(file))
<1>1. /\ Len(rows) \in Nat /\ K \in Nat /\ K <= Len(rows) /\ EndOf(K) \in Nat /\ K <= EndOf(K)
      /\ Len(file) \in Nat /\ n \in Nat
  BY EndsGrow, LenProperties DEF CodecInv
<1>2. Len(data) = n
  <2>1. \A i \in 1 .. n : file[i] \in Byte
    BY <1>1, ElementOfSeq DEF CodecInv
  <2> QED
    BY <1>1, <2>1, SubSeqProperties
<1>3. PICK g : IsParsing(g, data, n + 1) /\ Parsed(data) = g[n + 1]
  BY <1>1, <1>2, ParsedIs
<1>4. /\ g[0] = Start
      /\ \A r \in 1 .. n + 1 : g[r] = ParseRecord(data, g[r - 1])
  BY <1>1, <1>3 DEF IsParsing
<1>5. Start = After(0)
  <2>1. SubSeq(rows, 1, 0) = <<>>
    BY SubSeqEmpty
  <2>2. EndOf(0) + 1 = 1
    BY DEF EndOf
  <2> HIDE DEF Idle
  <2> QED
    BY <2>1, <2>2 DEF Start, After
<1>6. \A r \in 0 .. K : g[r] = After(r)
  <2> DEFINE T == {r \in 0 .. K : g[r] # After(r)}
  <2> SUFFICES ASSUME T # {} PROVE FALSE
    OBVIOUS
  <2>1. PICK m \in T : \A r \in T : m <= r
    <3>1. T \in SUBSET Nat
      BY <1>1
    <3> HIDE DEF T
    <3> QED
      BY <3>1, FirstOf
  <2>2. m \in 0 .. K /\ m # 0 /\ g[m] # After(m)
    BY <1>4, <1>5
  <2>3. PICK k : k = m - 1 /\ k \in 0 .. K /\ k \in 0 .. Len(rows) - 1 /\ k + 1 = m
                 /\ m \in 0 .. Len(rows)
    BY <1>1, <2>2
  <2>4. g[k] = After(k)
    <3>1. k \notin T
      BY <2>1, <2>2, <2>3
    <3> QED
      BY <2>3, <3>1
  <2>5. EndOf(m) <= n /\ EndOf(k) < n
    <3>1. EndOf(m) \in Nat /\ EndOf(k) < EndOf(m)
      BY <2>3, EndsGrow
    <3>2. m = K \/ m \in 0 .. K - 1
      BY <1>1, <2>2
    <3>3. EndOf(m) <= EndOf(K)
      BY <1>1, <3>1, <3>2, EndsGrow
    <3>4. EndOf(k) \in Nat
      BY <1>1, <2>3, EndsGrow
    <3> QED
      BY <1>1, <3>1, <3>3, <3>4
  <2>6. ParseRecord(data, After(k)) = After(m)
    <3>1. /\ EndOf(k + 1) <= n => ParseRecord(data, After(k)) = After(k + 1)
          /\ n < EndOf(k + 1) => ParseRecord(data, After(k)) = Stopped(After(k))
      BY <2>3, <2>5, ReadsTick, Zenon
    <3> QED
      BY <2>3, <2>5, <3>1
  <2>7. m \in 1 .. n + 1
    BY <1>1, <2>2
  <2> QED
    BY <1>4, <2>2, <2>3, <2>4, <2>6, <2>7
<1>7. PICK s : s = ParseRecord(data, After(K))
  OBVIOUS
<1>8. /\ s \in ParseType /\ s.stopped /\ s.inputs = SubSeq(rows, 1, K)
      /\ s.complete = (finished /\ n = Len(file))
  BY <1>7, StopsBehind, Zenon
<1>9. \A r \in K + 1 .. n + 1 : g[r] = s
  <2> DEFINE T == {r \in K + 1 .. n + 1 : g[r] # s}
  <2> SUFFICES ASSUME T # {} PROVE FALSE
    OBVIOUS
  <2>1. PICK m \in T : \A r \in T : m <= r
    <3>1. T \in SUBSET Nat
      BY <1>1
    <3> HIDE DEF T
    <3> QED
      BY <3>1, FirstOf
  <2>2. m \in K + 1 .. n + 1 /\ g[m] # s /\ m \in 1 .. n + 1
    BY <1>1
  <2>3. g[m] = ParseRecord(data, g[m - 1])
    BY <1>4, <2>2
  <2>4. CASE m = K + 1
    <3>1. m - 1 = K /\ K \in 0 .. K
      BY <1>1, <2>4
    <3> QED
      BY <1>6, <1>7, <2>2, <2>3, <3>1
  <2>5. CASE m # K + 1
    <3>1. m - 1 \in K + 1 .. n + 1 /\ m - 1 < m
      BY <1>1, <2>2, <2>5
    <3>2. g[m - 1] = s
      <4>1. m - 1 \notin T
        BY <2>1, <2>2, <3>1
      <4> QED
        BY <3>1, <4>1
    <3> QED
      BY <1>8, <2>2, <2>3, <3>2, StopsForGood
  <2> QED
    BY <2>4, <2>5
<1>10. n + 1 \in K + 1 .. n + 1
  BY <1>1
<1> QED
  BY <1>3, <1>8, <1>9, <1>10

\* The ticks whose records end within n bytes are the first ones.
LEMMA WholeAreFirst ==
  ASSUME CodecInv, NEW n \in 0 .. Len(file)
  PROVE  \E K \in 0 .. Len(rows) :
           /\ EndOf(K) <= n /\ (K < Len(rows) => n < EndOf(K + 1))
           /\ Cardinality({t \in DOMAIN rows : ends[t] <= n}) = K
<1>1. Len(rows) \in Nat /\ DOMAIN rows = 1 .. Len(rows) /\ n \in Nat
  BY LenProperties DEF CodecInv
<1>2. \A k \in 0 .. Len(rows) : EndOf(k) \in Nat /\ \A j \in 0 .. k - 1 : EndOf(j) < EndOf(k)
  BY EndsGrow
<1> DEFINE T == {k \in 0 .. Len(rows) : k < Len(rows) => n < EndOf(k + 1)}
<1>3. PICK K \in T : \A k \in T : K <= k
  <2>1. T \in SUBSET Nat /\ Len(rows) \in T
    BY <1>1
  <2>2. T # {}
    BY <2>1
  <2> HIDE DEF T
  <2> QED
    BY <2>1, <2>2, FirstOf
<1>4. K \in 0 .. Len(rows) /\ (K < Len(rows) => n < EndOf(K + 1))
  OBVIOUS
<1>5. EndOf(K) <= n
  <2>1. CASE K = 0
    BY <1>1, <2>1 DEF EndOf
  <2>2. CASE K # 0
    <3>1. K - 1 \in 0 .. Len(rows) /\ K - 1 < Len(rows) /\ K - 1 + 1 = K /\ K - 1 < K
      BY <1>1, <1>4, <2>2
    <3>2. K - 1 \notin T
      <4> HIDE DEF T
      <4> QED
        BY <1>3, <1>4, <3>1
    <3>3. ~(n < EndOf(K))
      BY <3>1, <3>2
    <3> QED
      BY <1>1, <1>2, <1>4, <3>3
  <2> QED
    BY <2>1, <2>2
<1> HIDE DEF T
<1>6. ASSUME NEW t \in 1 .. Len(rows)
      PROVE  ends[t] <= n <=> t <= K
  <2>1. ends[t] = EndOf(t) /\ t \in 0 .. Len(rows) /\ EndOf(t) \in Nat /\ EndOf(K) \in Nat
    BY <1>1, <1>2, <1>4 DEF EndOf
  <2>2. CASE t <= K
    <3>1. t = K \/ t \in 0 .. K - 1
      BY <1>4, <2>2
    <3>2. EndOf(t) <= EndOf(K)
      BY <1>2, <1>4, <2>1, <3>1
    <3> QED
      BY <1>1, <1>5, <2>1, <2>2, <3>2
  <2>3. CASE ~(t <= K)
    <3>1. K + 1 \in 0 .. Len(rows) /\ K < Len(rows) /\ (t = K + 1 \/ K + 1 \in 0 .. t - 1)
      BY <1>1, <1>4, <2>3
    <3>2. EndOf(K + 1) \in Nat /\ EndOf(K + 1) <= EndOf(t)
      BY <1>2, <2>1, <3>1
    <3> QED
      BY <1>1, <1>4, <2>1, <2>3, <3>1, <3>2
  <2> QED
    BY <2>2, <2>3
<1>7. {t \in DOMAIN rows : ends[t] <= n} = 1 .. K
  BY <1>1, <1>4, <1>6
<1>8. Cardinality(1 .. K) = K
  BY <1>1, <1>4, FS_Interval
<1> QED
  BY <1>4, <1>5, <1>7, <1>8

\* A recording cut off at any byte gives back exactly the ticks that are whole, and
\* counts as complete only with its sentinel (Writer::push, Replay::parse).
THEOREM TailAlwaysReadable == CodecSpec => []TailReadable
<1>1. CodecInv => TailReadable
  <2> SUFFICES ASSUME CodecInv, NEW n \in 0 .. Len(file), NEW replay,
                      replay = Parsed(SubSeq(file, 1, n))
               PROVE  /\ replay.inputs
                           = SubSeq(rows, 1, Cardinality({t \in DOMAIN rows : ends[t] <= n}))
                      /\ replay.complete = (finished /\ n = Len(file))
    BY DEF TailReadable
  <2>1. PICK K \in 0 .. Len(rows) :
          /\ EndOf(K) <= n /\ (K < Len(rows) => n < EndOf(K + 1))
          /\ Cardinality({t \in DOMAIN rows : ends[t] <= n}) = K
    BY WholeAreFirst
  <2>2. PICK data : data = SubSeq(file, 1, n)
    OBVIOUS
  <2>3. /\ Parsed(data).inputs = SubSeq(rows, 1, K)
        /\ Parsed(data).complete = (finished /\ n = Len(file))
    BY <2>1, <2>2, ReadsWhole, Zenon
  <2> QED
    BY <2>1, <2>2, <2>3
<1> QED
  BY <1>1, CodecInvHolds, PTL
=============================================================================
