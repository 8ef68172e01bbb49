-------------------------------- MODULE Keys --------------------------------
(***************************************************************************)
(* Held keys (gbaroll/src/runtime/mod.rs, platform/input.rs, ui/touch.rs): *)
(* the document's key events, the focus of the window, and the touch       *)
(* overlay, against what fingers hold down.                                *)
(*                                                                         *)
(* A modifier's release may get lost to a system shortcut; every event     *)
(* carries the modifiers' state as flags.  Mapping keys to joypad bits is  *)
(* per key, so that a key stands for its bit; gamepads are polled whole    *)
(* and left out.                                                           *)
(***************************************************************************)
EXTENDS FiniteSets

CONSTANTS
  Plain,   \* keys that are no modifiers and not Escape
  Sides,   \* the two sides of a modifier
  Button   \* buttons of the touch overlay

Escape == "Escape"
Key == Plain \cup Sides \cup {Escape}

VARIABLES
  fingers, \* what is held down: keys, buttons
  window,  \* the page: focused, playing (a session), menu, capturing (a binding),
           \* inControl (an element has the focus)
  heldKeys,\* HeldState.keys
  touched, \* Runtime.touch_keys
  lost     \* the sides whose release no event has shown yet

keysVars == <<fingers, window, heldKeys, touched, lost>>

KeysInit ==
  /\ fingers = [keys |-> {}, buttons |-> {}]
  /\ window = [focused |-> TRUE, playing |-> FALSE, menu |-> FALSE, capturing |-> FALSE,
               inControl |-> FALSE]
  /\ heldKeys = {} /\ touched = {} /\ lost = {}

-----------------------------------------------------------------------------
(* The keyboard *)

\* The sides that an event with these keys down shows to be up.
ShownUp(down) == IF down \cap Sides = {} THEN Sides ELSE {}

\* keydown.  A capture takes it whole; otherwise lost releases are made good, and
\* the key goes to the game if a session or its menu is there, no control has the
\* focus and it is not Escape, which toggles the menu.
KeyDown(k, down) ==
  IF window.capturing
    THEN /\ window' = [window EXCEPT !.capturing = FALSE]
         /\ UNCHANGED <<heldKeys, lost>>
    ELSE LET consumed == window.playing \/ window.menu
             toGame   == consumed /\ k # Escape /\ ~window.inControl
         IN  /\ heldKeys' = (heldKeys \ ShownUp(down)) \cup (IF toGame THEN {k} ELSE {})
             /\ lost' = (lost \ ShownUp(down)) \ {k}
             /\ window' = IF window.playing /\ k = Escape
                            THEN [window EXCEPT !.menu = ~@] ELSE window

\* Mutant: a release is seen only while the press would be.
ReleasedInGame(k) == IF window.playing THEN heldKeys \ {k} ELSE heldKeys

\* Releases always land.
Released(k) == heldKeys \ {k}

KeyUp(k, down) ==
  /\ heldKeys' = Released(k) \ ShownUp(down)
  /\ lost' = (lost \ ShownUp(down)) \ {k}

\* A key goes down, or repeats.
Press(k) ==
  LET down == fingers.keys \cup {k}
  IN  /\ fingers' = [fingers EXCEPT !.keys = down]
      /\ IF window.focused THEN KeyDown(k, down) ELSE UNCHANGED <<window, heldKeys, lost>>
      /\ UNCHANGED touched

LiftKey(k) ==
  LET down == fingers.keys \ {k}
  IN  /\ k \in fingers.keys
      /\ fingers' = [fingers EXCEPT !.keys = down]
      /\ \/ window.focused /\ KeyUp(k, down)
         \/ ~window.focused /\ UNCHANGED <<heldKeys, lost>>
         \/ window.focused /\ k \in Sides /\ lost' = lost \cup {k} /\ UNCHANGED heldKeys
      /\ UNCHANGED <<window, touched>>

\* blur and visibilitychange: release_keys().
LosesFocus ==
  /\ window.focused
  /\ window' = [window EXCEPT !.focused = FALSE]
  /\ heldKeys' = {} /\ lost' = {}
  /\ UNCHANGED <<fingers, touched>>

GainsFocus ==
  /\ ~window.focused
  /\ window' = [window EXCEPT !.focused = TRUE]
  /\ UNCHANGED <<fingers, heldKeys, touched, lost>>

-----------------------------------------------------------------------------
(* The page *)

\* A session starts or ends; the touch overlay is part of its view, and what it
\* held goes with it.
SessionTurns ==
  /\ window' = [window EXCEPT !.playing = ~@, !.menu = FALSE]
  /\ touched' = {}
  /\ UNCHANGED <<fingers, heldKeys, lost>>

\* The settings wait for a key to bind, or the focus moves into or out of a
\* control.
Attends ==
  /\ \/ window' = [window EXCEPT !.capturing = TRUE]
     \/ window' = [window EXCEPT !.inControl = ~@]
  /\ UNCHANGED <<fingers, heldKeys, touched, lost>>

\* pointerdown and pointerup (or cancel, or leave) on a button of the overlay.
Touches(b) ==
  /\ window.playing
  /\ fingers' = [fingers EXCEPT !.buttons = @ \cup {b}]
  /\ touched' = touched \cup {b}
  /\ UNCHANGED <<window, heldKeys, lost>>

Lifts(b) ==
  /\ b \in fingers.buttons
  /\ fingers' = [fingers EXCEPT !.buttons = @ \ {b}]
  /\ touched' = touched \ {b}
  /\ UNCHANGED <<window, heldKeys, lost>>

\* What pump() gives to the session of a turn: bits of keys and buttons alike.
Joyflags == heldKeys \cup touched

-----------------------------------------------------------------------------
KeysNext ==
  \/ \E k \in Key : Press(k) \/ LiftKey(k)
  \/ LosesFocus \/ GainsFocus \/ SessionTurns \/ Attends
  \/ \E b \in Button : Touches(b) \/ Lifts(b)

KeysSpec == KeysInit /\ [][KeysNext]_keysVars

-----------------------------------------------------------------------------
(* Properties *)

\* Held state never outlives the physical key, through captures, sessions that
\* come and go, controls that take the focus, tabs that lose it and overlays that
\* close, but for a modifier whose release no event has shown.
HeldIsDown ==
  /\ Joyflags \subseteq fingers.keys \cup fingers.buttons \cup lost
  /\ ~window.focused => heldKeys = {}
=============================================================================
