---------------------------- MODULE ReplayCodec -----------------------------
(***************************************************************************)
(* The input stream of a replay (gbaroll-replay/src/lib.rs): one tag byte  *)
(* per tick, explicit keys behind it, and a sentinel.  The recorder may    *)
(* die at any byte; the reader gives back the ticks that are whole.        *)
(*                                                                         *)
(* Players count from 1, bits of the tag from 0 as in the code.  The       *)
(* header is left out.                                                     *)
(***************************************************************************)
EXTENDS Integers, Sequences, FiniteSets

CONSTANTS
  Players, \* their number
  Joypads, \* key masks, as u16
  MaxRows  \* bound: ticks recorded

Mask == {k \in Nat : k < 65536} \* u16

ASSUME CodecAssumption == Players \in 2 .. 4 /\ Joypads \subseteq Mask /\ MaxRows \in Nat

VARIABLES
  rows,    \* the ticks pushed
  ends,    \* where the record of each ends in the file
  file,    \* bytes written
  finished \* whether the sentinel is

codecVars == <<rows, ends, file, finished>>

Player == 1 .. Players
Idle == [i \in Player |-> 0]
OpPrev == 128
Bit == <<1, 2, 4, 8>> \* of a player in the tag; there are at most four
EndOfReplay == 0

-----------------------------------------------------------------------------
(* Writer *)

\* Mutant: a tick that spells out all its keys is left as it comes out.
OpAsChosen(chosen, defaults) == chosen

\* An all-explicit tick's tag is kept off the sentinel.
Op(chosen, defaults) == chosen \/ defaults = {}

\* The tag, then the keys of the explicit players, low byte first.
Encoded(op, defaults, keys) ==
  LET Flag(i)  == IF i \in defaults THEN Bit[i] ELSE 0
      Spelt(i) == IF i \in Player \ defaults THEN <<keys[i] % 256, keys[i] \div 256>> ELSE <<>>
      tag      == (IF op THEN OpPrev ELSE 0) + Flag(1) + Flag(2) + Flag(3) + Flag(4)
  IN  <<tag>> \o Spelt(1) \o Spelt(2) \o Spelt(3) \o Spelt(4)

\* push(): the default that leaves fewer players explicit, zero on a tie.
Record(previous, keys) ==
  LET zero     == {i \in Player : keys[i] = 0}
      prev     == {i \in Player : keys[i] = previous[i]}
      chosen   == Cardinality(prev) > Cardinality(zero)
      defaults == IF chosen THEN prev ELSE zero
  IN  Encoded(Op(chosen, defaults), defaults, keys)

Previous == IF rows = <<>> THEN Idle ELSE rows[Len(rows)]

-----------------------------------------------------------------------------
(* Replay::parse *)

\* One round of the loop, from the state it is in.
ParseRecord(data, s) ==
  LET tag      == data[s.at]
      explicit == {i \in Player : (tag \div Bit[i]) % 2 = 0}
      At(i)    == s.at + 1 + 2 * Cardinality({j \in explicit : j < i})
      row      == [i \in Player |->
                     IF i \in explicit THEN data[At(i)] + 256 * data[At(i) + 1]
                     ELSE IF tag >= OpPrev THEN s.prev[i] ELSE 0]
  IN  IF s.stopped \/ s.at > Len(data) THEN [s EXCEPT !.stopped = TRUE]
      ELSE IF tag = EndOfReplay THEN [s EXCEPT !.stopped = TRUE, !.complete = TRUE]
      ELSE IF s.at + 2 * Cardinality(explicit) > Len(data) THEN [s EXCEPT !.stopped = TRUE]
      ELSE [s EXCEPT !.at = @ + 1 + 2 * Cardinality(explicit), !.prev = row,
                     !.inputs = Append(@, row)]

Start == [at |-> 1, prev |-> Idle, inputs |-> <<>>, complete |-> FALSE, stopped |-> FALSE]

\* Every round but the last consumes a byte.
Parsed(data) ==
  LET after[round \in 0 .. Len(data) + 1] ==
        IF round = 0 THEN Start ELSE ParseRecord(data, after[round - 1])
  IN  after[Len(data) + 1]

-----------------------------------------------------------------------------
CodecInit == rows = <<>> /\ ends = <<>> /\ file = <<>> /\ finished = FALSE

PushTick ==
  /\ ~finished /\ Len(rows) < MaxRows
  /\ \E keys \in [Player -> Joypads] :
       LET written == file \o Record(Previous, keys)
       IN  /\ rows' = Append(rows, keys)
           /\ file' = written
           /\ ends' = Append(ends, Len(written))
  /\ UNCHANGED finished

\* finish(): the sentinel.
FinishRecording ==
  /\ ~finished
  /\ file' = Append(file, EndOfReplay)
  /\ finished' = TRUE
  /\ UNCHANGED <<rows, ends>>

CodecNext == PushTick \/ FinishRecording

CodecSpec == CodecInit /\ [][CodecNext]_codecVars

-----------------------------------------------------------------------------
(* Properties *)

\* A recording cut off at any byte gives back exactly the ticks that are whole,
\* and counts as complete only with its sentinel.
TailReadable ==
  \A n \in 0 .. Len(file) :
    LET replay == Parsed(SubSeq(file, 1, n))
    IN  /\ replay.inputs = SubSeq(rows, 1, Cardinality({t \in DOMAIN rows : ends[t] <= n}))
        /\ replay.complete = (finished /\ n = Len(file))
=============================================================================
