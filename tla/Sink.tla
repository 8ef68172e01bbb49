-------------------------------- MODULE Sink --------------------------------
(***************************************************************************)
(* The audio sink (gbaroll/src/platform/audio/, gbaroll-worklet,           *)
(* assets/audio-worklet.js): the pump of the page tops up a ring that the  *)
(* audio thread drains, and knows its depth only from reports that cross   *)
(* the chunks it sends.                                                    *)
(*                                                                         *)
(* A frame is its number in the order sent.  Resampling is taken one to    *)
(* one, and volume, mixdown and the browser's audio session are left out.  *)
(***************************************************************************)
EXTENDS Integers, Sequences

CONSTANTS
  Capacity,     \* CAPACITY: frames in the ring
  PushCapacity, \* PUSH_CAPACITY: frames of a push
  Quantum,      \* frames rendered at a time
  ReportEvery,  \* quanta between two reports
  SinkTarget,   \* TARGET_QUEUED_FRAMES
  MinChunk,     \* MIN_CHUNK_FRAMES
  Prime,        \* frames of silence at a session's start
  CoreTarget,   \* TARGET_QUEUED_SECS, in frames
  Discard,      \* DISCARD_FACTOR
  MaxFrames,    \* bound: frames sent
  MaxReports    \* bound: reports on their way

ASSUME SinkAssumption ==
  /\ {Capacity, PushCapacity, Quantum, ReportEvery, SinkTarget, MinChunk, CoreTarget,
      Discard} \subseteq Nat \ {0}
  /\ PushCapacity <= Capacity
  /\ Prime \in Nat /\ MaxFrames \in Nat /\ MaxReports \in Nat

VARIABLES
  source,  \* the link's sound: playing, queued in the core, LinkStream.priming
  pump,    \* WebAudio: reported_queued, sent_since_report, and the next frame's number
  chunks,  \* on their way to the worklet, each [first, length]
  reports, \* on their way to the page
  worklet  \* RING, READ_POS and LEN, frames pushed so far, quanta since a report

sinkVars == <<source, pump, chunks, reports, worklet>>

Least(a, b) == IF a <= b THEN a ELSE b

SinkInit ==
  /\ source = [playing |-> FALSE, queued |-> 0, priming |-> TRUE]
  /\ pump = [reported |-> 0, sent |-> 0, next |-> 1]
  /\ chunks = <<>> /\ reports = <<>>
  /\ worklet = [ring |-> [i \in 0 .. Capacity - 1 |-> 0], read |-> 0, len |-> 0,
                pushed |-> 0, quanta |-> 0]

-----------------------------------------------------------------------------
(* The page *)

\* port.postMessage(), and its trace in the estimate.
Posted(p, n) == [p EXCEPT !.sent = @ + n, !.next = @ + n]

\* adopt_session(): a new stream, primed with silence.
Adopted ==
  /\ pump.next + Prime <= MaxFrames + 1
  /\ source' = [playing |-> TRUE, queued |-> 0, priming |-> TRUE]
  /\ pump' = Posted(pump, Prime)
  /\ chunks' = Append(chunks, [first |-> pump.next, length |-> Prime])
  /\ UNCHANGED <<reports, worklet>>

\* Pause and its end; a paused machine emulates nothing.
Pauses ==
  /\ source' = [source EXCEPT !.playing = ~@]
  /\ UNCHANGED <<pump, chunks, reports, worklet>>

\* A tick of the machine, within the bound.
Emulates ==
  /\ source.playing /\ source.queued <= Discard * CoreTarget
  /\ source' = [source EXCEPT !.queued = @ + 1]
  /\ UNCHANGED <<pump, chunks, reports, worklet>>

\* LinkStream::fill(): a deep backlog is cut down to the target, and after a
\* stall nothing is given until the target is reached.  The silence given while
\* no stream is bound is left out.
Filled(frames) ==
  LET kept   == IF source.queued > Discard * CoreTarget THEN CoreTarget ELSE source.queued
      n      == Least(kept, frames)
  IN  IF ~source.playing THEN [n |-> 0, source |-> [source EXCEPT !.priming = TRUE]]
      ELSE IF source.priming /\ kept < CoreTarget
        THEN [n |-> 0, source |-> [source EXCEPT !.queued = kept]]
        ELSE [n |-> n, source |-> [source EXCEPT !.queued = kept - n, !.priming = n < frames]]

\* WebAudio::pump() with this much reported and sent since.
Tops(p) ==
  LET estimate == p.reported + p.sent
      filled   == Filled(SinkTarget - estimate)
  IN  IF estimate + MinChunk > SinkTarget
        THEN pump' = p /\ UNCHANGED <<source, chunks>>
        ELSE /\ p.next + filled.n <= MaxFrames + 1
             /\ source' = filled.source
             /\ pump' = Posted(p, filled.n)
             /\ chunks' = IF filled.n = 0 THEN chunks
                          ELSE Append(chunks, [first |-> p.next, length |-> filled.n])

\* A pump from an animation frame.
Pumps == Tops(pump) /\ UNCHANGED <<reports, worklet>>

\* A report, which pumps too.
Reported ==
  /\ reports # <<>>
  /\ Tops([pump EXCEPT !.reported = Head(reports), !.sent = 0])
  /\ reports' = Tail(reports)
  /\ UNCHANGED worklet

-----------------------------------------------------------------------------
(* The worklet *)

\* Mutant: what overflows is not skipped when reading.
Skipped(w, overflow) == [w EXCEPT !.len = @ - overflow]

\* The oldest frames go.
Dropped(w, overflow) ==
  [w EXCEPT !.read = (@ + overflow) % Capacity, !.len = @ - overflow]

\* push() of the frames from..from+n-1.
PushedTo(w, from, n) ==
  LET room  == Dropped(w, IF w.len + n > Capacity THEN w.len + n - Capacity ELSE 0)
      write == (room.read + room.len) % Capacity
  IN  [room EXCEPT !.ring = [i \in 0 .. Capacity - 1 |->
                               LET k == (i - write) % Capacity
                               IN  IF k < n THEN from + k ELSE @[i]],
                   !.len = @ + n, !.pushed = from + n - 1]

\* The shell's push(): slices of what a push can take.
Slices(c) == (c.length + PushCapacity - 1) \div PushCapacity

Slice(w, c, s) ==
  LET from == (s - 1) * PushCapacity
  IN  PushedTo(w, c.first + from, Least(PushCapacity, c.length - from))

AllPushed(w, c) ==
  LET after[s \in 0 .. Slices(c)] == IF s = 0 THEN w ELSE Slice(after[s - 1], c, s)
  IN  after[Slices(c)]

ChunkArrives ==
  /\ chunks # <<>>
  /\ worklet' = AllPushed(worklet, Head(chunks))
  /\ chunks' = Tail(chunks)
  /\ UNCHANGED <<source, pump, reports>>

\* process(): render(), which pads with silence, and every few quanta a report.
Renders ==
  /\ Len(reports) < MaxReports
  /\ LET n        == Least(Quantum, worklet.len)
         due      == worklet.quanta + 1 >= ReportEvery
     IN  /\ worklet' = [worklet EXCEPT !.read = (@ + n) % Capacity, !.len = @ - n,
                                       !.quanta = IF due THEN 0 ELSE @ + 1]
         /\ reports' = IF due THEN Append(reports, worklet.len - n) ELSE reports
  /\ UNCHANGED <<source, pump, chunks>>

-----------------------------------------------------------------------------
SinkNext ==
  \/ Adopted \/ Pauses \/ Emulates \/ Pumps \/ Reported \/ ChunkArrives \/ Renders

SinkSpec == SinkInit /\ [][SinkNext]_sinkVars

-----------------------------------------------------------------------------
(* Properties *)

\* The frames in the ring are the last ones pushed, in order and without a gap.
Fifo(w) ==
  \A i \in 0 .. w.len - 1 :
    w.ring[(w.read + i) % Capacity] = w.pushed - w.len + 1 + i

\* What the ring will render next are the newest frames it was sent, in order
\* and without a gap, however reports and chunks crossed, chunks were sliced and
\* old frames were dropped.
RingIsFifo == worklet.len \in 0 .. Capacity /\ Fifo(worklet)
=============================================================================
