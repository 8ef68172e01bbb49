------------------------------ MODULE Playback ------------------------------
(***************************************************************************)
(* Replay playback (gbaroll/src/session/playback/, platform/audio/         *)
(* replay.rs): one emulated link behind a mutex, advanced by a drive       *)
(* thread and moved about by a seek worker, a prefetch thread that fills   *)
(* the keyframe store from a link of its own, the audio callback, and the  *)
(* UI that seeks, pauses and shuts down.                                   *)
(*                                                                         *)
(* An action is what a thread does between two points at which another     *)
(* could see or change something it uses.  A tick is its number, a         *)
(* snapshot the tick it was taken at.  Queued sound is only told apart by  *)
(* whether it was emulated before the newest landing, the generation of    *)
(* the queue by whether the producer has the newest one.  Pictures and     *)
(* pacing are left out.                                                    *)
(***************************************************************************)
EXTENDS Integers, FiniteSets

CONSTANTS
  Total,       \* the recorded ticks
  Target,      \* the ticks that seeks ask for, which may lie beyond the end
  Interval,    \* SnapshotStore.interval
  Every,       \* REWIND_CAPTURE_INTERVAL
  Keep,        \* REWIND_FRAMES + keyframe_interval + 1
  MaxEntries,  \* RewindRingInner.max_entries
  MaxActs      \* bound: what the user does: seeks, pauses, changes of view or
               \* speed, the end

ASSUME PlaybackAssumption ==
  /\ Total \in Nat /\ Keep \in Nat /\ Target \subseteq Nat
  /\ Interval \in Nat \ {0} /\ Every \in Nat \ {0} /\ MaxEntries \in Nat \ {0}
ASSUME LimitsAssumption == MaxActs \in Nat

VARIABLES
  link,     \* [up, cursor, lock]: SharedPlayback, its playhead, who holds its mutex
  store,    \* the keyframes
  ring,     \* [at, anchor]: the rewind samples and the anchor
  ctl,      \* SeekController: target, dirty, chasing, resume, cancel
  wake,     \* wake_mutex: free, or held by the worker
  worker,   \* the seek worker: pc, target of its pass, whether the target was captured
  drive,    \* the drive thread: pc, was_paused, discard_source, the batch resampled
  prefetch, \* the prefetch thread: pc, tick
  ui,       \* the UI thread: pc, and the request it is making
  session,  \* SharedSession: paused, quit
  sound,    \* core: buffered in the emulated cores, queue: published, current: the
            \* producer has the queue's generation, known: who has seen the newest
            \* view and speed, silent: the callback's flag
  left      \* what the user may still do

vars == <<link, store, ring, ctl, wake, worker, drive, prefetch, ui, session,
          sound, left>>

Tick == 0 .. Total
Sound == {"now", "before"}
Free == "free"

-----------------------------------------------------------------------------
(* Types *)

LinkType == [up : BOOLEAN, cursor : Tick, lock : {Free, "drive", "worker"}]
RingType == {r \in [at : SUBSET Tick, anchor : Tick \cup Target] :
               Cardinality(r.at) <= MaxEntries}
CtlType == [target : Target \cup {0}, dirty : BOOLEAN, chasing : BOOLEAN,
            resume : BOOLEAN, cancel : BOOLEAN]
WorkerType ==
  [pc : {"check", "waiting", "asleep", "begin", "take", "read", "lock", "chase",
         "landed", "resume", "done"},
   goal : Target \cup {0}]
DriveType == [pc : {"boot", "top", "lock", "publish", "push", "done"},
              wasPaused : BOOLEAN, discard : BOOLEAN, batch : SUBSET Sound]
PrefetchType ==
  {p \in [pc : {"boot", "run", "done"}, tick : Tick \cup {-1}] :
     p.pc = "run" => p.tick \in Tick \ {Total}}
UiType == [pc : {"idle", "target", "dirty", "notify"}, target : Target \cup {0},
           resume : BOOLEAN]
SessionType == [paused : BOOLEAN, quit : BOOLEAN]
SoundType == [core : SUBSET Sound, queue : SUBSET Sound, current : BOOLEAN,
              known : SUBSET {"producer", "stream"}, silent : BOOLEAN]

-----------------------------------------------------------------------------
(* Snapshots *)

Dist(a, b) == IF a >= b THEN a - b ELSE b - a
Larger(a, b) == IF a >= b THEN a ELSE b
Newest(S) == CHOOSE k \in S : \A j \in S : j <= k
Oldest(S) == CHOOSE k \in S : \A j \in S : k <= j

\* Mutant: the bound is included.
SnapshotNeededLate(S, t) == ~\E k \in S : Larger(t - Interval, 0) <= k /\ k <= t

\* snapshot_needed(): no keyframe in the interval that ends at the tick, whose
\* lower bound is excluded.
SnapshotNeeded(S, t) == ~\E k \in S : Larger(t - Interval, 0) < k /\ k <= t

\* Mutant: the oldest always goes.
EvictedOldest(S, anchor) == S \ {Oldest(S)}

\* Of the two ends of the ring, the one farther from the anchor goes.
Evicted(S, anchor) ==
  S \ {IF Dist(Oldest(S), anchor) >= Dist(Newest(S), anchor)
         THEN Oldest(S) ELSE Newest(S)}

\* RewindRing::insert: the ring holds no more than it may before, so the loop
\* evicts at most once.
Inserted(r, t) ==
  LET anchor == Larger(r.anchor, t)
      kept == {k \in r.at \cup {t} : k >= anchor - Keep}
  IN  [at |-> IF Cardinality(kept) > MaxEntries THEN Evicted(kept, anchor) ELSE kept,
       anchor |-> anchor]

\* What a tick's captures leave in store and ring.
Captures(t, sampled) ==
  /\ store' = IF SnapshotNeeded(store, t) THEN store \cup {t} ELSE store
  /\ ring' = IF sampled THEN Inserted(ring, t) ELSE ring

\* What a pass may start from instead of the playhead: best_at_or_before and
\* best_in_range over ring and store.
Bases(from, to) ==
  {k \in ring.at \cup store : k <= to /\ (from <= to => from < k)}

-----------------------------------------------------------------------------
(* Sound *)

\* ReplayAudioQueue::reset: nothing is queued, and what was resampled for the
\* old generation will be refused.
Reset == [sound EXCEPT !.queue = {}, !.current = FALSE]

\* At a landing whatever was emulated so far is from before it.
Aged(S) == IF S = {} THEN {} ELSE {"before"}

-----------------------------------------------------------------------------
Init ==
  /\ link = [up |-> FALSE, cursor |-> 0, lock |-> Free]
  /\ store = {}
  /\ ring = [at |-> {}, anchor |-> 0]
  /\ ctl = [target |-> 0, dirty |-> FALSE, chasing |-> FALSE, resume |-> FALSE,
            cancel |-> FALSE]
  /\ wake = Free
  /\ worker = [pc |-> "check", goal |-> 0]
  /\ drive = [pc |-> "boot", wasPaused |-> FALSE, discard |-> TRUE, batch |-> {}]
  /\ prefetch = [pc |-> "boot", tick |-> -1]
  /\ ui = [pc |-> "idle", target |-> 0, resume |-> FALSE]
  /\ session = [paused |-> FALSE, quit |-> FALSE]
  /\ sound = [core |-> {}, queue |-> {}, current |-> TRUE, known |-> {"stream"},
              silent |-> TRUE]
  /\ left = MaxActs

-----------------------------------------------------------------------------
(* The UI *)

\* A seek resumes afterwards only if it found playback paused (a scrub drag).
\* request(): target and resume flag are stored, then the dirty flag, then the
\* worker is woken.
Ask ==
  /\ ui.pc = "idle" /\ ~session.quit /\ left > 0
  /\ \E t \in Target, r \in {FALSE, session.paused} :
       ui' = [pc |-> "target", target |-> t, resume |-> r]
  /\ left' = left - 1
  /\ UNCHANGED <<link, store, ring, ctl, wake, worker, drive, prefetch, session, sound>>

StoreTarget ==
  /\ ui.pc = "target"
  /\ ctl' = [ctl EXCEPT !.target = ui.target, !.resume = ui.resume]
  /\ ui' = [ui EXCEPT !.pc = "dirty"]
  /\ UNCHANGED <<link, store, ring, wake, worker, drive, prefetch, session, sound, left>>

StoreDirty ==
  /\ ui.pc = "dirty"
  /\ ctl' = [ctl EXCEPT !.dirty = TRUE]
  /\ ui' = [ui EXCEPT !.pc = "notify"]
  /\ UNCHANGED <<link, store, ring, wake, worker, drive, prefetch, session, sound, left>>

\* Mutant: notified without the mutex.
NotifyUnheld ==
  /\ ui.pc = "notify"
  /\ worker' = [worker EXCEPT !.pc = IF @ = "asleep" THEN "check" ELSE @]
  /\ ui' = [ui EXCEPT !.pc = "idle"]
  /\ UNCHANGED <<link, store, ring, ctl, wake, drive, prefetch, session, sound, left>>

\* The end of request() and of shutdown(), under the wake mutex.
Notify ==
  /\ ui.pc = "notify" /\ wake = Free
  /\ worker' = [worker EXCEPT !.pc = IF @ = "asleep" THEN "check" ELSE @]
  /\ ui' = [ui EXCEPT !.pc = "idle"]
  /\ UNCHANGED <<link, store, ring, ctl, wake, drive, prefetch, session, sound, left>>

\* clear_resume(): the seek lands, and playback stays paused.
WithdrawResume ==
  /\ ui.pc = "idle" /\ ctl.resume /\ left > 0
  /\ ctl' = [ctl EXCEPT !.resume = FALSE]
  /\ left' = left - 1
  /\ UNCHANGED <<link, store, ring, wake, worker, drive, prefetch, ui, session, sound>>

TogglePause ==
  /\ ui.pc = "idle" /\ left > 0
  /\ session' = [session EXCEPT !.paused = ~@]
  /\ left' = left - 1
  /\ UNCHANGED <<link, store, ring, ctl, wake, worker, drive, prefetch, ui, sound>>

\* Another player's view, or another speed: producer and callback will notice.
ChangeView ==
  /\ ui.pc = "idle" /\ left > 0
  /\ sound' = [sound EXCEPT !.known = {}]
  /\ left' = left - 1
  /\ UNCHANGED <<link, store, ring, ctl, wake, worker, drive, prefetch, ui, session>>

\* Mutant: the worker is not woken.
ShutdownUnheard ==
  /\ ui.pc = "idle" /\ ~session.quit /\ left > 0
  /\ left' = left - 1
  /\ session' = [session EXCEPT !.quit = TRUE]
  /\ ctl' = [ctl EXCEPT !.cancel = TRUE]
  /\ UNCHANGED <<link, store, ring, wake, worker, drive, prefetch, ui, sound>>

\* The session is told to quit, and pre_join runs: prefetch_cancel, then
\* shutdown().
Shutdown ==
  /\ ui.pc = "idle" /\ ~session.quit /\ left > 0
  /\ left' = left - 1
  /\ session' = [session EXCEPT !.quit = TRUE]
  /\ ctl' = [ctl EXCEPT !.cancel = TRUE]
  /\ ui' = [ui EXCEPT !.pc = "notify"]
  /\ UNCHANGED <<link, store, ring, wake, worker, drive, prefetch, sound>>

-----------------------------------------------------------------------------
(* The seek worker *)

\* wait_for_request() with the wake mutex: shut down, a request, or about to
\* wait.
Check ==
  /\ worker.pc = "check" /\ wake = Free
  /\ \/ /\ ctl.cancel
        /\ worker' = [worker EXCEPT !.pc = "done"]
        /\ UNCHANGED wake
     \/ /\ ~ctl.cancel /\ ctl.dirty
        /\ worker' = [worker EXCEPT !.pc = "begin"]
        /\ UNCHANGED wake
     \/ /\ ~ctl.cancel /\ ~ctl.dirty
        /\ worker' = [worker EXCEPT !.pc = "waiting"]
        /\ wake' = "worker"
  /\ UNCHANGED <<link, store, ring, ctl, drive, prefetch, ui, session, sound, left>>

\* Condvar::wait: the mutex is released and the worker asleep, at once.
Sleep ==
  /\ worker.pc = "waiting"
  /\ worker' = [worker EXCEPT !.pc = "asleep"]
  /\ wake' = Free
  /\ UNCHANGED <<link, store, ring, ctl, drive, prefetch, ui, session, sound, left>>

BeginPass ==
  /\ worker.pc = "begin"
  /\ ctl' = [ctl EXCEPT !.chasing = TRUE]
  /\ sound' = Reset
  /\ worker' = [worker EXCEPT !.pc = "take"]
  /\ UNCHANGED <<link, store, ring, wake, drive, prefetch, ui, session, left>>

\* Mutant: the target is read first.
TakeTargetFirst ==
  \/ /\ worker.pc = "take"
     /\ worker' = [worker EXCEPT !.pc = "read", !.goal = ctl.target]
     /\ UNCHANGED <<ctl, ring>>
  \/ /\ worker.pc = "read"
     /\ ctl' = [ctl EXCEPT !.dirty = FALSE]
     /\ ring' = [ring EXCEPT !.anchor = worker.goal]
     /\ worker' = [worker EXCEPT !.pc = "lock"]

\* take_target(), which clears the flag before it reads, then set_anchor().
TakeTarget ==
  \/ /\ worker.pc = "take"
     /\ ctl' = [ctl EXCEPT !.dirty = FALSE]
     /\ worker' = [worker EXCEPT !.pc = "read"]
     /\ UNCHANGED ring
  \/ /\ worker.pc = "read"
     /\ ring' = [ring EXCEPT !.anchor = ctl.target]
     /\ worker' = [worker EXCEPT !.pc = "lock", !.goal = ctl.target]
     /\ UNCHANGED ctl

Take ==
  /\ TakeTarget
  /\ UNCHANGED <<link, store, wake, drive, prefetch, ui, session, sound, left>>

\* Still booting, or a seek back with nothing to start from: the request is
\* dropped.
DropRequest ==
  /\ worker.pc = "lock" /\ link.lock = Free
  /\ ~link.up \/ (worker.goal < link.cursor /\ Bases(link.cursor, worker.goal) = {})
  /\ worker' = [worker EXCEPT !.pc = "landed"]
  /\ UNCHANGED <<link, store, ring, ctl, wake, drive, prefetch, ui, session, sound, left>>

\* The best snapshot is loaded; the link stays locked unless it is the target.
\* That a snapshot does not load, which drops the request, is left out.
LoadBase ==
  /\ worker.pc = "lock" /\ link.lock = Free /\ link.up
  /\ LET bases == Bases(link.cursor, worker.goal)
         base  == Newest(bases)
     IN  /\ bases # {}
         /\ ring' = Inserted(ring, base)
         /\ link' = [link EXCEPT !.cursor = base,
                                 !.lock = IF base >= worker.goal THEN Free ELSE "worker"]
         /\ worker' = [worker EXCEPT !.pc = IF base >= worker.goal THEN "landed" ELSE "chase"]
  /\ UNCHANGED <<store, ctl, wake, drive, prefetch, ui, session, sound, left>>

\* Nothing between the playhead and the target is nearer than the playhead.
StartHere ==
  /\ worker.pc = "lock" /\ link.lock = Free /\ link.up
  /\ worker.goal >= link.cursor /\ Bases(link.cursor, worker.goal) = {}
  /\ link' = [link EXCEPT !.lock = "worker"]
  /\ worker' = [worker EXCEPT !.pc = "chase"]
  /\ UNCHANGED <<store, ring, ctl, wake, drive, prefetch, ui, session, sound, left>>

Chasing == worker.pc = "chase" /\ link.cursor < worker.goal

\* Shut down in mid-chase.
AbandonChase ==
  /\ Chasing /\ ctl.cancel
  /\ ctl' = [ctl EXCEPT !.chasing = FALSE]
  /\ link' = [link EXCEPT !.lock = Free]
  /\ worker' = [worker EXCEPT !.pc = "done"]
  /\ UNCHANGED <<store, ring, wake, drive, prefetch, ui, session, sound, left>>

\* A newer request supersedes the chase; the cores keep the sound of what it
\* has emulated.
Supersede ==
  /\ Chasing /\ ~ctl.cancel /\ ctl.dirty
  /\ link' = [link EXCEPT !.lock = Free]
  /\ worker' = [worker EXCEPT !.pc = "take"]
  /\ UNCHANGED <<store, ring, ctl, wake, drive, prefetch, ui, session, sound, left>>

CatchUp ==
  /\ Chasing /\ ~ctl.cancel /\ ~ctl.dirty /\ link.cursor < Total
  /\ LET t == link.cursor + 1
     IN  /\ link' = [link EXCEPT !.cursor = t]
         /\ Captures(t, t % Every = 0 \/ t = worker.goal)
  /\ sound' = [sound EXCEPT !.core = @ \cup {"now"}]
  /\ UNCHANGED <<ctl, wake, worker, drive, prefetch, ui, session, left>>

\* At the target, or at the end of the stream: the cores' sound is purged.
EndChase ==
  /\ worker.pc = "chase"
  /\ link.cursor >= worker.goal \/ (link.cursor = Total /\ ~ctl.cancel /\ ~ctl.dirty)
  /\ sound' = [sound EXCEPT !.core = {}]
  /\ link' = [link EXCEPT !.lock = Free]
  /\ worker' = [worker EXCEPT !.pc = "landed"]
  /\ UNCHANGED <<store, ring, ctl, wake, drive, prefetch, ui, session, left>>

\* Mutant: the landing resets nothing.
AfterLanding == sound

\* The second on_audio_reset, and end_pass().
AtLanding == Reset

EndPass ==
  /\ worker.pc = "landed"
  /\ sound' = [AtLanding EXCEPT !.core = Aged(@), !.queue = Aged(@)]
  /\ drive' = [drive EXCEPT !.batch = Aged(@)]
  /\ ctl' = [ctl EXCEPT !.chasing = FALSE]
  /\ worker' = [worker EXCEPT !.pc = "resume"]
  /\ UNCHANGED <<link, store, ring, wake, prefetch, ui, session, left>>

\* A pending resume is taken, unless another request has come in.
Resume ==
  /\ worker.pc = "resume"
  /\ IF ~ctl.dirty /\ ctl.resume
       THEN /\ ctl' = [ctl EXCEPT !.resume = FALSE]
            /\ session' = [session EXCEPT !.paused = FALSE]
       ELSE UNCHANGED <<ctl, session>>
  /\ worker' = [worker EXCEPT !.pc = "check"]
  /\ UNCHANGED <<link, store, ring, wake, drive, prefetch, ui, sound, left>>

Work ==
  \/ Check \/ Sleep \/ BeginPass \/ Take \/ DropRequest \/ LoadBase \/ StartHere
  \/ AbandonChase \/ Supersede \/ CatchUp \/ EndChase \/ EndPass \/ Resume

-----------------------------------------------------------------------------
(* The drive thread *)

\* The link boots, or the thread ends without one.
Boot ==
  /\ drive.pc = "boot" /\ link.lock = Free
  /\ \/ /\ link' = [link EXCEPT !.up = TRUE]
        /\ drive' = [drive EXCEPT !.pc = "top"]
     \/ /\ drive' = [drive EXCEPT !.pc = "done"]
        /\ UNCHANGED link
  /\ UNCHANGED <<store, ring, ctl, wake, worker, prefetch, ui, session, sound, left>>

DriveQuits ==
  /\ drive.pc = "top" /\ session.quit
  /\ drive' = [drive EXCEPT !.pc = "done"]
  /\ UNCHANGED <<link, store, ring, ctl, wake, worker, prefetch, ui, session, sound, left>>

\* The loop's turn on either edge of a pause resets the producer.
PauseEdge ==
  /\ drive.pc = "top" /\ ~session.quit /\ session.paused # drive.wasPaused
  /\ sound' = [sound EXCEPT !.queue = {}, !.current = TRUE]
  /\ drive' = [drive EXCEPT !.wasPaused = session.paused, !.discard = TRUE,
                            !.pc = IF session.paused THEN "top" ELSE "lock"]
  /\ UNCHANGED <<link, store, ring, ctl, wake, worker, prefetch, ui, session, left>>

DriveOn ==
  /\ drive.pc = "top" /\ ~session.quit /\ ~session.paused /\ ~drive.wasPaused
  /\ drive' = [drive EXCEPT !.pc = "lock"]
  /\ UNCHANGED <<link, store, ring, ctl, wake, worker, prefetch, ui, session, sound, left>>

\* With the link locked: at the end it pauses, else one tick is emulated.
AtEnd ==
  /\ drive.pc = "lock" /\ link.lock = Free /\ link.cursor >= Total
  /\ session' = [session EXCEPT !.paused = TRUE]
  /\ drive' = [drive EXCEPT !.pc = "top"]
  /\ UNCHANGED <<link, store, ring, ctl, wake, worker, prefetch, ui, sound, left>>

Step ==
  /\ drive.pc = "lock" /\ link.lock = Free /\ link.cursor < Total
  /\ link' = [link EXCEPT !.cursor = @ + 1, !.lock = "drive"]
  /\ sound' = [sound EXCEPT !.core = @ \cup {"now"}]
  /\ drive' = [drive EXCEPT !.pc = "publish"]
  /\ UNCHANGED <<store, ring, ctl, wake, worker, prefetch, ui, session, left>>

\* publish() up to its push.  A new view or speed resets the queue; a reset by
\* somebody else is taken over; after either what the cores hold is discarded.
Publish ==
  /\ drive.pc = "publish"
  /\ LET changed == "producer" \notin sound.known
         discard == changed \/ ~sound.current \/ drive.discard
     IN  /\ sound' = [sound EXCEPT !.known = @ \cup {"producer"}, !.current = TRUE,
                                   !.queue = IF changed THEN {} ELSE @, !.core = {}]
         /\ drive' = [drive EXCEPT !.discard = FALSE,
                                   !.batch = IF discard THEN {} ELSE sound.core,
                                   !.pc = "push"]
  /\ UNCHANGED <<link, store, ring, ctl, wake, worker, prefetch, ui, session, left>>

\* ReplayAudioQueue::push refuses a batch of an older generation.
Pushed == IF sound.current THEN [sound EXCEPT !.queue = @ \cup drive.batch] ELSE sound

\* The batch is pushed, the tick captured, and the link unlocked.
Finish ==
  /\ drive.pc = "push"
  /\ sound' = Pushed
  /\ Captures(link.cursor, link.cursor % Every = 0)
  /\ link' = [link EXCEPT !.lock = Free]
  /\ drive' = [drive EXCEPT !.batch = {}, !.pc = "top"]
  /\ UNCHANGED <<ctl, wake, worker, prefetch, ui, session, left>>

Drive ==
  \/ Boot \/ DriveQuits \/ PauseEdge \/ DriveOn \/ AtEnd \/ Step \/ Publish \/ Finish

-----------------------------------------------------------------------------
(* The prefetch thread and the audio callback *)

PrefetchBoot ==
  /\ prefetch.pc = "boot"
  /\ \/ /\ prefetch' = [pc |-> IF Total = 0 THEN "done" ELSE "run", tick |-> 0]
        /\ store' = store \cup {0}
     \/ /\ prefetch' = [prefetch EXCEPT !.pc = "done"]
        /\ UNCHANGED store
  /\ UNCHANGED <<link, ring, ctl, wake, worker, drive, ui, session, sound, left>>

\* prefetch_cancel is set by pre_join together with the seek's.
PrefetchCancelled ==
  /\ prefetch.pc = "run" /\ ctl.cancel
  /\ prefetch' = [prefetch EXCEPT !.pc = "done"]
  /\ UNCHANGED <<link, store, ring, ctl, wake, worker, drive, ui, session, sound, left>>

PrefetchTick ==
  /\ prefetch.pc = "run" /\ ~ctl.cancel
  /\ LET t == prefetch.tick + 1
     IN  /\ prefetch' = [pc |-> IF t < Total THEN "run" ELSE "done", tick |-> t]
         /\ store' = IF SnapshotNeeded(store, t) THEN store \cup {t} ELSE store
  /\ UNCHANGED <<link, ring, ctl, wake, worker, drive, ui, session, sound, left>>

Prefetch == PrefetchBoot \/ PrefetchCancelled \/ PrefetchTick

\* ReplayStream::fill after a change of view or speed.
StreamFollows ==
  /\ "stream" \notin sound.known
  /\ sound' = [Reset EXCEPT !.known = @ \cup {"stream"}]
  /\ UNCHANGED <<link, store, ring, ctl, wake, worker, drive, prefetch, ui, session, left>>

\* The first fill of a pause.
StreamMutes ==
  /\ "stream" \in sound.known /\ session.paused /\ ~sound.silent
  /\ sound' = [Reset EXCEPT !.silent = TRUE]
  /\ UNCHANGED <<link, store, ring, ctl, wake, worker, drive, prefetch, ui, session, left>>

\* A fill that plays: some of what is queued, or all of it.
StreamPlays ==
  /\ "stream" \in sound.known /\ ~session.paused /\ (sound.silent \/ sound.queue # {})
  /\ \E rest \in SUBSET sound.queue :
       sound' = [sound EXCEPT !.silent = FALSE, !.queue = rest]
  /\ UNCHANGED <<link, store, ring, ctl, wake, worker, drive, prefetch, ui, session, left>>

-----------------------------------------------------------------------------
Request == StoreTarget \/ StoreDirty \/ Notify

User == Ask \/ WithdrawResume \/ TogglePause \/ ChangeView \/ Shutdown

Next ==
  \/ User \/ Request \/ Work \/ Drive \/ Prefetch
  \/ StreamFollows \/ StreamMutes \/ StreamPlays

\* The threads run; the user need do nothing.
Fairness ==
  /\ WF_vars(Request) /\ WF_vars(Work) /\ WF_vars(Drive) /\ WF_vars(Prefetch)

Spec == Init /\ [][Next]_vars /\ Fairness

-----------------------------------------------------------------------------
(* Properties *)

\* Ticks are recorded ticks or targets, and the ring keeps its bound.
PlaybackTypeOK ==
  /\ link \in LinkType /\ ring \in RingType /\ ctl \in CtlType /\ session \in SessionType
  /\ worker \in WorkerType /\ drive \in DriveType /\ prefetch \in PrefetchType
  /\ ui \in UiType /\ sound \in SoundType
  /\ store \subseteq Tick /\ wake \in {Free, "worker"} /\ left \in 0 .. MaxActs

\* A seek into what the prefetch has covered emulates less than a keyframe
\* interval, whichever threads filled the store and in whatever order, and
\* wherever the playhead has gone meanwhile.
CatchUpBounded ==
  [][(Chasing' /\ worker.pc = "lock" /\ worker.goal <= prefetch.tick)
       => worker.goal - link'.cursor < Interval]_vars

\* The sample of the landing stays in the ring, though others must go: the next
\* step back or forth starts from it.  This is of a chase that lands where the
\* ring's anchor is: between set_anchor and the lock of the link the drive thread
\* may raise the anchor, and nothing is said of a landing after that.
LandingKept ==
  [][(worker.pc = "chase" /\ link'.cursor = worker.goal /\ link.cursor # worker.goal
        /\ ring.anchor = worker.goal)
       => worker.goal \in ring'.at]_vars

\* The newest request wins: once none is pending the worker's pass is, or was,
\* for the target requested last.
NewestSeekWins ==
  (ui.pc = "idle" /\ ~ctl.dirty /\ worker.pc # "read") =>
    worker.goal = ctl.target

\* Nothing emulated before a landing is queued after it, though the drive
\* thread may be publishing meanwhile.
AudioFresh == "before" \notin sound.queue

\* Every request is served: the worker does not sleep through it, and a resume
\* that came with it is not left behind.
SeekServed ==
  (ctl.dirty \/ ctl.chasing) ~>
    (session.quit \/ (~ctl.dirty /\ ~ctl.chasing /\ ~ctl.resume))

\* Shutting down ends every thread, asleep or in mid-chase.
ThreadsEnd ==
  session.quit ~> (worker.pc = "done" /\ drive.pc = "done" /\ prefetch.pc = "done")
=============================================================================
