--------------------------- MODULE PlaybackProofs ---------------------------
(***************************************************************************)
(* Proofs about replay playback, for every length of the recording, every  *)
(* set of targets, every keyframe interval and every capacity of the ring, *)
(* and however often the user seeks, pauses or changes the view.           *)
(***************************************************************************)
EXTENDS Playback, FiniteSetTheorems, WellFoundedInduction, TLAPS

-----------------------------------------------------------------------------
(* Ticks *)

LEMMA TickFacts ==
  /\ Tick \subseteq Nat
  /\ IsFiniteSet(Tick)
  BY PlaybackAssumption, FS_Interval DEF Tick

LEMMA TargetFacts == \A t \in Target \cup {0} : t \in Nat
  BY PlaybackAssumption

\* The oldest of some snapshots.
LEMMA OldestExists ==
  ASSUME NEW S, S \subseteq Nat, S # {}
  PROVE  Oldest(S) \in S /\ \A j \in S : Oldest(S) <= j
<1>1. \E x \in S : \A y \in S : ~(<<y, x>> \in OpToRel(<, Nat))
  BY NatLessThanWellFounded, WFMin
<1>2. ASSUME NEW x \in Nat, NEW y \in Nat, y < x
      PROVE  <<y, x>> \in OpToRel(<, Nat)
  <2> DEFINE pair == <<y, x>>
  <2>1. pair \in Nat \X Nat /\ pair[1] = y /\ pair[2] = x
    OBVIOUS
  <2> HIDE DEF pair
  <2>2. pair \in OpToRel(<, Nat)
    BY <1>2, <2>1 DEF OpToRel
  <2> QED
    BY <2>2 DEF pair
<1>3. \E x \in S : \A y \in S : x <= y
  <2>1. PICK x \in S : \A y \in S : ~(<<y, x>> \in OpToRel(<, Nat))
    BY <1>1
  <2>2. \A y \in S : ~(y < x)
    BY <1>2, <2>1
  <2>3. \A y \in S : x <= y
    BY <2>2
  <2> QED
    BY <2>3
<1> QED
  BY <1>3 DEF Oldest

\* The newest of some snapshots: the least distance from the end.
LEMMA NewestExists ==
  ASSUME NEW S, S \subseteq Tick, S # {}
  PROVE  Newest(S) \in S /\ \A j \in S : j <= Newest(S)
<1> DEFINE rest == {Total - k : k \in S}
<1>1. \A k \in S : k \in Nat /\ k <= Total
  BY PlaybackAssumption DEF Tick
<1>2. rest \subseteq Nat /\ rest # {}
  BY <1>1, PlaybackAssumption
<1>3. \E x \in rest : \A y \in rest : x <= y
  <2> HIDE DEF rest
  <2> QED
    BY <1>2, OldestExists
<1>4. \E x \in S : \A y \in S : y <= x
  <2>1. PICK k \in S : \A y \in rest : Total - k <= y
    BY <1>3
  <2>2. \A j \in S : Total - k <= Total - j
    BY <2>1
  <2> QED
    BY <1>1, <2>2, PlaybackAssumption
<1> QED
  BY <1>4 DEF Newest

-----------------------------------------------------------------------------
(* The rewind ring *)

\* Inserting a sample keeps the type of the ring and its bound.
LEMMA InsertedType ==
  ASSUME NEW t \in Tick, ring \in RingType
  PROVE  Inserted(ring, t) \in RingType
<1> DEFINE anchor == Larger(ring.anchor, t)
           all    == ring.at \cup {t}
           kept   == {k \in all : k >= anchor - Keep}
<1>1. Inserted(ring, t) =
        [at |-> IF Cardinality(kept) > MaxEntries THEN Evicted(kept, anchor) ELSE kept,
         anchor |-> anchor]
  BY DEF Inserted
<1>0. ring.at \subseteq Tick /\ ring.anchor \in Tick \cup Target
        /\ Cardinality(ring.at) <= MaxEntries
  BY DEF RingType
<1>2. anchor \in Tick \cup Target
  BY <1>0 DEF Larger
<1>3. kept \subseteq Tick
  BY <1>0
<1>4. IsFiniteSet(ring.at) /\ IsFiniteSet(all) /\ IsFiniteSet(kept)
  BY <1>0, TickFacts, FS_Subset
<1>5. Cardinality(kept) <= MaxEntries + 1
  <2>1. Cardinality(ring.at) \in Nat /\ Cardinality(all) \in Nat /\ Cardinality(kept) \in Nat
    BY <1>4, FS_CardinalityType
  <2>2. Cardinality(all) <= Cardinality(ring.at) + 1
    BY <1>4, <2>1, FS_AddElement
  <2>3. Cardinality(kept) <= Cardinality(all)
    BY <1>4, FS_Subset
  <2> QED
    BY <1>0, <2>1, <2>2, <2>3, PlaybackAssumption
<1>6. ASSUME Cardinality(kept) > MaxEntries
      PROVE  Evicted(kept, anchor) \subseteq Tick /\ Cardinality(Evicted(kept, anchor)) <= MaxEntries
  <2> HIDE DEF kept, anchor, all
  <2>1. kept # {}
    BY <1>6, FS_EmptySet, PlaybackAssumption
  <2>2. Oldest(kept) \in kept /\ Newest(kept) \in kept
    BY <1>3, <2>1, TickFacts, OldestExists, NewestExists
  <2>3. PICK k \in kept : Evicted(kept, anchor) = kept \ {k}
    BY <2>2 DEF Evicted
  <2>4. Cardinality(kept \ {k}) = Cardinality(kept) - 1
    BY <1>4, FS_RemoveElement
  <2>5. Cardinality(kept) \in Nat
    BY <1>4, FS_CardinalityType
  <2> QED
    BY <1>3, <1>5, <2>3, <2>4, <2>5, PlaybackAssumption
<1> HIDE DEF kept, anchor, all
<1>7. Cardinality(kept) \in Nat
  BY <1>4, FS_CardinalityType
<1> QED
  BY <1>1, <1>2, <1>3, <1>6, <1>7, PlaybackAssumption DEF RingType

\* A sample at the anchor is not what goes.
LEMMA AnchorStays ==
  ASSUME NEW t \in Tick, ring.at \subseteq Tick, ring.anchor = t
  PROVE  t \in Inserted(ring, t).at
<1> DEFINE kept == {k \in ring.at \cup {t} : k >= t - Keep}
<1>1. Inserted(ring, t).at =
        IF Cardinality(kept) > MaxEntries THEN Evicted(kept, t) ELSE kept
  BY DEF Inserted, Larger
<1>2. t \in kept /\ kept \subseteq Tick
  BY TickFacts, PlaybackAssumption
<1>3. ASSUME Cardinality(kept) > MaxEntries
      PROVE  t \in Evicted(kept, t)
  <2> HIDE DEF kept
  <2>1. /\ Oldest(kept) \in kept /\ \A j \in kept : Oldest(kept) <= j
        /\ Newest(kept) \in kept /\ \A j \in kept : j <= Newest(kept)
    BY <1>2, TickFacts, OldestExists, NewestExists
  <2>2. kept # {t}
    BY <1>3, FS_Singleton, PlaybackAssumption
  <2>3. Oldest(kept) = t => Newest(kept) # t
    BY <1>2, <2>1, <2>2, TickFacts
  <2>4. Oldest(kept) \in Nat /\ Newest(kept) \in Nat /\ t \in Nat
    BY <1>2, <2>1, TickFacts
  <2>5. /\ Oldest(kept) = t => ~(Dist(Oldest(kept), t) >= Dist(Newest(kept), t))
        /\ Newest(kept) = t => Dist(Oldest(kept), t) >= Dist(Newest(kept), t)
    BY <2>1, <2>3, <2>4, <1>2 DEF Dist
  <2> QED
    BY <1>2, <2>3, <2>5 DEF Evicted
<1> QED
  BY <1>1, <1>2, <1>3

-----------------------------------------------------------------------------
(* Types *)

\* What a pass may start from are snapshots between playhead and target.
LEMMA BaseFacts ==
  ASSUME PlaybackTypeOK, NEW from \in Tick, NEW to \in Nat, Bases(from, to) # {}
  PROVE  /\ Newest(Bases(from, to)) \in Bases(from, to)
         /\ \A k \in Bases(from, to) : k <= Newest(Bases(from, to))
         /\ Newest(Bases(from, to)) \in Tick
<1>1. Bases(from, to) \subseteq Tick
  BY DEF Bases, PlaybackTypeOK, RingType
<1> QED
  BY <1>1, NewestExists

\* A tick's captures keep keyframes and samples recorded ticks.
LEMMA CapturesType ==
  ASSUME PlaybackTypeOK, NEW t \in Tick, NEW sampled \in BOOLEAN, Captures(t, sampled)
  PROVE  store' \subseteq Tick /\ ring' \in RingType
  BY InsertedType DEF Captures, PlaybackTypeOK

\* Every variable keeps its type, and the ring its bound.
THEOREM PlaybackTypes == Spec => []PlaybackTypeOK
<1>1. Init => PlaybackTypeOK
  <2> SUFFICES ASSUME Init
               PROVE  PlaybackTypeOK
    OBVIOUS
  <2> USE DEF Init
  <2>1. 0 \in Tick
    BY PlaybackAssumption DEF Tick
  <2>2. ring \in RingType
    <3>1. ring \in [at : SUBSET Tick, anchor : Tick \cup Target]
      BY <2>1
    <3>2. Cardinality(ring.at) = 0
      BY FS_EmptySet
    <3>3. Cardinality(ring.at) <= MaxEntries
      BY <3>2, PlaybackAssumption
    <3> HIDE DEF Init
    <3> QED
      BY <3>1, <3>3 DEF RingType
  <2>3. link \in LinkType /\ ctl \in CtlType /\ worker \in WorkerType
    BY <2>1 DEF LinkType, CtlType, WorkerType
  <2>4. prefetch \in PrefetchType
    BY DEF PrefetchType
  <2>5. drive \in DriveType /\ ui \in UiType /\ session \in SessionType
    BY DEF DriveType, UiType, SessionType
  <2>6. sound \in SoundType
    BY DEF SoundType
  <2> QED
    BY <2>2, <2>3, <2>4, <2>5, <2>6, LimitsAssumption DEF PlaybackTypeOK
<1>2. PlaybackTypeOK /\ [Next]_vars => PlaybackTypeOK'
  <2> SUFFICES ASSUME PlaybackTypeOK, [Next]_vars
               PROVE  PlaybackTypeOK'
    OBVIOUS
  <2> USE DEF PlaybackTypeOK
  <2>1. CASE Ask
    <3>1. ui' \in UiType
      <4>1. PICK t \in Target, r \in {FALSE, session.paused} :
              ui' = [pc |-> "target", target |-> t, resume |-> r]
        BY <2>1 DEF Ask
      <4>2. r \in BOOLEAN
        BY <4>1 DEF SessionType
      <4> QED
        BY <4>1, <4>2 DEF UiType
    <3>2. left' \in 0 .. MaxActs
      BY <2>1, LimitsAssumption DEF Ask
    <3> QED
      BY <2>1, <3>1, <3>2 DEF Ask
  <2>2. CASE WithdrawResume
    <3>1. ctl' \in CtlType
      BY <2>2 DEF WithdrawResume, CtlType
    <3>2. left' \in 0 .. MaxActs
      BY <2>2, LimitsAssumption DEF WithdrawResume
    <3> QED
      BY <2>2, <3>1, <3>2 DEF WithdrawResume
  <2>3. CASE TogglePause
    <3>1. session' \in SessionType
      BY <2>3 DEF TogglePause, SessionType
    <3>2. left' \in 0 .. MaxActs
      BY <2>3, LimitsAssumption DEF TogglePause
    <3> QED
      BY <2>3, <3>1, <3>2 DEF TogglePause
  <2>4. CASE ChangeView
    <3>1. sound' \in SoundType
      BY <2>4 DEF ChangeView, SoundType
    <3>2. left' \in 0 .. MaxActs
      BY <2>4, LimitsAssumption DEF ChangeView
    <3> QED
      BY <2>4, <3>1, <3>2 DEF ChangeView
  <2>5. CASE Shutdown
    <3>1. ctl' \in CtlType
      BY <2>5 DEF Shutdown, CtlType
    <3>2. ui' \in UiType
      BY <2>5 DEF Shutdown, UiType
    <3>3. session' \in SessionType
      BY <2>5 DEF Shutdown, SessionType
    <3>4. left' \in 0 .. MaxActs
      BY <2>5, LimitsAssumption DEF Shutdown
    <3> QED
      BY <2>5, <3>1, <3>2, <3>3, <3>4 DEF Shutdown
  <2>6. CASE StoreTarget
    <3>1. ctl' \in CtlType
      BY <2>6 DEF StoreTarget, CtlType, UiType
    <3>2. ui' \in UiType
      BY <2>6 DEF StoreTarget, UiType
    <3> QED
      BY <2>6, <3>1, <3>2 DEF StoreTarget
  <2>7. CASE StoreDirty
    <3>1. ctl' \in CtlType
      BY <2>7 DEF StoreDirty, CtlType
    <3>2. ui' \in UiType
      BY <2>7 DEF StoreDirty, UiType
    <3> QED
      BY <2>7, <3>1, <3>2 DEF StoreDirty
  <2>8. CASE Notify
    <3>1. worker' \in WorkerType
      BY <2>8 DEF Notify, WorkerType
    <3>2. ui' \in UiType
      BY <2>8 DEF Notify, UiType
    <3> QED
      BY <2>8, <3>1, <3>2 DEF Notify
  <2>9. CASE Check
    <3>1. wake' \in {Free, "worker"}
      BY <2>9 DEF Check
    <3>2. worker' \in WorkerType
      BY <2>9 DEF Check, WorkerType
    <3> QED
      BY <2>9, <3>1, <3>2 DEF Check
  <2>10. CASE Sleep
    <3>1. wake' \in {Free, "worker"}
      BY <2>10 DEF Sleep
    <3>2. worker' \in WorkerType
      BY <2>10 DEF Sleep, WorkerType
    <3> QED
      BY <2>10, <3>1, <3>2 DEF Sleep
  <2>11. CASE BeginPass
    <3>1. ctl' \in CtlType
      BY <2>11 DEF BeginPass, CtlType
    <3>2. worker' \in WorkerType
      BY <2>11 DEF BeginPass, WorkerType
    <3>3. sound' \in SoundType
      BY <2>11 DEF BeginPass, Reset, SoundType
    <3> QED
      BY <2>11, <3>1, <3>2, <3>3 DEF BeginPass
  <2>12. CASE Take
    <3>1. ring' \in RingType
      <4>1. ring' = ring \/ ring' = [ring EXCEPT !.anchor = ctl.target]
        BY <2>12 DEF Take, TakeTarget
      <4>2. ctl.target \in Tick \cup Target
        BY PlaybackAssumption DEF CtlType, Tick
      <4> QED
        BY <4>1, <4>2 DEF RingType
    <3>2. ctl' \in CtlType
      BY <2>12 DEF Take, TakeTarget, CtlType
    <3>3. worker' \in WorkerType
      BY <2>12 DEF Take, TakeTarget, WorkerType, CtlType
    <3> QED
      BY <2>12, <3>1, <3>2, <3>3 DEF Take
  <2>13. CASE DropRequest
    <3>1. worker' \in WorkerType
      BY <2>13 DEF DropRequest, WorkerType
    <3> QED
      BY <2>13, <3>1 DEF DropRequest
  <2>14. CASE LoadBase
    <3>1. link' \in LinkType
      <4>1. Newest(Bases(link.cursor, worker.goal)) \in Tick
        BY <2>14, BaseFacts, PlaybackAssumption DEF LoadBase, LinkType, WorkerType
      <4> QED
        BY <2>14, <4>1 DEF LoadBase, LinkType, Free
    <3>2. ring' \in RingType
      <4>1. Newest(Bases(link.cursor, worker.goal)) \in Tick
        BY <2>14, BaseFacts, PlaybackAssumption DEF LoadBase, LinkType, WorkerType
      <4> QED
        BY <2>14, <4>1, InsertedType DEF LoadBase
    <3>3. worker' \in WorkerType
      BY <2>14 DEF LoadBase, WorkerType
    <3> QED
      BY <2>14, <3>1, <3>2, <3>3 DEF LoadBase
  <2>15. CASE StartHere
    <3>1. link' \in LinkType
      BY <2>15 DEF StartHere, LinkType
    <3>2. worker' \in WorkerType
      BY <2>15 DEF StartHere, WorkerType
    <3> QED
      BY <2>15, <3>1, <3>2 DEF StartHere
  <2>16. CASE AbandonChase
    <3>1. link' \in LinkType
      BY <2>16 DEF AbandonChase, LinkType
    <3>2. ctl' \in CtlType
      BY <2>16 DEF AbandonChase, CtlType
    <3>3. worker' \in WorkerType
      BY <2>16 DEF AbandonChase, WorkerType
    <3> QED
      BY <2>16, <3>1, <3>2, <3>3 DEF AbandonChase
  <2>17. CASE Supersede
    <3>1. link' \in LinkType
      BY <2>17 DEF Supersede, LinkType
    <3>2. worker' \in WorkerType
      BY <2>17 DEF Supersede, WorkerType
    <3> QED
      BY <2>17, <3>1, <3>2 DEF Supersede
  <2>18. CASE CatchUp
    <3>1. link' \in LinkType
      <4>1. link.cursor + 1 \in Tick
        BY <2>18, PlaybackAssumption DEF CatchUp, LinkType, Tick
      <4> QED
        BY <2>18, <4>1 DEF CatchUp, LinkType
    <3>2. store' \subseteq Tick
      <4>1. link.cursor + 1 \in Tick
        BY <2>18, PlaybackAssumption DEF CatchUp, LinkType, Tick
      <4> QED
        BY <2>18, <4>1, CapturesType DEF CatchUp
    <3>3. ring' \in RingType
      <4>1. link.cursor + 1 \in Tick
        BY <2>18, PlaybackAssumption DEF CatchUp, LinkType, Tick
      <4> QED
        BY <2>18, <4>1, CapturesType DEF CatchUp
    <3>4. sound' \in SoundType
      BY <2>18 DEF CatchUp, SoundType, Sound
    <3> QED
      BY <2>18, <3>1, <3>2, <3>3, <3>4 DEF CatchUp
  <2>19. CASE EndChase
    <3>1. link' \in LinkType
      BY <2>19 DEF EndChase, LinkType
    <3>2. worker' \in WorkerType
      BY <2>19 DEF EndChase, WorkerType
    <3>3. sound' \in SoundType
      BY <2>19 DEF EndChase, SoundType
    <3> QED
      BY <2>19, <3>1, <3>2, <3>3 DEF EndChase
  <2>20. CASE EndPass
    <3>1. ctl' \in CtlType
      BY <2>20 DEF EndPass, CtlType
    <3>2. worker' \in WorkerType
      BY <2>20 DEF EndPass, WorkerType
    <3>3. drive' \in DriveType
      BY <2>20 DEF EndPass, Aged, DriveType, Sound
    <3>4. sound' \in SoundType
      BY <2>20 DEF EndPass, AtLanding, Reset, Aged, SoundType, Sound
    <3> QED
      BY <2>20, <3>1, <3>2, <3>3, <3>4 DEF EndPass
  <2>21. CASE Resume
    <3>1. ctl' \in CtlType
      BY <2>21 DEF Resume, CtlType
    <3>2. worker' \in WorkerType
      BY <2>21 DEF Resume, WorkerType
    <3>3. session' \in SessionType
      BY <2>21 DEF Resume, SessionType
    <3> QED
      BY <2>21, <3>1, <3>2, <3>3 DEF Resume
  <2>22. CASE Boot
    <3>1. link' \in LinkType
      BY <2>22 DEF Boot, LinkType
    <3>2. drive' \in DriveType
      BY <2>22 DEF Boot, DriveType
    <3> QED
      BY <2>22, <3>1, <3>2 DEF Boot
  <2>23. CASE DriveQuits
    <3>1. drive' \in DriveType
      BY <2>23 DEF DriveQuits, DriveType
    <3> QED
      BY <2>23, <3>1 DEF DriveQuits
  <2>24. CASE PauseEdge
    <3>1. drive' \in DriveType
      BY <2>24 DEF PauseEdge, DriveType, SessionType
    <3>2. sound' \in SoundType
      BY <2>24 DEF PauseEdge, SoundType
    <3> QED
      BY <2>24, <3>1, <3>2 DEF PauseEdge
  <2>25. CASE DriveOn
    <3>1. drive' \in DriveType
      BY <2>25 DEF DriveOn, DriveType
    <3> QED
      BY <2>25, <3>1 DEF DriveOn
  <2>26. CASE AtEnd
    <3>1. drive' \in DriveType
      BY <2>26 DEF AtEnd, DriveType
    <3>2. session' \in SessionType
      BY <2>26 DEF AtEnd, SessionType
    <3> QED
      BY <2>26, <3>1, <3>2 DEF AtEnd
  <2>27. CASE Step
    <3>1. link' \in LinkType
      <4>1. link.cursor + 1 \in Tick
        BY <2>27, PlaybackAssumption DEF Step, LinkType, Tick
      <4> QED
        BY <2>27, <4>1 DEF Step, LinkType
    <3>2. drive' \in DriveType
      BY <2>27 DEF Step, DriveType
    <3>3. sound' \in SoundType
      BY <2>27 DEF Step, SoundType, Sound
    <3> QED
      BY <2>27, <3>1, <3>2, <3>3 DEF Step
  <2>28. CASE Publish
    <3>1. drive' \in DriveType
      BY <2>28 DEF Publish, DriveType, SoundType
    <3>2. sound' \in SoundType
      BY <2>28 DEF Publish, SoundType
    <3> QED
      BY <2>28, <3>1, <3>2 DEF Publish
  <2>29. CASE Finish
    <3>1. link' \in LinkType
      BY <2>29 DEF Finish, LinkType
    <3>2. store' \subseteq Tick
      BY <2>29, CapturesType DEF Finish, LinkType
    <3>3. ring' \in RingType
      BY <2>29, CapturesType DEF Finish, LinkType
    <3>4. drive' \in DriveType
      BY <2>29 DEF Finish, DriveType
    <3>5. sound' \in SoundType
      BY <2>29 DEF Finish, Pushed, SoundType, DriveType
    <3> QED
      BY <2>29, <3>1, <3>2, <3>3, <3>4, <3>5 DEF Finish
  <2>30. CASE PrefetchBoot
    <3>1. store' \subseteq Tick
      BY <2>30, PlaybackAssumption DEF PrefetchBoot, Tick
    <3>2. prefetch' \in PrefetchType
      BY <2>30, PlaybackAssumption DEF PrefetchBoot, PrefetchType, Tick
    <3> QED
      BY <2>30, <3>1, <3>2 DEF PrefetchBoot
  <2>31. CASE PrefetchCancelled
    <3>1. prefetch' \in PrefetchType
      BY <2>31 DEF PrefetchCancelled, PrefetchType
    <3> QED
      BY <2>31, <3>1 DEF PrefetchCancelled
  <2>32. CASE PrefetchTick
    <3>1. store' \subseteq Tick
      <4>1. prefetch.tick + 1 \in Tick
        BY <2>32, PlaybackAssumption DEF PrefetchTick, PrefetchType, Tick
      <4> QED
        BY <2>32, <4>1 DEF PrefetchTick
    <3>2. prefetch' \in PrefetchType
      <4>1. /\ prefetch.tick \in Nat /\ prefetch.tick + 1 \in Tick
            /\ prefetch.tick + 1 < Total => prefetch.tick + 1 # Total
        BY <2>32, PlaybackAssumption DEF PrefetchTick, PrefetchType, Tick
      <4> QED
        BY <2>32, <4>1 DEF PrefetchTick, PrefetchType
    <3> QED
      BY <2>32, <3>1, <3>2 DEF PrefetchTick
  <2>33. CASE StreamFollows
    <3>1. sound' \in SoundType
      BY <2>33 DEF StreamFollows, SoundType, Reset
    <3> QED
      BY <2>33, <3>1 DEF StreamFollows
  <2>34. CASE StreamMutes
    <3>1. sound' \in SoundType
      BY <2>34 DEF StreamMutes, SoundType, Reset
    <3> QED
      BY <2>34, <3>1 DEF StreamMutes
  <2>35. CASE StreamPlays
    <3>1. sound' \in SoundType
      BY <2>35 DEF StreamPlays, SoundType
    <3> QED
      BY <2>35, <3>1 DEF StreamPlays
  <2>36. CASE UNCHANGED vars
    BY <2>36 DEF vars
  <2> QED
    BY <2>1, <2>2, <2>3, <2>4, <2>5, <2>6, <2>7, <2>8, <2>9, <2>10, <2>11, <2>12,
       <2>13, <2>14, <2>15, <2>16, <2>17, <2>18, <2>19, <2>20, <2>21, <2>22, <2>23, <2>24,
       <2>25, <2>26, <2>27, <2>28, <2>29, <2>30, <2>31, <2>32, <2>33, <2>34, <2>35, <2>36
       DEF Next, User, Request, Work, Drive, Prefetch
<1> QED
  BY <1>1, <1>2, PTL DEF Spec

-----------------------------------------------------------------------------
(* The newest seek *)

\* NewestSeekWins in every state of the UI but between the store of the target
\* and that of the flag.
NewestInv ==
  (ui.pc # "dirty" /\ ~ctl.dirty /\ worker.pc # "read") => worker.goal = ctl.target

LEMMA NewestHolds ==
  PlaybackTypeOK /\ NewestInv /\ [Next]_vars => NewestInv'
<1> SUFFICES ASSUME PlaybackTypeOK, NewestInv, [Next]_vars
             PROVE  NewestInv'
  OBVIOUS
<1> USE DEF PlaybackTypeOK, CtlType, WorkerType, UiType, NewestInv
<1>1. CASE Ask
  BY <1>1 DEF Ask
<1>2. CASE WithdrawResume
  BY <1>2 DEF WithdrawResume
<1>3. CASE Shutdown
  BY <1>3 DEF Shutdown
<1>4. CASE StoreTarget
  BY <1>4 DEF StoreTarget
<1>5. CASE StoreDirty
  BY <1>5 DEF StoreDirty
<1>6. CASE Notify
  BY <1>6 DEF Notify
<1>7. CASE Check
  BY <1>7 DEF Check
<1>8. CASE Sleep
  BY <1>8 DEF Sleep
<1>9. CASE BeginPass
  BY <1>9 DEF BeginPass
<1>10. CASE Take
  BY <1>10 DEF Take, TakeTarget
<1>11. CASE DropRequest
  BY <1>11 DEF DropRequest
<1>12. CASE LoadBase
  BY <1>12 DEF LoadBase
<1>13. CASE StartHere
  BY <1>13 DEF StartHere
<1>14. CASE AbandonChase
  BY <1>14 DEF AbandonChase, Chasing
<1>15. CASE Supersede
  BY <1>15 DEF Supersede, Chasing
<1>16. CASE CatchUp
  BY <1>16 DEF CatchUp, Chasing
<1>17. CASE EndChase
  BY <1>17 DEF EndChase
<1>18. CASE EndPass
  BY <1>18 DEF EndPass
<1>19. CASE Resume
  BY <1>19 DEF Resume
<1>20. CASE TogglePause \/ ChangeView \/ Drive \/ Prefetch \/ StreamFollows \/ StreamMutes \/ StreamPlays
  <2>1. UNCHANGED <<ctl, worker, ui>>
    BY <1>20 DEF TogglePause, ChangeView, Drive, Boot, DriveQuits, PauseEdge, DriveOn, AtEnd,
         Step, Publish, Finish, Prefetch, PrefetchBoot, PrefetchCancelled, PrefetchTick,
         StreamFollows, StreamMutes, StreamPlays
  <2> QED
    BY <2>1
<1>21. CASE UNCHANGED vars
  BY <1>21 DEF vars
<1> QED
  BY <1>1, <1>2, <1>3, <1>4, <1>5, <1>6, <1>7, <1>8, <1>9, <1>10, <1>11, <1>12,
     <1>13, <1>14, <1>15, <1>16, <1>17, <1>18, <1>19, <1>20, <1>21
     DEF Next, User, Request, Work

\* Once no request is pending the worker's pass is for the target requested last,
\* whatever crossed on the way.
THEOREM NewestAlwaysWins == Spec => []NewestSeekWins
<1>1. Init => NewestInv
  BY DEF Init, NewestInv
<1>2. NewestInv => NewestSeekWins
  BY DEF NewestInv, NewestSeekWins
<1> QED
  BY <1>1, <1>2, NewestHolds, PlaybackTypes, PTL DEF Spec

-----------------------------------------------------------------------------
(* Sound *)

\* What was emulated before the newest landing: it may be in the cores as long as
\* the producer has yet to learn of the landing or to discard, and in a batch as
\* long as the batch will be refused.
AudioInv ==
  /\ "before" \notin sound.queue
  /\ "before" \in sound.core => ~sound.current \/ drive.discard
  /\ "before" \in drive.batch => ~sound.current
  /\ drive.pc # "push" => drive.batch = {}

LEMMA AudioHolds ==
  PlaybackTypeOK /\ AudioInv /\ [Next]_vars => AudioInv'
<1> SUFFICES ASSUME PlaybackTypeOK, AudioInv, [Next]_vars
             PROVE  AudioInv'
  OBVIOUS
<1> USE DEF PlaybackTypeOK, SoundType, DriveType, AudioInv
<1>1. CASE ChangeView
  BY <1>1 DEF ChangeView
<1>2. CASE BeginPass
  BY <1>2 DEF BeginPass, Reset
<1>3. CASE CatchUp
  BY <1>3 DEF CatchUp
<1>4. CASE EndChase
  BY <1>4 DEF EndChase
<1>5. CASE EndPass
  BY <1>5 DEF EndPass, AtLanding, Reset, Aged
<1>6. CASE Boot
  BY <1>6 DEF Boot
<1>7. CASE DriveQuits
  BY <1>7 DEF DriveQuits
<1>8. CASE PauseEdge
  BY <1>8 DEF PauseEdge
<1>9. CASE DriveOn
  BY <1>9 DEF DriveOn
<1>10. CASE AtEnd
  BY <1>10 DEF AtEnd
<1>11. CASE Step
  BY <1>11 DEF Step
<1>12. CASE Publish
  BY <1>12 DEF Publish
<1>13. CASE Finish
  BY <1>13 DEF Finish, Pushed
<1>14. CASE StreamFollows
  BY <1>14 DEF StreamFollows, Reset
<1>15. CASE StreamMutes
  BY <1>15 DEF StreamMutes, Reset
<1>16. CASE StreamPlays
  BY <1>16 DEF StreamPlays
<1>17. CASE Ask \/ WithdrawResume \/ TogglePause \/ Shutdown \/ StoreTarget \/
            StoreDirty \/ Notify \/ Check \/ Sleep \/ Take \/ DropRequest \/ LoadBase \/
            StartHere \/ AbandonChase \/ Supersede \/ Resume \/ PrefetchBoot \/
            PrefetchCancelled \/ PrefetchTick
  <2>1. UNCHANGED <<sound, drive>>
    BY <1>17 DEF Ask, WithdrawResume, TogglePause, Shutdown, StoreTarget, StoreDirty,
         Notify, Check, Sleep, Take, DropRequest, LoadBase, StartHere, AbandonChase,
         Supersede, Resume, PrefetchBoot, PrefetchCancelled, PrefetchTick
  <2> QED
    BY <2>1
<1>18. CASE UNCHANGED vars
  BY <1>18 DEF vars
<1> QED
  BY <1>1, <1>2, <1>3, <1>4, <1>5, <1>6, <1>7, <1>8, <1>9, <1>10, <1>11, <1>12,
     <1>13, <1>14, <1>15, <1>16, <1>17, <1>18
     DEF Next, User, Request, Work, Drive, Prefetch

\* Nothing emulated before a landing is queued after it.
THEOREM AudioAlwaysFresh == Spec => []AudioFresh
<1>1. Init => AudioInv
  BY DEF Init, AudioInv
<1>2. AudioInv => AudioFresh
  BY DEF AudioInv, AudioFresh
<1> QED
  BY <1>1, <1>2, AudioHolds, PlaybackTypes, PTL DEF Spec

-----------------------------------------------------------------------------
(* Keyframes *)

\* A keyframe of the interval that ends at this tick.
Covered(S, t) == \E k \in S : t - Interval < k /\ k <= t

\* As far as the prefetch has come, every tick is covered, by whomever.
KeyframesDense == \A t \in Tick : t <= prefetch.tick => Covered(store, t)

\* What snapshot_needed() leaves alone is covered, and what is captured is.
LEMMA NeededCovers ==
  ASSUME NEW S, S \subseteq Tick, NEW t \in Tick
  PROVE  Covered(IF SnapshotNeeded(S, t) THEN S \cup {t} ELSE S, t)
<1>1. CASE SnapshotNeeded(S, t)
  BY <1>1, TickFacts, PlaybackAssumption DEF Covered
<1>2. CASE ~SnapshotNeeded(S, t)
  <2>1. PICK k \in S : Larger(t - Interval, 0) < k /\ k <= t
    BY <1>2 DEF SnapshotNeeded
  <2>2. t - Interval < k
    BY <2>1, TickFacts, PlaybackAssumption DEF Larger
  <2> QED
    BY <1>2, <2>1, <2>2 DEF Covered
<1> QED
  BY <1>1, <1>2

LEMMA DenseHolds ==
  PlaybackTypeOK /\ KeyframesDense /\ [Next]_vars => KeyframesDense'
<1> SUFFICES ASSUME PlaybackTypeOK, KeyframesDense, [Next]_vars
             PROVE  KeyframesDense'
  OBVIOUS
<1>1. ASSUME store \subseteq store', prefetch' = prefetch
      PROVE  KeyframesDense'
  BY <1>1 DEF KeyframesDense, Covered
<1>2. CASE PrefetchBoot
  <2>1. CASE prefetch'.tick = 0 /\ store' = store \cup {0}
    BY <2>1, TickFacts, PlaybackAssumption DEF KeyframesDense, Covered
  <2>2. CASE prefetch'.tick = prefetch.tick /\ store' = store
    BY <2>2 DEF KeyframesDense
  <2> QED
    BY <1>2, <2>1, <2>2 DEF PrefetchBoot, PlaybackTypeOK, PrefetchType
<1>3. CASE PrefetchTick
  <2> DEFINE t == prefetch.tick + 1
  <2>1. prefetch.tick \in Nat /\ t \in Tick
    BY <1>3, PlaybackAssumption DEF PrefetchTick, PlaybackTypeOK, PrefetchType, Tick
  <2>2. prefetch'.tick = t /\ store \subseteq store'
    BY <1>3 DEF PrefetchTick
  <2>3. Covered(store', t)
    BY <1>3, <2>1, NeededCovers DEF PrefetchTick, PlaybackTypeOK
  <2>4. ASSUME NEW u \in Tick, u <= prefetch.tick
        PROVE  Covered(store', u)
    BY <2>2, <2>4 DEF KeyframesDense, Covered
  <2> QED
    BY <2>1, <2>2, <2>3, <2>4, TickFacts DEF KeyframesDense
<1>4. CASE CatchUp
  BY <1>1, <1>4 DEF CatchUp, Captures
<1>5. CASE Finish
  BY <1>1, <1>5 DEF Finish, Captures
<1>6. CASE PrefetchCancelled
  BY <1>6 DEF PrefetchCancelled, KeyframesDense, PlaybackTypeOK, PrefetchType
<1>7. CASE Ask \/ WithdrawResume \/ TogglePause \/ ChangeView \/ Shutdown \/ StoreTarget
           \/ StoreDirty \/ Notify \/ Check \/ Sleep \/ BeginPass \/ Take \/ DropRequest
           \/ LoadBase \/ StartHere \/ AbandonChase \/ Supersede \/ EndChase \/ EndPass
           \/ Resume \/ Boot \/ DriveQuits \/ PauseEdge \/ DriveOn \/ AtEnd \/ Step \/
           Publish \/ StreamFollows \/ StreamMutes \/ StreamPlays
  <2>1. UNCHANGED <<store, prefetch>>
    BY <1>7 DEF Ask, WithdrawResume, TogglePause, ChangeView, Shutdown, StoreTarget,
         StoreDirty, Notify, Check, Sleep, BeginPass, Take, DropRequest, LoadBase,
         StartHere, AbandonChase, Supersede, EndChase, EndPass, Resume, Boot,
         DriveQuits, PauseEdge, DriveOn, AtEnd, Step, Publish, StreamFollows,
         StreamMutes, StreamPlays
  <2> QED
    BY <1>1, <2>1
<1>8. CASE UNCHANGED vars
  BY <1>1, <1>8 DEF vars
<1> QED
  BY <1>2, <1>3, <1>4, <1>5, <1>6, <1>7, <1>8
     DEF Next, User, Request, Work, Drive, Prefetch

\* A seek into what the prefetch has covered emulates less than an interval.
THEOREM SeeksAreShort == Spec => CatchUpBounded
<1>1. Init => KeyframesDense
  BY TickFacts DEF Init, KeyframesDense
<1>2. ASSUME PlaybackTypeOK, KeyframesDense, [Next]_vars,
             Chasing', worker.pc = "lock", worker.goal <= prefetch.tick
      PROVE  worker.goal - link'.cursor < Interval
  <2> DEFINE goal == worker.goal
             bases == Bases(link.cursor, goal)
  <2>1. link.cursor \in Tick /\ goal \in Tick
    <3>1. link.cursor \in Tick
      BY <1>2 DEF PlaybackTypeOK, LinkType
    <3>2. prefetch.tick \in Tick \cup {-1}
      BY <1>2 DEF PlaybackTypeOK, PrefetchType
    <3>3. worker.goal \in Nat
      <4>1. worker \in WorkerType
        BY <1>2 DEF PlaybackTypeOK
      <4>2. worker.goal \in Target \cup {0}
        BY <4>1 DEF WorkerType
      <4> QED
        BY <4>2, TargetFacts
    <3>4. worker.goal <= prefetch.tick
      BY <1>2
    <3> QED
      BY <3>1, <3>2, <3>3, <3>4, PlaybackAssumption DEF Tick
  <2>2. PICK k \in store : goal - Interval < k /\ k <= goal
    BY <1>2, <2>1 DEF KeyframesDense, Covered
  <2>3. k \in Nat /\ goal \in Nat /\ link.cursor \in Nat /\ Interval \in Nat
    BY <1>2, <2>1, TickFacts, PlaybackAssumption DEF PlaybackTypeOK
  <2>4. k \in bases \/ (goal >= link.cursor /\ k <= link.cursor)
    BY <2>2, <2>3 DEF Bases
  <2>5. CASE LoadBase
    <3>1. bases # {} /\ link'.cursor = Newest(bases)
      BY <1>2, <2>5 DEF LoadBase, PlaybackTypeOK, LinkType
    <3>2. /\ Newest(bases) \in bases /\ Newest(bases) \in Nat
          /\ \A j \in bases : j <= Newest(bases)
      BY <1>2, <2>1, <2>3, <3>1, BaseFacts, TickFacts
    <3>3. CASE k \in bases
      BY <2>2, <2>3, <3>1, <3>2, <3>3
    <3>4. CASE goal >= link.cursor /\ k <= link.cursor
      <4>1. link.cursor < Newest(bases)
        BY <2>3, <3>2, <3>4 DEF Bases
      <4> QED
        BY <2>2, <2>3, <3>1, <3>2, <3>4, <4>1
    <3> QED
      BY <2>4, <3>3, <3>4
  <2>6. CASE StartHere
    <3>1. bases = {} /\ link'.cursor = link.cursor
      BY <1>2, <2>6 DEF StartHere, PlaybackTypeOK, LinkType
    <3> QED
      BY <2>2, <2>3, <2>4, <3>1
  <2>7. LoadBase \/ StartHere
    <3>1. worker'.pc = "chase"
      BY <1>2 DEF Chasing
    <3>2. ~(Ask \/ WithdrawResume \/ TogglePause \/ ChangeView \/ Shutdown \/
            StoreTarget \/ StoreDirty \/ Boot \/ DriveQuits \/ PauseEdge \/ DriveOn \/
            AtEnd \/ Step \/ Publish \/ Finish \/ PrefetchBoot \/ PrefetchCancelled \/
            PrefetchTick \/ StreamFollows \/ StreamMutes \/ StreamPlays)
      BY <1>2, <3>1 DEF Ask, WithdrawResume, TogglePause, ChangeView, Shutdown,
           StoreTarget, StoreDirty, Boot, DriveQuits, PauseEdge, DriveOn, AtEnd, Step,
           Publish, Finish, PrefetchBoot, PrefetchCancelled, PrefetchTick,
           StreamFollows, StreamMutes, StreamPlays
    <3>3. ~(Notify \/ Check \/ Sleep \/ BeginPass \/ Take \/ DropRequest \/ AbandonChase
            \/ Supersede \/ CatchUp \/ EndChase \/ EndPass \/ Resume)
      BY <1>2, <3>1 DEF Notify, Check, Sleep, BeginPass, Take, DropRequest,
           AbandonChase, Supersede, CatchUp, EndChase, EndPass, Resume, TakeTarget,
           Chasing, PlaybackTypeOK, WorkerType
    <3>4. ~UNCHANGED vars
      BY <1>2, <3>1 DEF vars
    <3> QED
      BY <1>2, <3>2, <3>3, <3>4 DEF Next, User, Request, Work, Drive, Prefetch
  <2> QED
    BY <2>5, <2>6, <2>7
<1>3. PlaybackTypeOK /\ KeyframesDense /\ [Next]_vars =>
        ((Chasing' /\ worker.pc = "lock" /\ worker.goal <= prefetch.tick)
           => worker.goal - link'.cursor < Interval)
  BY <1>2
<1> QED
  BY <1>1, <1>3, DenseHolds, PlaybackTypes, PTL DEF Spec, CatchUpBounded

-----------------------------------------------------------------------------
(* The landing *)

\* While it chases the worker holds the link, and the drive thread while it
\* publishes.
LockInv ==
  /\ worker.pc = "chase" => link.lock = "worker"
  /\ drive.pc \in {"publish", "push"} => link.lock = "drive"

LEMMA LockHolds ==
  PlaybackTypeOK /\ LockInv /\ [Next]_vars => LockInv'
<1> SUFFICES ASSUME PlaybackTypeOK, LockInv, [Next]_vars
             PROVE  LockInv'
  OBVIOUS
<1> USE DEF PlaybackTypeOK, LinkType, WorkerType, DriveType, LockInv, Free
<1>1. CASE Notify
  BY <1>1 DEF Notify
<1>2. CASE Check
  BY <1>2 DEF Check
<1>3. CASE Sleep
  BY <1>3 DEF Sleep
<1>4. CASE BeginPass
  BY <1>4 DEF BeginPass
<1>5. CASE Take
  BY <1>5 DEF Take, TakeTarget
<1>6. CASE DropRequest
  BY <1>6 DEF DropRequest
<1>7. CASE LoadBase
  BY <1>7 DEF LoadBase
<1>8. CASE StartHere
  BY <1>8 DEF StartHere
<1>9. CASE AbandonChase
  BY <1>9 DEF AbandonChase, Chasing
<1>10. CASE Supersede
  BY <1>10 DEF Supersede, Chasing
<1>11. CASE CatchUp
  BY <1>11 DEF CatchUp, Chasing
<1>12. CASE EndChase
  BY <1>12 DEF EndChase
<1>13. CASE EndPass
  BY <1>13 DEF EndPass
<1>14. CASE Resume
  BY <1>14 DEF Resume
<1>15. CASE Boot
  BY <1>15 DEF Boot
<1>16. CASE Step
  BY <1>16 DEF Step
<1>17. CASE Finish
  BY <1>17 DEF Finish
<1>18. CASE DriveQuits \/ PauseEdge \/ DriveOn \/ AtEnd \/ Publish
  <2>1. CASE Publish
    <3>1. drive.pc = "publish" /\ UNCHANGED <<link, worker>>
      BY <2>1 DEF Publish
    <3> QED
      BY <3>1
  <2>2. CASE DriveQuits \/ PauseEdge \/ DriveOn \/ AtEnd
    <3>1. drive'.pc \in {"done", "top", "lock"} /\ UNCHANGED <<link, worker>>
      BY <2>2 DEF DriveQuits, PauseEdge, DriveOn, AtEnd
    <3> QED
      BY <3>1
  <2> QED
    BY <1>18, <2>1, <2>2
<1>19. CASE Ask \/ WithdrawResume \/ TogglePause \/ ChangeView \/ Shutdown \/
            StoreTarget \/ StoreDirty \/ PrefetchBoot \/ PrefetchCancelled \/
            PrefetchTick \/ StreamFollows \/ StreamMutes \/ StreamPlays
  <2>1. UNCHANGED <<link, worker, drive>>
    BY <1>19 DEF Ask, WithdrawResume, TogglePause, ChangeView, Shutdown, StoreTarget,
         StoreDirty, PrefetchBoot, PrefetchCancelled, PrefetchTick, StreamFollows,
         StreamMutes, StreamPlays
  <2> QED
    BY <2>1
<1>20. CASE UNCHANGED vars
  BY <1>20 DEF vars
<1> QED
  BY <1>1, <1>2, <1>3, <1>4, <1>5, <1>6, <1>7, <1>8, <1>9, <1>10, <1>11, <1>12,
     <1>13, <1>14, <1>15, <1>16, <1>17, <1>18, <1>19, <1>20
     DEF Next, User, Request, Work, Drive, Prefetch

\* The sample of a landing stays in the ring, though others must go.
THEOREM LandingAlwaysKept == Spec => LandingKept
<1>1. Init => LockInv
  BY DEF Init, LockInv
<1>2. ASSUME PlaybackTypeOK, LockInv, [Next]_vars,
             worker.pc = "chase", link'.cursor = worker.goal, link.cursor # worker.goal,
             ring.anchor = worker.goal
      PROVE  worker.goal \in ring'.at
  <2> USE <1>2 DEF PlaybackTypeOK, LinkType
  <2>1. CASE CatchUp
    <3>1. worker.goal \in Tick
      <4>1. link.cursor + 1 = worker.goal /\ link.cursor < Total
        BY <2>1 DEF CatchUp
      <4> QED
        BY <4>1, PlaybackAssumption DEF Tick
    <3>2. ring' = Inserted(ring, worker.goal)
      BY <2>1 DEF CatchUp, Captures
    <3> QED
      BY <3>1, <3>2, AnchorStays DEF RingType
  <2>2. ~LoadBase /\ ~Step
    BY DEF LoadBase, Step, LockInv, Free
  <2>3. ~(Ask \/ WithdrawResume \/ TogglePause \/ ChangeView \/ Shutdown \/ StoreTarget
          \/ StoreDirty \/ Notify \/ Check \/ Sleep \/ BeginPass \/ Take \/ DropRequest
          \/ StartHere \/ AbandonChase \/ Supersede \/ EndChase \/ EndPass \/ Resume \/
          Boot \/ DriveQuits \/ PauseEdge \/ DriveOn \/ AtEnd \/ Publish \/ Finish \/
          PrefetchBoot \/ PrefetchCancelled \/ PrefetchTick \/ StreamFollows \/
          StreamMutes \/ StreamPlays)
    <3>1. link'.cursor # link.cursor
      OBVIOUS
    <3> QED
      BY <3>1 DEF Ask, WithdrawResume, TogglePause, ChangeView, Shutdown, StoreTarget,
           StoreDirty, Notify, Check, Sleep, BeginPass, Take, DropRequest, StartHere,
           AbandonChase, Supersede, EndChase, EndPass, Resume, Boot, DriveQuits,
           PauseEdge, DriveOn, AtEnd, Publish, Finish, PrefetchBoot, PrefetchCancelled,
           PrefetchTick, StreamFollows, StreamMutes, StreamPlays
  <2>4. ~UNCHANGED vars
    BY DEF vars
  <2> QED
    BY <2>1, <2>2, <2>3, <2>4 DEF Next, User, Request, Work, Drive, Prefetch
<1>3. PlaybackTypeOK /\ LockInv /\ [Next]_vars =>
        ((worker.pc = "chase" /\ link'.cursor = worker.goal /\ link.cursor # worker.goal
            /\ ring.anchor = worker.goal)
           => worker.goal \in ring'.at)
  BY <1>2
<1> QED
  BY <1>1, <1>3, LockHolds, PlaybackTypes, PTL DEF Spec, LandingKept
=============================================================================
