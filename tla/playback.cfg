SPECIFICATION Spec
CONSTANTS
  Total = 3
  Target = {2, 4}
  Interval = 2
  Every = 3
  Keep = 2
  MaxEntries = 1
  MaxActs = 2
INVARIANTS
  NewestSeekWins
  AudioFresh
PROPERTIES
  CatchUpBounded
  SeekServed
  ThreadsEnd
  LandingKept
CHECK_DEADLOCK FALSE
