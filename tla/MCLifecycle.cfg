\* Two requests of GET /pos beside the ticker, and two interrupts.
CONSTANTS
  Requests = {r1, r2}
  Freqs = {0, 250}
  DefaultFreq = 250
  MaxInterrupts = 2
SPECIFICATION FairSpec
INVARIANTS
  CrashOnlyInClose
  NullOnlyAfterClose
  Released
PROPERTIES
  InterruptEndsSession
  ServesAfterImcs
\* The process ends.
CHECK_DEADLOCK FALSE
