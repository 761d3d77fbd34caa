\* A followed file and another one, three writes, one callback.
CONSTANTS
  Files = {briefing, other}
  Followed = {briefing}
  Callbacks = {flight}
  Nil = Nil
  MaxWrites = 3
  QueueSize = 2
SPECIFICATION FairSpec
INVARIANTS
  TypeOK
  OneArmedPerFile
  MapIsClean
  NoLostWrite
PROPERTIES
  WriteNotified
\* The files are written to finitely often, and the watcher may be stopped.
CHECK_DEADLOCK FALSE
