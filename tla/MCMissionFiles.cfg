\* Two requests at a time beside a game that changes three files twice.
CONSTANTS
  save0 = save0
  joker = joker
  viper = viper
  Requests = {r1, r2}
  Main = Main
  Names <- SomeNames
  Excluded = {save0}
  MissionFile = joker
  BaseFile = save0
  MaxChanges = 2
SPECIFICATION FilesSpec
SYMMETRY RequestSymmetry
INVARIANTS
  FilesTypeOK
  LateKillsAreVast
  DateNotOlder
  NothingHidden
\* The agent may end.
CHECK_DEADLOCK FALSE
