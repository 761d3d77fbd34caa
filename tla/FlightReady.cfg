\* One plan is replaced by another while the first one's announcement waits.
CONSTANTS
  Handlers = {h1, h2}
  Plans = {p1, p2}
  NoPlan = NoPlan
  NoFlight = NoFlight
  MaxSaves = 3
SPECIFICATION Spec
SYMMETRY HandlerSymmetry
PROPERTIES
  ReadyMeansDownloadable
CHECK_DEADLOCK FALSE
