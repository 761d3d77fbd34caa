\* A briefing and an INI, saved in this order and handled concurrently.
CONSTANTS
  Handlers = {h1, h2}
  Plans = {p1, p2}
  NoPlan = NoPlan
  NoFlight = NoFlight
  MaxSaves = 3
SPECIFICATION Spec
SYMMETRY HandlerSymmetry
INVARIANTS
  BriefingThenIniCorrelates
CHECK_DEADLOCK FALSE
