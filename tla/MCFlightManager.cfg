\* Three handlers at a time, four saves, two plans.
CONSTANTS
  Handlers = {h1, h2, h3}
  Plans = {p1, p2}
  NoPlan = NoPlan
  NoFlight = NoFlight
  MaxSaves = 4
SPECIFICATION FairSpec
INVARIANTS
  FlightCoherent
  AnnouncedOnce
  SerialHandlingCorrelates
PROPERTIES
  MissionFairSpec
\* The game saves finitely often, and then nothing is left to do.
CHECK_DEADLOCK FALSE
