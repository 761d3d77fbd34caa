\* Three saves of one plan, one client.
CONSTANTS
  Plans = {p1}
  NoPlan = NoPlan
  NoFlight = NoFlight
  Nil = Nil
  Conns = {c1}
  MaxWrites = 3
  QueueSize = 2
SPECIFICATION FairSpec
INVARIANTS
  NoStaleClient
PROPERTIES
  FlightSpec
  HubSpec
  SaveReachesClients
\* The game saves finitely often, and then nothing is left to do.
CHECK_DEADLOCK FALSE
