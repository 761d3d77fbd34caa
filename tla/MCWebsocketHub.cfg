\* Two clients, and two producers with three messages between them.
CONSTANTS
  Conns = {c1, c2}
  Producers = {flight, position}
  MaxMessages = 3
SPECIFICATION FairSpec
INVARIANTS
  TypeOK
  ClientsAreOpen
  NoLeak
  ContiguousDelivery
PROPERTIES
  SendersServed
  GoneClientsFreed
\* Connections and messages are bounded, and then nothing is left to do.
CHECK_DEADLOCK FALSE
