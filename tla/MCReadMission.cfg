\* Up to two deltas, two units and three objectives of four ids.
CONSTANTS
  Ids = {0, 1, 2, 3}
  Top = Top
  Nil = Nil
  CTs <- MCClasses
  HeaderCounts <- MCHeaderCounts
  DeltaRecords <- MCDeltas
  CampaignRecords <- MCCampaigns
  UnitRecords <- MCUnits
  ObjectiveRecords <- MCObjectives
SPECIFICATION Spec
INVARIANTS
  WholePartsRead
  LastDeltaApplied
  ExportIsForest
\* ReadMission ends, one way or the other.
CHECK_DEADLOCK FALSE
