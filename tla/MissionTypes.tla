----------------------------- MODULE MissionTypes -----------------------------
(***************************************************************************)
(* camtac/types.go: the records of a mission file, as the Go structs       *)
(* declare them.  A struct is a record of the widths of its fields in      *)
(* bytes; what its fields hold is left out, but for those that say what    *)
(* follows: counts, and the flags of the "Present if" comments.            *)
(*                                                                         *)
(* Fields that a reader fills by itself (TypeName, ClassType) are not in   *)
(* the file.  A string has no width in the struct: it is given here by the *)
(* reader's.  A slice without a field for its length (Statuses, Links,     *)
(* DetectRatios) has one byte before it.                                   *)
(***************************************************************************)
EXTENDS Integers, Sequences, Functions

Size(struct) == SumFunction(struct)
SizeOfAll(sizes) == SumFunction(sizes)

VU_ID == [Num |-> 4, Creator |-> 4]
CampaignBase ==
  [ID |-> Size(VU_ID), EntityType |-> 2, X |-> 2, Y |-> 2, Z |-> 4, SpotTime |-> 4,
   Spotted |-> 2, BaseFlags |-> 2, Owner |-> 1, CampID |-> 2]

-----------------------------------------------------------------------------
(* Objectives and their deltas.                                            *)

CampObjectiveLinkDataType == [Costs |-> 8 * 1, ID |-> Size(VU_ID)]
ObjectiveFields ==
  [CampaignBase |-> Size(CampaignBase), LastRepair |-> 4, ObjFlags |-> 4, Supply |-> 1,
   Fuel |-> 1, Losses |-> 1, Priority |-> 1, NameID |-> 2, ParentID |-> Size(VU_ID),
   FirstOwner |-> 1, PosX |-> 8, PosY |-> 8, PosZ |-> 8, Heading |-> 4, CampName |-> 80]
Objective(o) ==
  Size(ObjectiveFields) + (1 + o.statuses) + (1 + o.links * Size(CampObjectiveLinkDataType))
    + (1 + IF o.ratios THEN 8 * 4 ELSE 0)

ObjectiveDeltaFields ==
  [ID |-> Size(VU_ID), LastRepair |-> 4, Owner |-> 1, Supply |-> 1, Fuel |-> 1, Losses |-> 1]
ObjectiveDeltas(d) == Size(ObjectiveDeltaFields) + (1 + d.statuses)

-----------------------------------------------------------------------------
(* Units.                                                                  *)

Target == [ID |-> Size(VU_ID), Building |-> 1]
WaypointTargetData == [Target |-> Size(Target), DesignatedTarget |-> 4 * Size(Target)]
WaypointFields ==
  [Haves |-> 1, GridX |-> 2, GridY |-> 2, GridZ |-> 2, Arrive |-> 4, Action |-> 1,
   RouteAction |-> 1, Formation |-> 1, Flags |-> 4]
Waypoint(haves) ==
  Size(WaypointFields) + (IF "target" \in haves THEN Size(WaypointTargetData) ELSE 0)
                       + (IF "depart" \in haves THEN 4 ELSE 0)
UnitFields ==
  [CampaignBase |-> Size(CampaignBase), LastCheck |-> 4, Roster |-> 4, UnitFlags |-> 4,
   DestX |-> 2, DestY |-> 2, TargetID |-> Size(VU_ID), CargoID |-> Size(VU_ID),
   Moved |-> 1, Losses |-> 1, Tactic |-> 1, CurrentWP |-> 2, NameID |-> 2,
   Reinforcement |-> 2, NumWaypoints |-> 2]
Unit(u) == Size(UnitFields) + SizeOfAll([n \in DOMAIN u.waypoints |-> Waypoint(u.waypoints[n])])

TaskForce(u) == Unit(u) + Size([Orders |-> 1, Supply |-> 1])
GroundUnit(u) == Unit(u) + Size([Orders |-> 1, Division |-> 2, AObj |-> Size(VU_ID)])
BattalionFields ==
  [LastMove |-> 4, LastCombat |-> 4, ParentID |-> Size(VU_ID), LastObj |-> Size(VU_ID),
   Supply |-> 1, Fatigue |-> 1, Morale |-> 1, Heading |-> 1, FinalHeading |-> 1, Position |-> 1]
Battalion(u) == GroundUnit(u) + Size(BattalionFields)
Brigade(u) == GroundUnit(u) + Size([NumElements |-> 1, Elements |-> u.elements * Size(VU_ID)])

Pilot ==
  [PilotID |-> 2, Skill |-> 1, Status |-> 1, AAKills |-> 1, AGKills |-> 1, ASKills |-> 1,
   ANKills |-> 1, MissionsFlown |-> 2]
SquadronFields ==
  [Fuel |-> 4, Speciality |-> 1, CampSpecRoleRating |-> 16 * 1, Stores |-> 1000 * 1,
   Pilots |-> 48 * Size(Pilot), Schedule |-> 16 * 4, AirbaseID |-> Size(VU_ID),
   Hotspot |-> Size(VU_ID), Rating |-> 16 * 1, AAKills |-> 2, AGKills |-> 2, ASKills |-> 2,
   ANKills |-> 2, MissionsFlown |-> 2, MissionScore |-> 2, TotalLosses |-> 1,
   PilotLosses |-> 1, SquadronPatch |-> 2, SquadronRetaskAt |-> 4, Relocate |-> 1, TexSet |-> 4]
Squadron(u) == Unit(u) + Size(SquadronFields)

Loadout == [WeaponID |-> 16 * 2, WeaponCount |-> 16 * 1]
FlightFields ==
  [Z |-> 4, FuelBurnt |-> 4, FuelInitial |-> 4 * 4, LaserCode |-> 4 * 2, LastMove |-> 4,
   LastCombat |-> 4, TimeOnTarget |-> 4, MissionOverTime |-> 4, MissionTarget |-> 2,
   Loadouts |-> 1, Mission |-> 1, OldMission |-> 1, LastDirection |-> 1, Priority |-> 1,
   MissionID |-> 1, EvalFlags |-> 1, MissionContext |-> 1, Package |-> Size(VU_ID),
   Squadron |-> Size(VU_ID), Requester |-> Size(VU_ID), Slots |-> 4 * 1, Pilots |-> 4 * 1,
   PlaneStats |-> 4 * 1, PlayerSlots |-> 4 * 1, LastPlayerSlot |-> 1, CallsignID |-> 1,
   CallsignNum |-> 1, RefuelQuantity |-> 4, TexSet |-> 4 * 4, TacanChannel |-> 4 * 1,
   TacanBand |-> 4 * 1, LoadedCft |-> 4 * 1]
Flight(u) == Unit(u) + Size(FlightFields) + u.loadouts * Size(Loadout)

MissionRequest ==
  [Requests |-> 2, Responses |-> 2, MRMission |-> 1, MRAircraft |-> 1, MRContext |-> 1,
   MRRoeCheck |-> 1, Requester |-> Size(VU_ID), Target |-> Size(VU_ID), MRTot |-> 4,
   MRActionType |-> 1, MRPriority |-> 2]
PackageFields ==
  [NumElements |-> 1, Interceptor |-> Size(VU_ID), Awacs |-> Size(VU_ID), JStar |-> Size(VU_ID),
   ECM |-> Size(VU_ID), Tanker |-> Size(VU_ID), WaitCycles |-> 1]
Package(u) ==
  Unit(u) + Size(PackageFields) + u.elements * Size(VU_ID)
    + (IF u.request /\ u.waitCycles = 0 THEN Size(MissionRequest) ELSE 0)

-----------------------------------------------------------------------------
(* The campaign.                                                           *)

TeamBasicInfo == [TeamFlag |-> 1, TeamColor |-> 1, TeamName |-> 20, TeamMottoBytes |-> 200]
SquadInfo ==
  [X |-> 4, Y |-> 4, ID |-> Size(VU_ID), DescriptionIndex |-> 2, NameID |-> 2, AirbaseIcon |-> 2,
   SquadronPatch |-> 2, Speciality |-> 1, CurrentStrength |-> 1, Country |-> 1,
   AirbaseName |-> 80, Flags |-> 4, CampID |-> 2, TexSet |-> 2, Padd |-> 1, SquadronName |-> 80]
EventFields ==
  [X |-> 2, Y |-> 2, Time |-> 4, Flags |-> 1, Team |-> 1, Padd |-> 10 * 1, TextLen |-> 2]
Events(texts) == Len(texts) * Size(EventFields) + SizeOfAll(texts)
CampaignFields ==
  [CurrentTime |-> 4, TeStartTime |-> 4, TeTimeLimit |-> 4, VictoryPoints |-> 4, TeType |-> 4,
   TeNumberTeams |-> 4, TeNumberAircraft |-> 8 * 4, TeNumberF16 |-> 8 * 4, TeTeam |-> 4,
   TeTeamPts |-> 8 * 4, TeFlags |-> 4, Info |-> 8 * Size(TeamBasicInfo), LastMajorEvent |-> 4,
   LastResupply |-> 4, LastRepair |-> 4, LastReinforcement |-> 4, Timestamp |-> 2, Group |-> 2,
   GroundRatio |-> 2, AirRatio |-> 2, AirDefenseRatio |-> 2, NavalRatio |-> 2, Brief |-> 2,
   TheaterSizeX |-> 2, TheaterSizeY |-> 2, CurrentDay |-> 1, ActiveTeams |-> 1, DayZero |-> 1,
   EndgameResult |-> 1, Situation |-> 1, EnemyAirExp |-> 1, EnemyADExp |-> 1,
   BullseyeName |-> 1, BullseyeX |-> 2, BullseyeY |-> 2, TheaterName |-> 40, Scenario |-> 40,
   SaveFile |-> 40, UiName |-> 40, SquadronID |-> Size(VU_ID), NumRecentEvents |-> 2,
   NumPriorityEvents |-> 2, CampMapSize |-> 2, LastIndexNo |-> 2, NumAvailableSquadrons |-> 2,
   Tempo |-> 1, CreatorIP |-> 4, CreationTime |-> 4, CreationRand |-> 4, CampPeriodStart |-> 2,
   CampPeriodEnd |-> 2]
Campaign(c) ==
  Size(CampaignFields) + Events(c.recentEvents) + Events(c.priorityEvents)
    + c.campMap + c.squadrons * Size(SquadInfo)
=============================================================================
