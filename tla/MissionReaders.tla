---------------------------- MODULE MissionReaders ----------------------------
(***************************************************************************)
(* camtac/generic_readers.go, uni_reader.go, obj_reader.go, obd_reader.go, *)
(* cmp_reader.go: how many bytes each read function moves the cursor on,   *)
(* call by call (cursor.go: Uint8 by 1, Uint16 by 2, Uint32 and Float32 by *)
(* 4, Float64 by 8, Bytes(n) by n).                                        *)
(*                                                                         *)
(* A record is what decides on the calls that are made: the bits of a      *)
(* waypoint's Haves, the counts, the request flag and the wait cycles of a *)
(* package.                                                                *)
(***************************************************************************)
EXTENDS Integers, Sequences, Functions

U8 == 1
U16 == 2
U32 == 4
U64 == 8

(* for i := range n { read() }, with reads of different lengths            *)
EachOf(lengths) == SumFunction(lengths)

readVU_ID == U32 + U32
readCampaignBase == readVU_ID + 3 * U16 + U32 + U32 + 2 * U16 + U8 + U16

-----------------------------------------------------------------------------
readCampObjectiveLinkDataType == 8 * U8 + readVU_ID

(* Mutant of readObjective: a count of 0 is taken for "no byte".           *)
readObjectiveNoRatios(o) ==
  readCampaignBase + 2 * U32 + 3 * U8
    + U8 + o.statuses * U8
    + U8 + U16 + readVU_ID + U8
    + U8 + o.links * readCampObjectiveLinkDataType
    + (IF o.ratios THEN U8 + 8 * U32 ELSE 0)
    + 3 * U64 + U32 + 80

readObjective(o) ==
  readCampaignBase + 2 * U32 + 3 * U8
    + U8 + o.statuses * U8
    + U8 + U16 + readVU_ID + U8
    + U8 + o.links * readCampObjectiveLinkDataType
    + U8 + (IF o.ratios THEN 8 * U32 ELSE 0)
    + 3 * U64 + U32 + 80

readObjectiveDeltas(d) == readVU_ID + U32 + 4 * U8 + U8 + d.statuses * U8

-----------------------------------------------------------------------------
readTarget == readVU_ID + U8
readWaypoint(haves) ==
  U8 + 3 * U16 + U32 + 3 * U8 + U32
    + (IF "target" \in haves THEN readTarget + 4 * readTarget ELSE 0)
    + (IF "depart" \in haves THEN U32 ELSE 0)
readUnit(u) ==
  readCampaignBase + 3 * U32 + 2 * U16 + 2 * readVU_ID + 3 * U8 + 4 * U16
    + EachOf([n \in DOMAIN u.waypoints |-> readWaypoint(u.waypoints[n])])

readPilot == U16 + 6 * U8 + U16
readSquadron(u) ==
  readUnit(u) + U32 + U8 + 16 * U8 + 1000 * U8 + 48 * readPilot + 16 * U32
    + 2 * readVU_ID + 16 * U8 + 6 * U16 + 2 * U8 + U16 + U32 + U8 + U32

readLoadout == 16 * U16 + 16 * U8
readFlight(u) ==
  readUnit(u) + 2 * U32 + 4 * U32 + 4 * U16 + 4 * U32 + U16
    + U8 + u.loadouts * readLoadout
    + 7 * U8 + 3 * readVU_ID + 4 * (4 * U8) + 3 * U8 + U32 + 4 * U32 + 3 * (4 * U8)

readGroundUnit(u) == readUnit(u) + U8 + U16 + readVU_ID
readTaskForce(u) == readUnit(u) + 2 * U8
readBattalion(u) == readGroundUnit(u) + 2 * U32 + 2 * readVU_ID + 6 * U8
readBrigade(u) == readGroundUnit(u) + U8 + u.elements * readVU_ID

readMissionRequest == 2 * U16 + 4 * U8 + 2 * readVU_ID + U32 + U8 + U16
readPackage(u) ==
  readUnit(u) + U8 + u.elements * readVU_ID + 5 * readVU_ID + U8
    + (IF u.request /\ u.waitCycles = 0 THEN readMissionRequest ELSE 0)

-----------------------------------------------------------------------------
readFixedString(length) == length
readTeamBasicInfo == 2 * U8 + readFixedString(20) + readFixedString(200)
readSquadInfo ==
  2 * U32 + readVU_ID + 4 * U16 + 3 * U8 + readFixedString(80) + U32 + 2 * U16 + U8
    + readFixedString(80)
readEvent(textLen) == 2 * U16 + U32 + 2 * U8 + 10 * U8 + U16 + readFixedString(textLen)
readEvents(texts) == U16 + EachOf([n \in DOMAIN texts |-> readEvent(texts[n])])
readCampaign(c) ==
  6 * U32 + 8 * U32 + 8 * U32 + U32 + 8 * U32 + U32 + 8 * readTeamBasicInfo
    + 4 * U32 + 9 * U16 + 8 * U8 + 2 * U16 + 4 * readFixedString(40) + readVU_ID
    + readEvents(c.recentEvents) + readEvents(c.priorityEvents)
    + U16 + c.campMap * U8 + U16 + U16 + c.squadrons * readSquadInfo
    + U8 + 3 * U32 + 2 * U16
=============================================================================
