---------------------------- MODULE MCReadMission ----------------------------
EXTENDS ReadMission

(* Every kind of unit, a class that is no unit's, a class that is there    *)
(* twice, and no class of number 0.                                        *)
MCClasses ==
  << [num |-> 1, domain |-> 2, type |-> 1], [num |-> 2, domain |-> 2, type |-> 2],
     [num |-> 3, domain |-> 9, type |-> 9], [num |-> 4, domain |-> 3, type |-> 1],
     [num |-> 5, domain |-> 3, type |-> 2], [num |-> 6, domain |-> 4, type |-> 1],
     [num |-> 7, domain |-> 3, type |-> 9], [num |-> 3, domain |-> 2, type |-> 3] >>

MCHeaderCounts ==
  [deltas |-> {0, 2, 2^15}, units |-> {2, 2^16 - 1}, objectives |-> {3, 2^15 + 1}]

MCDeltas == [id : {1, 2}, statuses : {0, 3}]

Texts == {<<>>, <<0>>, <<5, 0>>}
MCCampaigns ==
  [recentEvents : Texts, priorityEvents : Texts, campMap : {0, 4}, squadrons : {0, 2}]

Waypoints == {<<>>, <<{}>>, <<{"target"}, {"depart"}>>, <<{"target", "depart"}, {}>>}
MCUnits ==
  [entityType : 99 .. 109, waypoints : Waypoints, loadouts : {0, 2}, elements : {0, 3},
   request : BOOLEAN, waitCycles : {0, 1}]

(* Any ids in the simplest layout (of id 0, one is enough: it is nobody's  *)
(* parent), and any layout and class.                                      *)
MCObjectives ==
  [id : {0}, parent : {1}, entityType : {107}, statuses : {0}, links : {0}, ratios : {FALSE}]
    \cup
  [id : Ids \ {0}, parent : Ids, entityType : {107}, statuses : {0}, links : {0}, ratios : {FALSE}]
    \cup
  [id : {1}, parent : {0}, entityType : {99, 100, 107, 108}, statuses : {0, 2}, links : {0, 2},
   ratios : BOOLEAN]
=============================================================================
