----------------------------- MODULE ReadMission -----------------------------
(***************************************************************************)
(* mission_manager.go: what ReadMission makes of the contents of a mission *)
(* file at start-up, and the tree of objectives that OutputJson exports.   *)
(*                                                                         *)
(* Four parts are read in turn, each as many records as its header counts, *)
(* through a cursor over the expanded bytes.  The contents are chosen      *)
(* while they are read: a record of its kind, or an end in the middle of   *)
(* one.  The cursor's position is left out, and kept is whether the next   *)
(* record begins there: MissionReaders says how far a reader goes,         *)
(* MissionTypes how long the record is.  Once the cursor has missed the    *)
(* beginning of a record, what it reads is any record.                     *)
(*                                                                         *)
(* Then the deltas are applied to the objectives, and the tree is built,   *)
(* one step per turn of a loop.  All of it runs on main's goroutine before *)
(* anything is served.  When and how a bundle fails to load is in          *)
(* MissionFiles.                                                           *)
(***************************************************************************)
EXTENDS MissionTypes, MissionReaders

CONSTANTS
  Ids,                \* the numbers of VU_IDs; 0 among them
  Top,                \* where the tree holds its roots
  Nil,                \* no class of that number
  CTs,                \* the class table's file: a sequence of [num, domain, type]
  HeaderCounts,       \* of each part but the campaign: the counts in its header
  DeltaRecords,       \* deltas: [id, statuses]
  CampaignRecords,    \* campaigns: see MissionReaders
  UnitRecords,        \* units: [entityType] and what MissionReaders asks for
  ObjectiveRecords    \* objectives: [id, parent, entityType, statuses, links, ratios]

ASSUME IdsAssumption == 0 \in Ids /\ Top \notin Ids
ASSUME CountsAssumption ==
  \A part \in {"deltas", "units", "objectives"} : HeaderCounts[part] \subseteq 0 .. 2^16 - 1
ASSUME RecordsAssumption ==
  /\ \A d \in DeltaRecords : d.id \in Ids /\ d.statuses \in Nat
  /\ \A c \in CampaignRecords :
       /\ c.recentEvents \in Seq(Nat) /\ c.priorityEvents \in Seq(Nat)
       /\ c.campMap \in Nat /\ c.squadrons \in Nat
  /\ \A u \in UnitRecords :
       /\ u.waypoints \in Seq(SUBSET {"target", "depart"})
       /\ u.loadouts \in Nat /\ u.elements \in Nat
  /\ \A o \in ObjectiveRecords :
       /\ o.id \in Ids /\ o.parent \in Ids
       /\ o.statuses \in Nat /\ o.links \in Nat
ASSUME ClassesAssumption ==
  /\ CTs \in Seq([num : Nat, domain : Int, type : Int])
  /\ \A n \in DOMAIN CTs : CTs[n] # Nil
  /\ \A u \in UnitRecords : u.entityType \in Int
  /\ \A o \in ObjectiveRecords : o.entityType \in Int

VARIABLES
  step,         \* what ReadMission, and then OutputJson, is at
  part,         \* "read": the part that is read
  i,            \* the turn of the loop; "read": 0 before the part is opened
  header,       \* "read": the two bytes of the header that hold the count
  aligned,      \* "read": the cursor stands where a record begins
  listed,       \* "read": the records in the part's list
  counted,      \* "read": the unit reader's counters.NumUnits
  deltas,       \* m.deltas: the id of each
  objectives,   \* m.objectives: id, parent, and the delta whose values they carry (0: none)
  deltaByID,    \* in applyDeltas: for each id the place of its delta, 0 for none
  nodes,        \* in buildObjectiveTree: for each id the place of its objective, 0 for none
  tree,         \* the Children of each id's node, and the roots
  \* history
  whole         \* "read": nothing is missing of this part, and every class in it is known

readVars == <<part, header, aligned, listed, counted, whole>>
treeVars == <<nodes, tree>>
vars == <<step, i, readVars, deltas, objectives, deltaByID, treeVars>>

Parts == {"deltas", "campaign", "units", "objectives"}
Steps == {"read", "index", "apply", "nodes", "place", "done", "fatal", "panic"}

ReadObjectives == [id : Ids, parent : Ids, delta : 0 .. Len(deltas)]

TypeOK ==
  /\ step \in Steps
  /\ part \in Parts
  /\ i \in Nat
  /\ header \in Nat
  /\ aligned \in BOOLEAN
  /\ listed \in Nat
  /\ counted \in 0 .. listed
  /\ deltas \in Seq(Ids)
  /\ objectives \in Seq(ReadObjectives)
  /\ deltaByID \in [Ids -> 0 .. Len(deltas)]
  /\ nodes \in [Ids -> 0 .. Len(objectives)]
  /\ tree \in [Ids \cup {Top} -> Seq(Ids)]
  /\ whole \in BOOLEAN

Init ==
  /\ step = "read"
  /\ part = "deltas"
  /\ i = 0
  /\ header = 0
  /\ aligned = TRUE
  /\ listed = 0
  /\ counted = 0
  /\ deltas = <<>>
  /\ objectives = <<>>
  /\ deltaByID = [id \in Ids |-> 0]
  /\ nodes = [id \in Ids |-> 0]
  /\ tree = [id \in Ids \cup {Top} |-> <<>>]
  /\ whole = TRUE

-----------------------------------------------------------------------------
(* The class table, by the number of the class; of two classes of one      *)
(* number the last one counts.                                             *)
Numbers == {CTs[n].num : n \in DOMAIN CTs}
MaxNum == CHOOSE m \in Numbers \cup {0} : \A n \in Numbers \cup {0} : n <= m
Last(num) ==
  CHOOSE n \in DOMAIN CTs : CTs[n].num = num /\ \A k \in DOMAIN CTs : CTs[k].num = num => k <= n
ClassTable == [num \in 0 .. MaxNum |-> IF num \in Numbers THEN CTs[Last(num)] ELSE Nil]

(* The domain and the type by which readUnitByClassType knows a unit.      *)
Kinds ==
  [flight |-> <<2, 1>>, package |-> <<2, 2>>, squadron |-> <<2, 3>>,
   battalion |-> <<3, 1>>, brigade |-> <<3, 2>>, taskForce |-> <<4, 1>>]
IsKind(class, kind) == <<class.domain, class.type>> = Kinds[kind]

readUnitOf(kind, u) ==
  CASE kind = "flight"    -> readFlight(u)
    [] kind = "package"   -> readPackage(u)
    [] kind = "squadron"  -> readSquadron(u)
    [] kind = "battalion" -> readBattalion(u)
    [] kind = "brigade"   -> readBrigade(u)
    [] kind = "taskForce" -> readTaskForce(u)

UnitOf(kind, u) ==
  CASE kind = "flight"    -> Flight(u)
    [] kind = "package"   -> Package(u)
    [] kind = "squadron"  -> Squadron(u)
    [] kind = "battalion" -> Battalion(u)
    [] kind = "brigade"   -> Brigade(u)
    [] kind = "taskForce" -> TaskForce(u)

-----------------------------------------------------------------------------
(* Reading the parts.                                                      *)

Int16(n) == IF n < 2^15 THEN n ELSE n - 2^16

NumRecords == IF part = "campaign" THEN 1 ELSE Int16(header)
AtRecord(p) == step = "read" /\ part = p /\ i \in 1 .. NumRecords

End(outcome) ==
  /\ step' = outcome
  /\ UNCHANGED <<part, i, header, aligned, listed, counted, deltas, objectives, deltaByID,
                 treeVars>>

(* What the part says is not there, from here on.                          *)
Missing == whole' = FALSE

(* The bundle, for the objectives the base mission's, has no such part, or *)
(* the campaign cannot be expanded: log.Fatal.                             *)
PartMissing == step = "read" /\ i = 0 /\ Missing /\ End("fatal")
CampaignFails == step = "read" /\ i = 0 /\ part = "campaign" /\ Missing /\ End("fatal")

(* A part shorter than its header, or a record that is cut off: an index   *)
(* out of range, and nothing recovers from it on main's goroutine.         *)
HeaderShort == step = "read" /\ i = 0 /\ Missing /\ End("panic")
CutShort == step = "read" /\ i \in 1 .. NumRecords /\ Missing /\ End("panic")

Following(p) ==
  CASE p = "deltas" -> "campaign" [] p = "campaign" -> "units" [] OTHER -> "objectives"

GoOn ==
  /\ \/ /\ part # "objectives"
        /\ part' = Following(part)
        /\ i' = 0
        /\ UNCHANGED step
     \/ /\ part = "objectives"
        /\ step' = "index"
        /\ i' = 1
        /\ UNCHANGED part
  /\ header' = 0
  /\ aligned' = TRUE
  /\ listed' = 0
  /\ counted' = 0
  /\ whole' = TRUE
  /\ UNCHANGED <<deltas, objectives, deltaByID, treeVars>>

(* Any other part that cannot be expanded is logged and taken as empty.    *)
ExpandFails == step = "read" /\ i = 0 /\ part # "campaign" /\ GoOn

OpenPart ==
  /\ step = "read" /\ i = 0
  /\ i' = 1
  /\ header' \in IF part = "campaign" THEN {0} ELSE HeaderCounts[part]
  /\ UNCHANGED <<step, part, aligned, listed, counted, whole, deltas, objectives, deltaByID,
                 treeVars>>

PartEnds == step = "read" /\ i > 0 /\ i > NumRecords /\ GoOn

(* The cursor is moved on by `by` bytes over a record of `size` bytes.     *)
Move(by, size) ==
  /\ aligned' = (aligned /\ by = size)
  /\ i' = i + 1
  /\ UNCHANGED <<step, part, header, deltaByID, treeVars>>

ReadDelta(d) ==
  /\ AtRecord("deltas")
  /\ Move(readObjectiveDeltas(d), ObjectiveDeltas(d))
  /\ deltas' = Append(deltas, d.id)
  /\ listed' = listed + 1
  /\ UNCHANGED <<objectives, counted, whole>>

ReadCampaign(c) ==
  /\ AtRecord("campaign")
  /\ Move(readCampaign(c), Campaign(c))
  /\ listed' = listed + 1
  /\ UNCHANGED <<deltas, objectives, counted, whole>>

(* The number by which a record looks up its class.                        *)
ClassOf(r) == r.entityType - 100

(* Which classes may be in a file, from the class table's file alone: a    *)
(* unit's is there, at last as one of the kinds of units, and an           *)
(* objective's is no higher than the highest there.                        *)
KnownUnit(u) ==
  \E n \in DOMAIN CTs :
    /\ CTs[n].num = ClassOf(u)
    /\ \A k \in DOMAIN CTs : k > n => CTs[k].num # ClassOf(u)
    /\ \E kind \in DOMAIN Kinds : IsKind(CTs[n], kind)
KnownObjective(o) ==
  0 <= ClassOf(o) /\ \E n \in DOMAIN CTs : ClassOf(o) <= CTs[n].num

Class(known) == whole' = (whole /\ known)

(* Out of bounds: only the two bytes of the type are read, and there is no *)
(* unit.                                                                   *)
SkipUnit(u) ==
  /\ AtRecord("units") /\ Class(KnownUnit(u))
  /\ ClassOf(u) < 0 \/ ClassOf(u) > MaxNum + 1
  /\ aligned' = FALSE
  /\ i' = i + 1
  /\ UNCHANGED <<step, part, header, listed, counted, deltas, objectives, deltaByID, treeVars>>

(* A number that is just out of bounds, or that no class has: a panic.     *)
UnitPanics(u) ==
  /\ AtRecord("units") /\ Class(KnownUnit(u))
  /\ ClassOf(u) = MaxNum + 1 \/ (ClassOf(u) \in 0 .. MaxNum /\ ClassTable[ClassOf(u)] = Nil)
  /\ End("panic")

(* A class that is no unit's: only the two bytes of the type are read, and *)
(* the list gets a pointer to nil.                                         *)
ReadNothing(u) ==
  /\ AtRecord("units") /\ Class(KnownUnit(u))
  /\ ClassOf(u) \in 0 .. MaxNum /\ ClassTable[ClassOf(u)] # Nil
  /\ \A kind \in DOMAIN Kinds : ~IsKind(ClassTable[ClassOf(u)], kind)
  /\ aligned' = FALSE
  /\ listed' = listed + 1
  /\ i' = i + 1
  /\ UNCHANGED <<step, part, header, counted, deltas, objectives, deltaByID, treeVars>>

ReadUnit(u) ==
  /\ AtRecord("units") /\ Class(KnownUnit(u))
  /\ ClassOf(u) \in 0 .. MaxNum /\ ClassTable[ClassOf(u)] # Nil
  /\ \E kind \in DOMAIN Kinds :
       /\ IsKind(ClassTable[ClassOf(u)], kind)
       /\ Move(U16 + readUnitOf(kind, u), 2 + UnitOf(kind, u))
  /\ listed' = listed + 1
  /\ counted' = counted + 1
  /\ UNCHANGED <<deltas, objectives>>

(* The class of an objective is looked up without a test of the bounds ... *)
ObjectivePanics(o) ==
  /\ AtRecord("objectives") /\ Class(KnownObjective(o))
  /\ ClassOf(o) \notin 0 .. MaxNum
  /\ End("panic")

(* ... and may be nil.                                                     *)
ReadObjective(o) ==
  /\ AtRecord("objectives") /\ Class(KnownObjective(o))
  /\ ClassOf(o) \in 0 .. MaxNum
  /\ Move(U16 + readObjective(o), 2 + Objective(o))
  /\ objectives' = Append(objectives, [id |-> o.id, parent |-> o.parent, delta |-> 0])
  /\ listed' = listed + 1
  /\ UNCHANGED <<deltas, counted>>

Read ==
  \/ PartMissing \/ CampaignFails \/ HeaderShort \/ CutShort \/ ExpandFails
  \/ OpenPart \/ PartEnds
  \/ \E d \in DeltaRecords : ReadDelta(d)
  \/ \E c \in CampaignRecords : ReadCampaign(c)
  \/ \E u \in UnitRecords : SkipUnit(u) \/ UnitPanics(u) \/ ReadNothing(u) \/ ReadUnit(u)
  \/ \E o \in ObjectiveRecords : ObjectivePanics(o) \/ ReadObjective(o)

-----------------------------------------------------------------------------
(* applyDeltas, and buildObjectiveTree for OutputJson.                     *)

Turn(s, list) ==
  /\ step = s
  /\ i \in 1 .. Len(list)
  /\ i' = i + 1
  /\ UNCHANGED <<step, readVars, deltas>>

(* Mutant of IndexDelta: the first delta of an id stays.                   *)
IndexFirst ==
  /\ Turn("index", deltas)
  /\ deltaByID' = IF deltaByID[deltas[i]] = 0
                  THEN [deltaByID EXCEPT ![deltas[i]] = i] ELSE deltaByID
  /\ UNCHANGED <<objectives, treeVars>>

IndexDelta ==
  /\ Turn("index", deltas)
  /\ deltaByID' = [deltaByID EXCEPT ![deltas[i]] = i]
  /\ UNCHANGED <<objectives, treeVars>>

ApplyDelta ==
  /\ Turn("apply", objectives)
  /\ LET delta == deltaByID[objectives[i].id] IN
       \/ /\ delta # 0
          /\ objectives' = [objectives EXCEPT ![i].delta = delta]
       \/ /\ delta = 0
          /\ UNCHANGED objectives
  /\ UNCHANGED <<deltaByID, treeVars>>

AddNode ==
  /\ Turn("nodes", objectives)
  /\ nodes' = [nodes EXCEPT ![objectives[i].id] = i]
  /\ tree' = [tree EXCEPT ![objectives[i].id] = <<>>]
  /\ UNCHANGED <<objectives, deltaByID>>

(* Mutant of IsRoot: an objective may be its own child.                    *)
IsRootOrOwn(o) == nodes[o.parent] = 0 \/ o.parent = 0

IsRoot(o) == nodes[o.parent] = 0 \/ o.parent = 0 \/ o.parent = o.id

PlaceNode ==
  /\ Turn("place", objectives)
  /\ LET o == objectives[i]
         list == IF IsRoot(o) THEN Top ELSE o.parent
     IN  tree' = [tree EXCEPT ![list] = Append(@, o.id)]
  /\ UNCHANGED <<objectives, deltaByID, nodes>>

LoopEnds(s, list, next) ==
  /\ step = s
  /\ i > Len(list)
  /\ step' = next
  /\ i' = 1
  /\ UNCHANGED <<readVars, deltas, objectives, deltaByID, treeVars>>

Next ==
  \/ Read
  \/ IndexDelta \/ LoopEnds("index", deltas, "apply")
  \/ ApplyDelta \/ LoopEnds("apply", objectives, "nodes")
  \/ AddNode \/ LoopEnds("nodes", objectives, "place")
  \/ PlaceNode \/ LoopEnds("place", objectives, "done")

Spec == Init /\ [][Next]_vars

-----------------------------------------------------------------------------
(* As long as no byte of a part is missing, and every class in it is known *)
(* by the class table's file, every reader goes from record to record,     *)
(* finds each class in the table, never panics, and lists and counts each  *)
(* record (readAllUnits, readAllObjectives, readAllObjectiveDeltas,        *)
(* readCampaign).  The count is a signed number: of 32768 records or more  *)
(* none is read.                                                           *)
WholePartsRead ==
  whole =>
    /\ step # "panic"
    /\ aligned
    /\ step = "read" /\ i > 0 /\ i > NumRecords /\ part # "campaign" =>
         /\ listed = IF header < 2^15 THEN header ELSE 0
         /\ part = "units" => counted = listed

(* The place of the last delta of an id, 0 if there is none.               *)
IsLastDelta(n, id) ==
  \/ n = 0 /\ \A k \in 1 .. Len(deltas) : deltas[k] # id
  \/ /\ n \in 1 .. Len(deltas)
     /\ deltas[n] = id
     /\ \A k \in n + 1 .. Len(deltas) : deltas[k] # id

(* Every objective carries the values of the last delta of its id, also    *)
(* one of several objectives with that id, and those it was read with if   *)
(* there is none (applyDeltas).                                            *)
LastDeltaApplied ==
  step \in {"nodes", "place", "done"} =>
    \A n \in 1 .. Len(objectives) : IsLastDelta(objectives[n].delta, objectives[n].id)

-----------------------------------------------------------------------------
(* What the export holds: the nodes that can be reached from the roots.    *)
IsClosed(R) ==
  \A list \in R \cup {Top} : \A n \in 1 .. Len(tree[list]) : tree[list][n] \in R
Exported(id) == \A R \in SUBSET Ids : IsClosed(R) => id \in R

(* All the places where an id's node is in a list.                         *)
Places(id) ==
  {p \in (Ids \cup {Top}) \X (1 .. Len(objectives)) :
     p[2] <= Len(tree[p[1]]) /\ tree[p[1]][p[2]] = id}

HasParent(o) ==
  /\ o.parent # 0 /\ o.parent # o.id
  /\ \E n \in 1 .. Len(objectives) : objectives[n].id = o.parent

(* From the parents as they are read: the chain of parents never ends.     *)
InCircle(id) ==
  \E S \in SUBSET Ids :
    /\ id \in S
    /\ \A s \in S : \E n \in 1 .. Len(objectives) :
         objectives[n].id = s /\ HasParent(objectives[n]) /\ objectives[n].parent \in S

DistinctIds ==
  \A m, n \in 1 .. Len(objectives) : objectives[m].id = objectives[n].id => m = n

(* If no two objectives have one id, each of them is in exactly one place  *)
(* of the tree, and the export holds all but those whose parents go round  *)
(* in a circle: it is a forest, in which the encoder comes to an end, and  *)
(* in which nothing else is missing (buildObjectiveTree).                  *)
ExportIsForest ==
  step = "done" /\ DistinctIds =>
    \A n \in 1 .. Len(objectives) :
      /\ \E p \in Places(objectives[n].id) : Places(objectives[n].id) = {p}
      /\ Exported(objectives[n].id) <=> ~InCircle(objectives[n].id)
=============================================================================
