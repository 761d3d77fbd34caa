---------------------------- MODULE MissionFiles ----------------------------
(***************************************************************************)
(* camtac/mission_manager.go: the listing of a campaign directory's        *)
(* mission files, at start-up and by every request of GET /missionfiles,   *)
(* and the reading of one mission at start-up.                             *)
(*                                                                         *)
(* All of them share the manager and its class table without a lock, and   *)
(* the game saves and removes the files meanwhile.  A panic ends the agent *)
(* on main's goroutine and only the request on a request's (gin.Recovery); *)
(* log.Fatal, and running out of memory, ends the agent on either.         *)
(*                                                                         *)
(* A file is what its readers make of it, and the number of its save: it is*)
(* "whole", or "broken" (a reader returns an error), or "short" (a cursor  *)
(* runs over its end and panics), or "vast": the number of embedded files  *)
(* in its directory, or the expanded size of its campaign, both taken from *)
(* the file as they are, ask for more memory than there is.  A file that is*)
(* being written may be any of the last three.                             *)
(***************************************************************************)
EXTENDS Naturals, Sequences

CONSTANTS
  Requests,      \* concurrent requests of GET /missionfiles/:theater/:type
  Main,          \* main's goroutine, which does the same before it serves
  Names,         \* the mission files, in the order of os.ReadDir
  Excluded,      \* those that excludedFiles names
  MissionFile,   \* -mission-load
  BaseFile,      \* the file of its scenario
  MaxChanges     \* bound: how often the game saves or removes a file

Files == {Names[i] : i \in DOMAIN Names}
Callers == Requests \cup {Main}

ASSUME MainAssumption == Main \notin Requests
(* os.ReadDir names a file once.                                           *)
ASSUME NamesAssumption ==
  /\ Names \in Seq(Files)
  /\ \A i, j \in DOMAIN Names : Names[i] = Names[j] => i = j
ASSUME FilesAssumption == MissionFile \in Files /\ BaseFile \in Files
ASSUME BoundsAssumption == MaxChanges \in Nat

VARIABLES
  process,     \* "starting", "serving" or "dead"
  loadsMission,\* is -mission-load given?
  \* the campaign directory
  there, form, save,
  changes,     \* the saves and removals so far
  \* the MissionManager
  classTable,  \* is it loaded?
  \* each caller of GetMissionFiles
  pc,
  todo,        \* the entries of the directory it has not handled yet
  content,     \* the save that it has read of the first of them
  mizFiles,    \* what it has found
  \* history
  untouched,   \* the files that were whole all the while
  early,       \* the requests that began before the class table was loaded
  killer       \* who ended the agent, or {}

diskVars == <<there, form, save, changes>>
callVars == <<pc, todo, content, mizFiles>>
filesVars == <<process, loadsMission, diskVars, classTable, callVars, untouched, early, killer>>

Forms == {"whole", "broken", "short", "vast"}
Entry == [file : Files, content : 0 .. MaxChanges, date : 0 .. MaxChanges]

FilesTypeOK ==
  /\ process \in {"starting", "serving", "dead"}
  /\ loadsMission \in BOOLEAN
  /\ there \in [Files -> BOOLEAN]
  /\ form \in [Files -> Forms]
  /\ save \in [Files -> 0 .. MaxChanges]
  /\ changes \in 0 .. MaxChanges
  /\ classTable \in BOOLEAN
  /\ pc \in [Callers -> {"idle", "readDir", "checkTable", "loadTable", "files", "stat",
                         "mission", "base", "done", "failed"}]
  /\ todo \in [Callers -> Seq(Files)]
  /\ content \in [Callers -> 0 .. MaxChanges]
  /\ mizFiles \in [Callers -> Seq(Entry)]
  /\ untouched \in [Callers -> SUBSET Files]
  /\ early \in SUBSET Requests
  /\ killer \in SUBSET Callers
  /\ \A r \in Requests : pc[r] = "failed" => process # "starting"
  /\ pc[Main] \in {"mission", "base"} => process # "serving"

FilesInit ==
  /\ process = "starting"
  /\ loadsMission \in BOOLEAN
  /\ there \in [Files -> BOOLEAN]
  /\ form = [f \in Files |-> "whole"]
  /\ save = [f \in Files |-> 0]
  /\ changes = 0
  /\ classTable = FALSE
  /\ pc = [c \in Callers |-> IF c = Main THEN "readDir" ELSE "idle"]
  /\ todo = [c \in Callers |-> <<>>]
  /\ content = [c \in Callers |-> 0]
  /\ mizFiles = [c \in Callers |-> <<>>]
  /\ untouched = [c \in Callers |-> {}]
  /\ early = {}
  /\ killer = {}

-----------------------------------------------------------------------------
(* The game.                                                               *)
Change(f) ==
  /\ process # "dead"
  /\ changes < MaxChanges
  /\ changes' = changes + 1
  /\ untouched' = [c \in Callers |-> untouched[c] \ {f}]
  /\ UNCHANGED <<process, loadsMission, classTable, callVars, early, killer>>

Save(f, as) ==
  /\ Change(f)
  /\ there' = [there EXCEPT ![f] = TRUE]
  /\ form' = [form EXCEPT ![f] = as]
  /\ save' = [save EXCEPT ![f] = changes + 1]

Remove(f) ==
  /\ Change(f)
  /\ there[f]
  /\ there' = [there EXCEPT ![f] = FALSE]
  /\ UNCHANGED <<form, save>>

-----------------------------------------------------------------------------
(* How a call, or the agent with it, ends.                                 *)
Fatal(c) ==
  /\ process' = "dead"
  /\ killer' = {c}
  /\ UNCHANGED <<pc, todo, content, mizFiles>>

Panic(c) ==
  \/ c = Main /\ Fatal(c)
  \/ /\ c # Main
     /\ pc' = [pc EXCEPT ![c] = "failed"]
     /\ UNCHANGED <<process, killer, todo, content, mizFiles>>

Goto(c, step) == pc' = [pc EXCEPT ![c] = step] /\ UNCHANGED <<process, killer>>

Runs(c, step) == process # "dead" /\ pc[c] = step

-----------------------------------------------------------------------------
(* GetMissionFiles.                                                        *)
Request(r) ==
  /\ process = "serving"
  /\ pc[r] \in {"idle", "done", "failed"}
  /\ Goto(r, "readDir")
  /\ mizFiles' = [mizFiles EXCEPT ![r] = <<>>]
  /\ untouched' = [untouched EXCEPT ![r] = {}]
  /\ early' = IF classTable THEN early \ {r} ELSE early \cup {r}
  /\ UNCHANGED <<loadsMission, diskVars, classTable, todo, content>>

(* The files that are there, in the order of os.ReadDir.                   *)
Listing ==
  LET present[n \in 0 .. Len(Names)] ==
        IF n = 0 THEN <<>>
        ELSE IF there[Names[n]] THEN Append(present[n - 1], Names[n])
        ELSE present[n - 1]
  IN  present[Len(Names)]

(* A theater's directory may not be there.                                 *)
ReadDir(c) ==
  /\ Runs(c, "readDir")
  /\ \/ /\ Goto(c, "done")
        /\ UNCHANGED <<todo, untouched>>
     \/ /\ Goto(c, "checkTable")
        /\ todo' = [todo EXCEPT ![c] = Listing]
        /\ untouched' = [untouched EXCEPT ![c] = {f \in Files : there[f] /\ form[f] = "whole"}]
  /\ UNCHANGED <<loadsMission, diskVars, classTable, content, mizFiles, early>>

(* Mutant of AfterCheck: the class table is loaded every time.             *)
LoadAlways(next) == "loadTable"

AfterCheck(next) == IF classTable THEN next ELSE "loadTable"

(* loadClassTable, called by GetMissionFiles.                              *)
CheckTable(c) ==
  /\ Runs(c, "checkTable")
  /\ Goto(c, AfterCheck("files"))
  /\ UNCHANGED <<loadsMission, diskVars, classTable, todo, content, mizFiles, untouched, early>>

(* Falcon4_CT.xml may not be readable, and that is fatal.                  *)
LoadTable(c) ==
  /\ Runs(c, "loadTable")
  /\ \/ Fatal(c) /\ UNCHANGED classTable
     \/ /\ Goto(c, "files")
        /\ classTable' = TRUE
        /\ UNCHANGED <<todo, content, mizFiles>>
  /\ UNCHANGED <<loadsMission, diskVars, untouched, early>>

(* Mutant of Skip: an error ends the listing.                              *)
GiveUp(c) ==
  /\ Goto(c, "done")
  /\ UNCHANGED <<todo, content, mizFiles>>

(* continue: the next entry.                                               *)
Skip(c) ==
  /\ Goto(c, "files")
  /\ todo' = [todo EXCEPT ![c] = Tail(@)]
  /\ UNCHANGED <<content, mizFiles>>

(* The bundle is read in one go, and the campaign in it is parsed.         *)
ReadBundle(c) ==
  /\ Runs(c, "files")
  /\ todo[c] # <<>>
  /\ LET f == Head(todo[c]) IN
       \/ f \in Excluded /\ Skip(c)
       \/ f \notin Excluded /\ (~there[f] \/ form[f] = "broken") /\ Skip(c)
       \/ f \notin Excluded /\ there[f] /\ form[f] = "short" /\ Panic(c)
       \/ f \notin Excluded /\ there[f] /\ form[f] = "vast" /\ Fatal(c)
       \/ /\ f \notin Excluded /\ there[f] /\ form[f] = "whole"
          /\ content' = [content EXCEPT ![c] = save[f]]
          /\ Goto(c, "stat")
          /\ UNCHANGED <<todo, mizFiles>>
  /\ UNCHANGED <<loadsMission, diskVars, classTable, untouched, early>>

(* Mutant of Found: the date is taken first, then the file is read.        *)
StatFirst(c, f, date) == [file |-> f, content |-> date, date |-> content[c]]

Found(c, f, date) == [file |-> f, content |-> content[c], date |-> date]

(* os.Stat, after the file was read.  If it is gone by now, the error is   *)
(* logged and its missing FileInfo used nevertheless.                      *)
Stat(c) ==
  /\ Runs(c, "stat")
  /\ LET f == Head(todo[c]) IN
       \/ ~there[f] /\ Panic(c)
       \/ /\ there[f]
          /\ mizFiles' = [mizFiles EXCEPT ![c] = Append(@, Found(c, f, save[f]))]
          /\ todo' = [todo EXCEPT ![c] = Tail(@)]
          /\ Goto(c, "files")
          /\ UNCHANGED content
  /\ UNCHANGED <<loadsMission, diskVars, classTable, untouched, early>>

ListingEnds(c) ==
  /\ Runs(c, "files")
  /\ todo[c] = <<>>
  /\ Goto(c, "done")
  /\ UNCHANGED <<loadsMission, diskVars, classTable, todo, content, mizFiles, untouched, early>>

GetMissionFiles(c) ==
  ReadDir(c) \/ CheckTable(c) \/ LoadTable(c) \/ ReadBundle(c) \/ Stat(c) \/ ListingEnds(c)

-----------------------------------------------------------------------------
(* main, after its listing: ReadMission, if asked for, and the web server. *)
ReadMission ==
  /\ process = "starting" /\ pc[Main] = "done"
  /\ loadsMission
  /\ \/ ~classTable /\ Fatal(Main) /\ UNCHANGED classTable
     \/ /\ classTable' = TRUE
        /\ Goto(Main, "mission")
        /\ UNCHANGED <<todo, content, mizFiles>>
  /\ UNCHANGED <<loadsMission, diskVars, untouched, early>>

(* Reading a bundle at start-up ends the agent if the file is gone, short  *)
(* or vast.  Of a broken file, only the objectives or deltas may be broken,  *)
(* and that is only logged.                                                *)
ReadsAtStart(f, from, to) ==
  /\ process = "starting" /\ pc[Main] = from
  /\ \/ (~there[f] \/ form[f] # "whole") /\ Fatal(Main)
     \/ /\ there[f] /\ form[f] \in {"whole", "broken"}
        /\ Goto(Main, to)
        /\ UNCHANGED <<todo, content, mizFiles>>
  /\ UNCHANGED <<loadsMission, diskVars, classTable, untouched, early>>

LoadBundle == ReadsAtStart(MissionFile, "mission", "base")
LoadBase == ReadsAtStart(BaseFile, "base", "idle")

(* Mutant of Start: the web server does not wait for the mission.          *)
StartEarly ==
  /\ process = "starting"
  /\ pc[Main] \in {"done", "mission", "base", "idle"}
  /\ process' = "serving"
  /\ UNCHANGED <<loadsMission, diskVars, classTable, callVars, untouched, early, killer>>

Start ==
  /\ process = "starting"
  /\ pc[Main] = "idle" \/ (pc[Main] = "done" /\ ~loadsMission)
  /\ process' = "serving"
  /\ UNCHANGED <<loadsMission, diskVars, classTable, callVars, untouched, early, killer>>

FilesNext ==
  \/ \E f \in Files, as \in Forms : Save(f, as)
  \/ \E f \in Files : Remove(f)
  \/ \E r \in Requests : Request(r)
  \/ \E c \in Callers : GetMissionFiles(c)
  \/ ReadMission \/ LoadBundle \/ LoadBase \/ Start

FilesSpec == FilesInit /\ [][FilesNext]_filesVars

-----------------------------------------------------------------------------
(* A request that begins when the class table is loaded ends the agent in  *)
(* one way only, by running out of memory over a vast file that it reads:  *)
(* a file that is broken or short, or gone before or after it is read, ends*)
(* its listing at most (gin's recovery), and log.Fatal in loadClassTable is*)
(* for main at start-up and for the first requests after a start-up that   *)
(* has not loaded the table.                                               *)
LateKillsAreVast ==
  \A c \in killer : c # Main /\ c \notin early =>
    /\ pc[c] = "files" /\ todo[c] # <<>>
    /\ LET f == Head(todo[c]) IN f \notin Excluded /\ there[f] /\ form[f] = "vast"

(* The date of an entry is never older than the mission in it: a file that *)
(* is saved between the reading and the Stat is listed with the old mission*)
(* and the new date, and never the other way round, which would make a     *)
(* client that compares dates keep the old one for good.                   *)
DateNotOlder ==
  \A c \in Callers : \A i \in 1 .. Len(mizFiles[c]) :
    mizFiles[c][i].content <= mizFiles[c][i].date

(* A listing that ends has every file that was whole all the while, once,  *)
(* however many others were broken, removed or saved beside it.            *)
NothingHidden ==
  \A c \in Callers : pc[c] = "done" =>
    \A f \in untouched[c] \ Excluded :
      \E i \in 1 .. Len(mizFiles[c]) :
        /\ mizFiles[c][i] = [file |-> f, content |-> save[f], date |-> save[f]]
        /\ \A j \in 1 .. Len(mizFiles[c]) : mizFiles[c][j].file = f => j = i
=============================================================================
