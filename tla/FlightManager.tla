---------------------------- MODULE FlightManager ----------------------------
(***************************************************************************)
(* flight_manager.go: the correlation of <callsign>.ini and briefing.txt   *)
(* into the flight that GET /flight serves.                                *)
(*                                                                         *)
(* The file watcher calls HandleFileChange on a goroutine of its own for   *)
(* every debounced change, so several handlers run at a time.  A handler   *)
(* reads the file without the lock, takes over what it read under fm.mu,   *)
(* and announces a correlation after it has released fm.mu.  The section   *)
(* between Lock and Unlock is one step here: every field it touches is     *)
(* only ever accessed under fm.mu.  The read and the announcement are      *)
(* steps of their own.                                                     *)
(*                                                                         *)
(* A text is the time it was saved and, for a briefing, the plan it        *)
(* describes.  The time stands for line 2 of a briefing (the generation    *)
(* timestamp) and tells two saved INI files apart; the plan stands for all *)
(* the other lines.  A file read while the game is still writing it is one *)
(* more text, which a later save replaces.                                 *)
(***************************************************************************)
EXTENDS Naturals, FiniteSets

CONSTANTS
  Handlers,   \* goroutines that may be inside HandleFileChange at a time
  Plans,      \* what briefings say apart from their timestamp line
  NoPlan,     \* the plan of a text that is not a briefing
  NoFlight,   \* currentFlight = nil
  MaxSaves    \* bound: the files are saved at most this often

Text == [at : Nat, plan : Plans \cup {NoPlan}]
NoText == [at |-> 0, plan |-> NoPlan]            \* the empty string
Flight == [ini : Text, briefing : Text]
Kinds == {"ini", "briefing"}

ASSUME HandlersFinite == IsFiniteSet(Handlers)
ASSUME SavesAssumption == MaxSaves \in Nat
ASSUME NilIsNoFlight == NoFlight \notin Flight

VARIABLES
  \* the files, saved by the game
  disk,             \* what each file holds; NoText: not saved since start-up
  clock,            \* the number of saves so far
  notify,           \* how often HandleFileChange is still to be called for each file
  \* the FlightManager's fields
  hasIni, iniContent, hasBriefing, briefingContent, currentFlight,
  \* the handlers
  pc, kind, text,
  \* history
  correlated,       \* how often a flight was built
  announced,        \* how often the hub took a "mission ready" event
  disordered,       \* has a handler overlapped or overtaken another one?
  unreadable,       \* the files whose latest read failed
  unseen            \* the files whose latest save the watcher was not told of

fmVars == <<hasIni, iniContent, hasBriefing, briefingContent, currentFlight>>
diskVars == <<disk, clock>>
vars == <<diskVars, notify, fmVars, pc, kind, text,
          correlated, announced, disordered, unreadable, unseen>>

TypeOK ==
  /\ disk \in [Kinds -> Text]
  /\ clock \in 0 .. MaxSaves
  /\ notify \in [Kinds -> Nat]
  /\ hasIni \in BOOLEAN
  /\ iniContent \in Text
  /\ hasBriefing \in BOOLEAN
  /\ briefingContent \in Text
  /\ currentFlight \in Flight \cup {NoFlight}
  /\ pc \in [Handlers -> {"idle", "read", "lock", "send"}]
  /\ kind \in [Handlers -> Kinds]
  /\ text \in [Handlers -> Text]
  /\ correlated \in Nat
  /\ announced \in Nat
  /\ disordered \in BOOLEAN
  /\ unreadable \in SUBSET Kinds
  /\ unseen \in SUBSET Kinds

Init ==
  /\ disk = [k \in Kinds |-> NoText]
  /\ clock = 0
  /\ notify = [k \in Kinds |-> 0]
  /\ hasIni = FALSE
  /\ iniContent = NoText
  /\ hasBriefing = FALSE
  /\ briefingContent = NoText
  /\ currentFlight = NoFlight
  /\ pc = [h \in Handlers |-> "idle"]
  /\ kind = [h \in Handlers |-> "ini"]
  /\ text = [h \in Handlers |-> NoText]
  /\ correlated = 0
  /\ announced = 0
  /\ disordered = FALSE
  /\ unreadable = {}
  /\ unseen = {}

-----------------------------------------------------------------------------
(* The game saves a file, and the watcher is told of it, or not: the file  *)
(* is not watched, or fsnotify has lost the event.                         *)
Save(k, p) ==
  /\ clock < MaxSaves
  /\ clock' = clock + 1
  /\ disk' = [disk EXCEPT ![k] = [at |-> clock + 1, plan |-> p]]
  /\ \/ /\ notify' = [notify EXCEPT ![k] = @ + 1]
        /\ unseen' = unseen \ {k}
     \/ /\ unseen' = unseen \cup {k}
        /\ UNCHANGED notify
  /\ UNCHANGED <<fmVars, pc, kind, text, correlated, announced, disordered, unreadable>>

SaveIni == Save("ini", NoPlan)
SaveBriefing(p) == Save("briefing", p)

(* The watcher takes two writes for one: it stops a timer that has not     *)
(* fired yet.                                                              *)
Coalesce(k) ==
  /\ notify[k] > 1
  /\ notify' = [notify EXCEPT ![k] = @ - 1]
  /\ UNCHANGED <<diskVars, fmVars, pc, kind, text,
                 correlated, announced, disordered, unreadable, unseen>>

(* Handler h stands between the notification and the end of its locked     *)
(* section.                                                                *)
Active(h) == pc[h] \in {"read", "lock"}

(* A call for k overlaps another one, or overtakes the notification of an  *)
(* earlier save.                                                           *)
OutOfTurn(k) ==
  \/ \E g \in Handlers : Active(g)
  \/ \E j \in Kinds : notify[j] > 0 /\ disk[j].at < disk[k].at

(* The watcher's goroutine h calls HandleFileChange, which picks the       *)
(* handler by the file's name.  Nothing orders it after the handlers that  *)
(* are still running, or after the notification of an earlier save.        *)
HandleFileChange(h, k) ==
  /\ pc[h] = "idle"
  /\ notify[k] > 0
  /\ notify' = [notify EXCEPT ![k] = @ - 1]
  /\ pc' = [pc EXCEPT ![h] = "read"]
  /\ kind' = [kind EXCEPT ![h] = k]
  /\ disordered' = (disordered \/ OutOfTurn(k))
  /\ UNCHANGED <<diskVars, fmVars, text, correlated, announced, unreadable, unseen>>

(* os.ReadFile, outside the lock.                                          *)
ReadFile(h) ==
  /\ pc[h] = "read"
  /\ text' = [text EXCEPT ![h] = disk[kind[h]]]
  /\ pc' = [pc EXCEPT ![h] = "lock"]
  /\ unreadable' = unreadable \ {kind[h]}
  /\ UNCHANGED <<diskVars, notify, fmVars, kind, correlated, announced, disordered, unseen>>

(* os.ReadFile fails (the game has the file open, or it is gone): the      *)
(* error is logged and the change is dropped.                              *)
ReadFails(h) ==
  /\ pc[h] = "read"
  /\ pc' = [pc EXCEPT ![h] = "idle"]
  /\ unreadable' = unreadable \cup {kind[h]}
  /\ UNCHANGED <<diskVars, notify, fmVars, kind, text, correlated, announced, disordered, unseen>>

Locks(h, k) == pc[h] = "lock" /\ kind[h] = k

(* Both files are there: the new flight replaces the current one and the   *)
(* handler goes on to BroadcastMissionReady.                               *)
Correlate(h, ini, briefing) ==
  /\ currentFlight' = [ini |-> ini, briefing |-> briefing]
  /\ pc' = [pc EXCEPT ![h] = "send"]
  /\ correlated' = correlated + 1

(* One of the files is missing, or nothing changed: the handler returns.   *)
Return(h) ==
  /\ pc' = [pc EXCEPT ![h] = "idle"]
  /\ UNCHANGED correlated

HandleIniChange(h) ==
  /\ Locks(h, "ini")
  /\ hasIni' = TRUE
  /\ iniContent' = text[h]
  /\ \/ /\ ~hasBriefing
        /\ Return(h)
        /\ UNCHANGED currentFlight
     \/ /\ hasBriefing
        /\ Correlate(h, text[h], briefingContent)
  /\ UNCHANGED <<diskVars, notify, hasBriefing, briefingContent, kind, text,
                 announced, disordered, unreadable, unseen>>

(* isBriefingEqual: equal but for line 2.                                  *)
IsBriefingEqual(a, b) == a.plan = b.plan

(* Mutant of KeepBriefing: the mission is announced again.                 *)
KeepAndAnnounce(h) ==
  /\ hasBriefing /\ IsBriefingEqual(briefingContent, text[h])
  /\ pc' = [pc EXCEPT ![h] = "send"]
  /\ UNCHANGED <<fmVars, correlated>>

(* A briefing was saved before and this one says the same.                 *)
KeepBriefing(h) ==
  /\ hasBriefing /\ IsBriefingEqual(briefingContent, text[h])
  /\ Return(h)
  /\ UNCHANGED fmVars

(* Mutant of ReplaceBriefing: the flight of the old mission stays.         *)
ReplaceButServe(h) ==
  /\ hasBriefing /\ ~IsBriefingEqual(briefingContent, text[h])
  /\ briefingContent' = text[h]
  /\ hasIni' = FALSE
  /\ iniContent' = NoText
  /\ Return(h)
  /\ UNCHANGED <<hasBriefing, currentFlight>>

(* Mutant of ReplaceBriefing: the new briefing is not taken over.          *)
ClearOnly(h) ==
  /\ hasBriefing /\ ~IsBriefingEqual(briefingContent, text[h])
  /\ hasIni' = FALSE
  /\ iniContent' = NoText
  /\ currentFlight' = NoFlight
  /\ Return(h)
  /\ UNCHANGED <<hasBriefing, briefingContent>>

(* A briefing was saved before and this one differs.                       *)
ReplaceBriefing(h) ==
  /\ hasBriefing /\ ~IsBriefingEqual(briefingContent, text[h])
  /\ briefingContent' = text[h]
  /\ hasIni' = FALSE
  /\ iniContent' = NoText
  /\ currentFlight' = NoFlight
  /\ Return(h)
  /\ UNCHANGED hasBriefing

FirstBriefing(h) ==
  /\ ~hasBriefing
  /\ hasBriefing' = TRUE
  /\ briefingContent' = text[h]
  /\ \/ /\ ~hasIni
        /\ Return(h)
        /\ UNCHANGED currentFlight
     \/ /\ hasIni
        /\ Correlate(h, iniContent, text[h])
  /\ UNCHANGED <<hasIni, iniContent>>

HandleBriefingChange(h) ==
  /\ Locks(h, "briefing")
  /\ KeepBriefing(h) \/ ReplaceBriefing(h) \/ FirstBriefing(h)
  /\ UNCHANGED <<diskVars, notify, kind, text, announced, disordered, unreadable, unseen>>

(* Mutant of BroadcastMissionReady: a message the hub cannot take at once  *)
(* is dropped.                                                             *)
DropMissionReady(h) ==
  /\ pc[h] = "send"
  /\ pc' = [pc EXCEPT ![h] = "idle"]
  /\ announced' \in {announced, announced + 1}
  /\ UNCHANGED <<diskVars, notify, fmVars, kind, text, correlated, disordered, unreadable, unseen>>

(* hub.broadcast <- data: the handler is blocked until the hub takes it.   *)
(* main always passes a hub, and the event can always be serialized.       *)
BroadcastMissionReady(h) ==
  /\ pc[h] = "send"
  /\ pc' = [pc EXCEPT ![h] = "idle"]
  /\ announced' = announced + 1
  /\ UNCHANGED <<diskVars, notify, fmVars, kind, text, correlated, disordered, unreadable, unseen>>

-----------------------------------------------------------------------------
Step(h) ==
  \/ ReadFile(h)
  \/ ReadFails(h)
  \/ HandleIniChange(h)
  \/ HandleBriefingChange(h)
  \/ BroadcastMissionReady(h)

Next ==
  \/ SaveIni
  \/ \E p \in Plans : SaveBriefing(p)
  \/ \E k \in Kinds : Coalesce(k)
  \/ \E h \in Handlers : \/ \E k \in Kinds : HandleFileChange(h, k)
                         \/ Step(h)

Spec == Init /\ [][Next]_vars

(* The watcher's timers fire, Go's scheduler runs every goroutine that can *)
(* run, and the hub keeps receiving.  Nobody has to save a file.           *)
Fairness ==
  /\ \A k \in Kinds : WF_vars(\E h \in Handlers : HandleFileChange(h, k))
  /\ \A h \in Handlers : WF_vars(Step(h))

FairSpec == Spec /\ Fairness

-----------------------------------------------------------------------------
(* Every flight on offer is built of exactly the two texts taken over      *)
(* last, and there is one whenever both are present: an INI that a new     *)
(* briefing cleared, or a briefing that was replaced, is never served, and *)
(* no early return leaves the flight behind the two files                  *)
(* (HandleIniChange, HandleBriefingChange).                                *)
FlightCoherent ==
  currentFlight = IF hasIni /\ hasBriefing
                  THEN [ini |-> iniContent, briefing |-> briefingContent]
                  ELSE NoFlight

Senders == {h \in Handlers : pc[h] = "send"}

(* Every correlation is announced once: the flights built so far are the   *)
(* events the hub took plus the handlers blocked in BroadcastMissionReady. *)
AnnouncedOnce == correlated = announced + Cardinality(Senders)

Quiet == (\A k \in Kinds : notify[k] = 0) /\ \A h \in Handlers : pc[h] = "idle"

(* The files were saved briefing first, no read failed, no event was lost, *)
(* and everything has been handled.                                        *)
IniSavedLast ==
  /\ Quiet /\ unreadable = {} /\ unseen = {}
  /\ disk["briefing"] # NoText
  /\ disk["ini"].at > disk["briefing"].at

ServesDisk ==
  /\ currentFlight # NoFlight
  /\ currentFlight.ini = disk["ini"]
  /\ IsBriefingEqual(currentFlight.briefing, disk["briefing"])

(* As long as the handlers ran one at a time and in the order of the       *)
(* saves, an INI saved after its briefing ends up served with it, whatever *)
(* was saved before and whichever file came first.                         *)
SerialHandlingCorrelates == IniSavedLast /\ ~disordered => ServesDisk

(* The same with no assumption on the handlers' order, and asking only for *)
(* some flight: HandleIniChange's comment and the BriefingFirstThenIni     *)
(* test ("INI saved when Briefing is present -> event sent, flight data    *)
(* populated") say so of the order of the saves.                           *)
BriefingThenIniCorrelates == IniSavedLast => currentFlight # NoFlight

(* A flight is withdrawn only for a briefing with another plan: saving the *)
(* same briefing with a new timestamp, or an INI, never takes it away      *)
(* (HandleBriefingChange's comparison).                                    *)
WithdrawnOnlyForNewPlan ==
  [][currentFlight # NoFlight /\ currentFlight' = NoFlight
       => currentFlight.briefing.plan # briefingContent'.plan]_vars

(* "current mission data is ready for download" (MissionReadyPayload): the *)
(* hub is handed the event only while GET /flight has a flight to return.  *)
ReadyMeansDownloadable ==
  [][announced' > announced => currentFlight # NoFlight]_vars

(* The mission state machine that clients see is implemented, with its     *)
(* promise that every owed announcement is eventually made.                *)
Mission == INSTANCE MissionState WITH
  phase <- IF hasIni
           THEN IF hasBriefing THEN "ready" ELSE "ini"
           ELSE IF hasBriefing THEN "briefing" ELSE "empty",
  downloadable <- (currentFlight # NoFlight),
  owed <- correlated - announced

MissionSpec == Mission!Spec
MissionFairSpec == Mission!FairSpec
=============================================================================
