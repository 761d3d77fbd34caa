---------------------------- MODULE MissionState ----------------------------
(***************************************************************************)
(* What the flight manager promises a Maps-App: the "mission state         *)
(* machine" its doc comments describe, without files, goroutines or locks. *)
(*                                                                         *)
(* The mission is in one of four phases, by which of the two files has     *)
(* been taken over.  A flight can be downloaded exactly in phase "ready".  *)
(* Every INI taken over while a briefing is present, and every first       *)
(* briefing taken over while an INI is present, is a correlation, and owes *)
(* the clients one announcement.                                           *)
(***************************************************************************)
EXTENDS Naturals

VARIABLES
  phase,          \* which files the current mission has
  downloadable,   \* does GET /flight return a flight?
  owed            \* correlations that have not been announced yet

missionVars == <<phase, downloadable, owed>>

Phases == {"empty", "ini", "briefing", "ready"}

Init ==
  /\ phase = "empty"
  /\ downloadable = FALSE
  /\ owed = 0

(* Both files are there: the flight is (re)built and one more announcement *)
(* is owed.                                                                *)
Correlate ==
  /\ phase' = "ready"
  /\ downloadable' = TRUE
  /\ owed' = owed + 1

IniAdopted ==
  \/ /\ phase \in {"empty", "ini"}
     /\ phase' = "ini"
     /\ UNCHANGED <<downloadable, owed>>
  \/ phase \in {"briefing", "ready"} /\ Correlate

FirstBriefing ==
  \/ /\ phase = "empty"
     /\ phase' = "briefing"
     /\ UNCHANGED <<downloadable, owed>>
  \/ phase = "ini" /\ Correlate

(* A briefing of another mission: the flight can no longer be downloaded   *)
(* until an INI has been saved for it.  Announcements already owed stay    *)
(* owed.                                                                   *)
NewBriefing ==
  /\ phase \in {"briefing", "ready"}
  /\ phase' = "briefing"
  /\ downloadable' = FALSE
  /\ UNCHANGED owed

Announce ==
  /\ owed > 0
  /\ owed' = owed - 1
  /\ UNCHANGED <<phase, downloadable>>

Next == IniAdopted \/ FirstBriefing \/ NewBriefing \/ Announce

Spec == Init /\ [][Next]_missionVars

FairSpec == Spec /\ WF_missionVars(Announce)
=============================================================================
