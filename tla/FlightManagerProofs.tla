------------------------- MODULE FlightManagerProofs -------------------------
(***************************************************************************)
(* What is proved of FlightManager for any number of handlers, plans and   *)
(* saves.  FlightCoherent and AnnouncedOnce are inductive together with    *)
(* TypeOK; the refinement of MissionState rests on all three.              *)
(***************************************************************************)
EXTENDS FlightManager, FiniteSetTheorems, TLAPS

LEMMA NoTextIsText == NoText \in Text
BY DEF NoText, Text

(* TypeOK is preserved: one step per action.                               *)
LEMMA TypeStep == TypeOK /\ [Next]_vars => TypeOK'
<1> SUFFICES ASSUME TypeOK, [Next]_vars PROVE TypeOK'
  OBVIOUS
<1> USE SavesAssumption, NoTextIsText
<1>1. ASSUME NEW k \in Kinds, NEW p \in Plans \cup {NoPlan}, Save(k, p) PROVE TypeOK'
  <2>1. clock + 1 \in 0 .. MaxSaves /\ clock + 1 \in Nat
    BY <1>1 DEF TypeOK, Save
  <2>2. [at |-> clock + 1, plan |-> p] \in Text
    BY <2>1 DEF Text
  <2> QED
    BY <1>1, <2>1, <2>2 DEF TypeOK, Save, fmVars
<1>2. ASSUME NEW h \in Handlers, NEW k \in Kinds, HandleFileChange(h, k) PROVE TypeOK'
  BY <1>2 DEF TypeOK, HandleFileChange, OutOfTurn, fmVars, diskVars
<1>3. ASSUME NEW h \in Handlers, ReadFile(h) PROVE TypeOK'
  BY <1>3 DEF TypeOK, ReadFile, fmVars, diskVars
<1>4. ASSUME NEW h \in Handlers, ReadFails(h) PROVE TypeOK'
  BY <1>4 DEF TypeOK, ReadFails, fmVars, diskVars
<1>5. ASSUME NEW h \in Handlers, HandleIniChange(h) PROVE TypeOK'
  <2>1. text[h] \in Text /\ briefingContent \in Text
    BY DEF TypeOK
  <2>2. [ini |-> text[h], briefing |-> briefingContent] \in Flight
    BY <2>1 DEF Flight
  <2> QED
    BY <1>5, <2>1, <2>2 DEF TypeOK, HandleIniChange, Locks, Correlate, Return, diskVars
<1>6. ASSUME NEW h \in Handlers, HandleBriefingChange(h) PROVE TypeOK'
  <2>1. text[h] \in Text /\ iniContent \in Text
    BY DEF TypeOK
  <2>2. [ini |-> iniContent, briefing |-> text[h]] \in Flight
    BY <2>1 DEF Flight
  <2>3. CASE KeepBriefing(h)
    BY <1>6, <2>3 DEF TypeOK, HandleBriefingChange, KeepBriefing, Return, diskVars, fmVars
  <2>4. CASE ReplaceBriefing(h)
    BY <1>6, <2>1, <2>4 DEF TypeOK, HandleBriefingChange, ReplaceBriefing, Return, diskVars
  <2>5. CASE FirstBriefing(h)
    BY <1>6, <2>1, <2>2, <2>5
    DEF TypeOK, HandleBriefingChange, FirstBriefing, Correlate, Return, diskVars
  <2> QED
    BY <1>6, <2>3, <2>4, <2>5 DEF HandleBriefingChange
<1>7. ASSUME NEW h \in Handlers, BroadcastMissionReady(h) PROVE TypeOK'
  BY <1>7 DEF TypeOK, BroadcastMissionReady, fmVars, diskVars
<1>8. ASSUME NEW k \in Kinds, Coalesce(k) PROVE TypeOK'
  BY <1>8 DEF TypeOK, Coalesce, fmVars, diskVars
<1>9. CASE UNCHANGED vars
  BY <1>9 DEF TypeOK, vars, fmVars, diskVars
<1> QED
  BY <1>1, <1>2, <1>3, <1>4, <1>5, <1>6, <1>7, <1>8, <1>9
  DEF Next, Step, SaveIni, SaveBriefing, Kinds

LEMMA TypeInit == Init => TypeOK
<1> SUFFICES ASSUME Init PROVE TypeOK
  OBVIOUS
<1>1. /\ disk \in [Kinds -> Text]
      /\ pc \in [Handlers -> {"idle", "read", "lock", "send"}]
      /\ kind \in [Handlers -> Kinds]
      /\ text \in [Handlers -> Text]
  BY NoTextIsText DEF Init, Kinds
<1>2. clock \in 0 .. MaxSaves
  BY SavesAssumption DEF Init
<1> QED
  BY <1>1, <1>2, NoTextIsText DEF Init, TypeOK

(* Type correctness of the flight manager's fields and its handlers.       *)
THEOREM TypeCorrect == Spec => []TypeOK
BY TypeInit, TypeStep, PTL DEF Spec

-----------------------------------------------------------------------------
(* FlightCoherent is preserved: only the three locked sections that do not *)
(* return at once touch the fields it relates.                             *)
LEMMA CoherentStep == TypeOK /\ FlightCoherent /\ [Next]_vars => FlightCoherent'
<1> SUFFICES ASSUME TypeOK, FlightCoherent, [Next]_vars PROVE FlightCoherent'
  OBVIOUS
<1>1. CASE UNCHANGED fmVars
  BY <1>1 DEF FlightCoherent, fmVars
<1>2. ASSUME NEW h \in Handlers, HandleIniChange(h) PROVE FlightCoherent'
  BY <1>2 DEF FlightCoherent, HandleIniChange, Correlate, TypeOK
<1>3. ASSUME NEW h \in Handlers, ReplaceBriefing(h) PROVE FlightCoherent'
  BY <1>3 DEF FlightCoherent, ReplaceBriefing
<1>4. ASSUME NEW h \in Handlers, FirstBriefing(h) PROVE FlightCoherent'
  BY <1>4 DEF FlightCoherent, FirstBriefing, Correlate, TypeOK
<1>5. ASSUME NEW h \in Handlers, HandleBriefingChange(h) PROVE FlightCoherent'
  BY <1>1, <1>3, <1>4, <1>5 DEF HandleBriefingChange, KeepBriefing
<1> QED
  BY <1>1, <1>2, <1>5
  DEF Next, Step, SaveIni, SaveBriefing, Save, Coalesce, HandleFileChange, ReadFile, ReadFails,
      BroadcastMissionReady, vars

LEMMA CoherentInit == Init => FlightCoherent
BY DEF Init, FlightCoherent

(* The flight on offer is built of exactly the texts taken over last.      *)
THEOREM FlightIsCoherent == Spec => []FlightCoherent
BY CoherentInit, CoherentStep, TypeCorrect, PTL DEF Spec

-----------------------------------------------------------------------------
(* How the number of blocked handlers changes when handler h moves.        *)
LEMMA SendersFinite == IsFiniteSet(Senders) /\ Cardinality(Senders) \in Nat
BY HandlersFinite, FS_Subset, FS_CardinalityType DEF Senders

LEMMA SenderJoins ==
  ASSUME TypeOK, NEW h \in Handlers, pc[h] # "send", pc' = [pc EXCEPT ![h] = "send"]
  PROVE  Cardinality(Senders') = Cardinality(Senders) + 1
<1>1. Senders' = Senders \cup {h} /\ h \notin Senders
  BY DEF Senders, TypeOK
<1> QED
  BY <1>1, SendersFinite, FS_AddElement

LEMMA SenderLeaves ==
  ASSUME TypeOK, NEW h \in Handlers, pc[h] = "send", pc' = [pc EXCEPT ![h] = "idle"]
  PROVE  Cardinality(Senders') = Cardinality(Senders) - 1
<1>1. Senders' = Senders \ {h} /\ h \in Senders
  BY DEF Senders, TypeOK
<1> QED
  BY <1>1, SendersFinite, FS_RemoveElement

LEMMA SendersStay ==
  ASSUME TypeOK, NEW h \in Handlers, NEW c, pc[h] # "send", c # "send",
         pc' = [pc EXCEPT ![h] = c]
  PROVE  Senders' = Senders
BY DEF Senders, TypeOK

(* AnnouncedOnce is preserved: building a flight and joining the senders   *)
(* is one step, and so are leaving them and the hub's receive.             *)
LEMMA AnnouncedStep == TypeOK /\ AnnouncedOnce /\ [Next]_vars => AnnouncedOnce'
<1> SUFFICES ASSUME TypeOK, AnnouncedOnce, [Next]_vars PROVE AnnouncedOnce'
  OBVIOUS
<1> USE SendersFinite
<1>1. CASE UNCHANGED <<pc, correlated, announced>>
  BY <1>1 DEF AnnouncedOnce, Senders
<1>2. ASSUME NEW h \in Handlers, NEW c, c # "send", pc[h] # "send",
             pc' = [pc EXCEPT ![h] = c], UNCHANGED <<correlated, announced>>
      PROVE  AnnouncedOnce'
  BY <1>2, SendersStay DEF AnnouncedOnce
<1>3. ASSUME NEW h \in Handlers, pc[h] = "lock", pc' = [pc EXCEPT ![h] = "send"],
             correlated' = correlated + 1, UNCHANGED announced
      PROVE  AnnouncedOnce'
  <2>1. Cardinality(Senders') = Cardinality(Senders) + 1
    BY <1>3, SenderJoins
  <2>2. correlated \in Nat /\ announced \in Nat
    BY DEF TypeOK
  <2> QED
    BY <1>3, <2>1, <2>2 DEF AnnouncedOnce
<1>4. ASSUME NEW h \in Handlers, BroadcastMissionReady(h) PROVE AnnouncedOnce'
  <2>1. /\ pc[h] = "send" /\ pc' = [pc EXCEPT ![h] = "idle"]
        /\ announced' = announced + 1 /\ correlated' = correlated
    BY <1>4 DEF BroadcastMissionReady
  <2>2. Cardinality(Senders') = Cardinality(Senders) - 1
    BY <2>1, SenderLeaves
  <2>3. correlated \in Nat /\ announced \in Nat
    BY DEF TypeOK
  <2> QED
    BY <2>1, <2>2, <2>3 DEF AnnouncedOnce
<1>5. ASSUME NEW h \in Handlers, HandleIniChange(h) PROVE AnnouncedOnce'
  BY <1>2, <1>3, <1>5 DEF HandleIniChange, Locks, Correlate, Return
<1>6. ASSUME NEW h \in Handlers, HandleBriefingChange(h) PROVE AnnouncedOnce'
  BY <1>2, <1>3, <1>6
  DEF HandleBriefingChange, KeepBriefing, ReplaceBriefing, FirstBriefing,
      Locks, Correlate, Return
<1>7. ASSUME NEW h \in Handlers, NEW k \in Kinds, HandleFileChange(h, k)
      PROVE  AnnouncedOnce'
  BY <1>2, <1>7 DEF HandleFileChange
<1>8. ASSUME NEW h \in Handlers, ReadFile(h) \/ ReadFails(h) PROVE AnnouncedOnce'
  BY <1>2, <1>8 DEF ReadFile, ReadFails
<1> QED
  BY <1>1, <1>4, <1>5, <1>6, <1>7, <1>8
  DEF Next, Step, SaveIni, SaveBriefing, Save, Coalesce, vars

LEMMA AnnouncedInit == Init => AnnouncedOnce
<1> SUFFICES ASSUME Init PROVE AnnouncedOnce
  OBVIOUS
<1>1. Senders = {}
  BY DEF Init, Senders
<1> QED
  BY <1>1, FS_EmptySet DEF Init, AnnouncedOnce

(* Every correlation is announced exactly once.                            *)
THEOREM EveryFlightAnnouncedOnce == Spec => []AnnouncedOnce
BY AnnouncedInit, AnnouncedStep, TypeCorrect, PTL DEF Spec

-----------------------------------------------------------------------------
(* A flight is taken away only for a briefing with another plan.  By       *)
(* FlightCoherent the flight on offer holds the briefing that              *)
(* ReplaceBriefing compares with.                                          *)
LEMMA WithdrawStep ==
  ASSUME TypeOK, FlightCoherent, [Next]_vars,
         currentFlight # NoFlight, currentFlight' = NoFlight
  PROVE  currentFlight.briefing.plan # briefingContent'.plan
<1>1. ASSUME NEW h \in Handlers, HandleIniChange(h) PROVE FALSE
  BY <1>1, NilIsNoFlight DEF HandleIniChange, Correlate, TypeOK, Flight
<1>2. ASSUME NEW h \in Handlers, FirstBriefing(h) PROVE FALSE
  BY <1>2, NilIsNoFlight DEF FirstBriefing, Correlate, TypeOK, Flight
<1>3. ASSUME NEW h \in Handlers, ReplaceBriefing(h)
      PROVE  currentFlight.briefing.plan # briefingContent'.plan
  BY <1>3 DEF ReplaceBriefing, IsBriefingEqual, FlightCoherent
<1>4. \E h \in Handlers : HandleIniChange(h) \/ FirstBriefing(h) \/ ReplaceBriefing(h)
  BY DEF Next, Step, SaveIni, SaveBriefing, Save, Coalesce, HandleFileChange, ReadFile, ReadFails,
         HandleBriefingChange, KeepBriefing, BroadcastMissionReady, vars, fmVars
<1> QED
  BY <1>1, <1>2, <1>3, <1>4

THEOREM WithdrawnForNewPlan == Spec => WithdrawnOnlyForNewPlan
BY WithdrawStep, TypeCorrect, FlightIsCoherent, PTL DEF Spec, WithdrawnOnlyForNewPlan

-----------------------------------------------------------------------------
(* SerialHandlingCorrelates is not inductive.  What makes it true is where *)
(* the news about each file are while the handlers run one at a time and   *)
(* in order: still with the watcher, with the running handler, lost by     *)
(* fsnotify or with a failed read, or taken over.                          *)
IniTaken == hasIni /\ iniContent = disk["ini"]

BriefingTaken == hasBriefing /\ IsBriefingEqual(briefingContent, disk["briefing"])

Handling(k) == \E h \in Handlers : Active(h) /\ kind[h] = k

IniNotNewer == disk["ini"].at =< disk["briefing"].at

(* A later handler will see the file, or the watcher was not told of it.   *)
Pending(k) == notify[k] > 0 \/ k \in unseen

OneAtATime == \A g, h \in Handlers : Active(g) /\ Active(h) => g = h

ReadsAreFresh ==
  \A h \in Handlers :
    pc[h] = "lock" => text[h] = disk[kind[h]] \/ Pending(kind[h])

BriefingKnown ==
  \/ disk["briefing"] = NoText
  \/ Pending("briefing") \/ "briefing" \in unreadable
  \/ Handling("briefing")
  \/ BriefingTaken

IniKnown ==
  \/ disk["ini"] = NoText
  \/ Pending("ini") \/ "ini" \in unreadable
  \/ Handling("ini")
  \/ IniTaken
  \/ IniNotNewer

(* A briefing that is not taken over yet was saved after the INI, or the *)
(* INI is to be handled after it: a handled briefing clears no later INI. *)
InOrder ==
  notify["briefing"] > 0 \/ Handling("briefing")
    => Pending("ini") \/ IniNotNewer

ClockBounds == \A k \in Kinds : disk[k].at =< clock

SerialInv ==
  /\ ClockBounds
  /\ ~disordered => OneAtATime /\ ReadsAreFresh /\ BriefingKnown /\ IniKnown /\ InOrder

LEMMA SerialInit == Init => SerialInv
BY DEF Init, SerialInv, ClockBounds, OneAtATime, ReadsAreFresh, BriefingKnown, IniKnown,
       InOrder, Handling, Active, IniNotNewer, NoText, Kinds, Pending

(* Handler h leaves its locked section.                                    *)
Leaves(h) ==
  /\ pc[h] = "lock"
  /\ \E c \in {"idle", "send"} : pc' = [pc EXCEPT ![h] = c]
  /\ UNCHANGED <<diskVars, notify, unseen, kind, text, unreadable, disordered>>

LEMMA LeavingHandler ==
  ASSUME TypeOK, ClockBounds, NEW h \in Handlers, Leaves(h)
  PROVE  /\ ClockBounds' /\ (OneAtATime => OneAtATime')
         /\ (ReadsAreFresh => ReadsAreFresh') /\ (InOrder => InOrder')
         /\ \A j : Handling(j)' => Handling(j)
         /\ \A j : Handling(j) => Handling(j)' \/ j = kind[h]
<1>1. /\ \A g \in Handlers : Active(g)' => Active(g)
      /\ \A g \in Handlers : Active(g) => Active(g)' \/ g = h
      /\ \A g \in Handlers : pc'[g] = "lock" => pc[g] = "lock"
  BY DEF Leaves, Active, TypeOK
<1>2. /\ \A j : Handling(j)' => Handling(j)
      /\ \A j : Handling(j) => Handling(j)' \/ j = kind[h]
  BY <1>1 DEF Leaves, Handling
<1> QED
  BY <1>1, <1>2
  DEF Leaves, ClockBounds, OneAtATime, ReadsAreFresh, InOrder, IniNotNewer, Pending, diskVars

LEMMA SerialStep == TypeOK /\ SerialInv /\ [Next]_vars => SerialInv'
<1> SUFFICES ASSUME TypeOK, SerialInv, [Next]_vars PROVE SerialInv'
  OBVIOUS
<1>1. ASSUME NEW k \in Kinds, NEW p \in Plans \cup {NoPlan}, Save(k, p) PROVE SerialInv'
  <2>1. /\ disk' = [disk EXCEPT ![k] = [at |-> clock + 1, plan |-> p]]
        /\ disk \in [Kinds -> Text]
        /\ notify \in [Kinds -> Nat] /\ unseen \in SUBSET Kinds
        /\ \/ notify' = [notify EXCEPT ![k] = @ + 1] /\ unseen' = unseen \ {k}
           \/ notify' = notify /\ unseen' = unseen \cup {k}
        /\ clock' = clock + 1 /\ clock \in Nat
        /\ UNCHANGED <<fmVars, pc, kind, text, disordered, unreadable>>
    BY <1>1, SavesAssumption DEF Save, TypeOK
  <2>2. /\ disk'[k].at = clock + 1
        /\ \A j \in Kinds \ {k} : disk'[j] = disk[j]
        /\ \A j \in Kinds : disk[j].at \in Nat /\ disk[j].at =< clock
    BY <2>1 DEF SerialInv, ClockBounds, Text
  <2>3. ClockBounds'
    BY <2>1, <2>2 DEF ClockBounds
  <2>11. Pending(k)' /\ \A j \in Kinds \ {k} : Pending(j)' <=> Pending(j)
    <3>1. CASE notify' = [notify EXCEPT ![k] = @ + 1] /\ unseen' = unseen \ {k}
      BY <2>1, <3>1 DEF Pending
    <3>2. CASE notify' = notify /\ unseen' = unseen \cup {k}
      BY <3>2 DEF Pending
    <3> QED
      BY <2>1, <3>1, <3>2
  <2>12. \A j \in Kinds \ {k} : notify'[j] = notify[j]
    BY <2>1
  <2>4. OneAtATime <=> OneAtATime'
    BY <2>1 DEF OneAtATime, Active
  <2>5. ReadsAreFresh => ReadsAreFresh'
    BY <2>1, <2>2, <2>11 DEF ReadsAreFresh, TypeOK
  <2>6. \A j \in Kinds : Handling(j)' <=> Handling(j)
    BY <2>1 DEF Handling, Active
  <2>7. BriefingKnown => BriefingKnown'
    BY <2>1, <2>2, <2>6, <2>11 DEF BriefingKnown, BriefingTaken, Kinds, fmVars
  <2>8. k = "briefing" => IniNotNewer'
    <3>1. ASSUME k = "briefing"
          PROVE  disk'["briefing"].at = clock + 1 /\ disk'["ini"] = disk["ini"]
      BY <2>2, <3>1 DEF Kinds
    <3>2. disk["ini"].at \in Nat /\ disk["ini"].at =< clock
      BY <2>2 DEF Kinds
    <3> QED
      BY <2>1, <3>1, <3>2 DEF IniNotNewer
  <2>9. IniKnown => IniKnown'
    BY <2>1, <2>2, <2>6, <2>8, <2>11 DEF IniKnown, IniTaken, Kinds, fmVars
  <2>10. InOrder => InOrder'
    BY <2>1, <2>6, <2>8, <2>11, <2>12 DEF InOrder, Kinds
  <2> QED
    BY <2>1, <2>3, <2>4, <2>5, <2>7, <2>9, <2>10 DEF SerialInv
<1>2. ASSUME NEW h \in Handlers, NEW k \in Kinds, HandleFileChange(h, k) PROVE SerialInv'
  <2>1. /\ pc[h] = "idle" /\ notify[k] > 0 /\ notify' = [notify EXCEPT ![k] = @ - 1]
        /\ pc' = [pc EXCEPT ![h] = "read"] /\ kind' = [kind EXCEPT ![h] = k]
        /\ UNCHANGED <<diskVars, fmVars, text, unreadable, unseen>>
    BY <1>2 DEF HandleFileChange
  <2>11. notify \in [Kinds -> Nat]
    BY DEF TypeOK
  <2>12. /\ \A j \in Kinds \ {k} : notify'[j] = notify[j] /\ (Pending(j)' <=> Pending(j))
         /\ notify'[k] > 0 => notify[k] > 0
         /\ Pending(k)' => Pending(k)
    BY <2>1, <2>11 DEF Pending
  <2>2. ClockBounds'
    BY <2>1 DEF ClockBounds, SerialInv, diskVars
  <2>3. SUFFICES ASSUME ~disordered' PROVE (OneAtATime /\ ReadsAreFresh /\ BriefingKnown /\ IniKnown /\ InOrder)'
    BY <2>2 DEF SerialInv
  <2>4. /\ ~disordered
        /\ \A g \in Handlers : ~Active(g)
        /\ \A j \in Kinds : notify[j] > 0 => ~(disk[j].at < disk[k].at)
    BY <1>2, <2>3 DEF HandleFileChange, OutOfTurn
  <2>5. /\ \A g \in Handlers : Active(g)' <=> g = h
        /\ \A j \in Kinds : Handling(j)' <=> j = k
        /\ \A j \in Kinds : ~Handling(j)
        /\ \A g \in Handlers : pc'[g] # "lock"
    BY <2>1, <2>4 DEF Handling, Active, TypeOK
  <2>6. OneAtATime' /\ ReadsAreFresh'
    BY <2>5 DEF OneAtATime, ReadsAreFresh
  <2>7. BriefingKnown'
    BY <2>1, <2>4, <2>5, <2>12 DEF SerialInv, BriefingKnown, BriefingTaken, Kinds, diskVars, fmVars
  <2>8. IniKnown'
    BY <2>1, <2>4, <2>5, <2>12 DEF SerialInv, IniKnown, IniTaken, IniNotNewer, Kinds, diskVars, fmVars
  <2>9. k = "ini" /\ notify["briefing"] > 0 => IniNotNewer
    <3>1. disk["ini"].at \in Nat /\ disk["briefing"].at \in Nat
      BY DEF TypeOK, Kinds, Text
    <3> QED
      BY <2>4, <3>1 DEF IniNotNewer, Kinds
  <2>10. InOrder'
    BY <2>1, <2>4, <2>5, <2>9, <2>12 DEF SerialInv, InOrder, IniNotNewer, Kinds, diskVars
  <2> QED
    BY <2>6, <2>7, <2>8, <2>10
<1>3. ASSUME NEW h \in Handlers, ReadFile(h) PROVE SerialInv'
  <2>1. /\ pc[h] = "read" /\ pc' = [pc EXCEPT ![h] = "lock"]
        /\ text' = [text EXCEPT ![h] = disk[kind[h]]]
        /\ unreadable' = unreadable \ {kind[h]}
        /\ UNCHANGED <<diskVars, notify, unseen, fmVars, kind, disordered>>
    BY <1>3 DEF ReadFile
  <2>2. /\ \A g \in Handlers : Active(g)' <=> Active(g)
        /\ \A j : Handling(j)' <=> Handling(j)
        /\ Handling(kind[h])
    BY <2>1 DEF Handling, Active, TypeOK
  <2>3. ReadsAreFresh => ReadsAreFresh'
    BY <2>1 DEF ReadsAreFresh, Pending, TypeOK, diskVars
  <2>4. BriefingKnown => BriefingKnown'
    BY <2>1, <2>2 DEF BriefingKnown, Pending, BriefingTaken, diskVars, fmVars
  <2>5. IniKnown => IniKnown'
    BY <2>1, <2>2 DEF IniKnown, Pending, IniTaken, IniNotNewer, diskVars, fmVars
  <2> QED
    BY <2>1, <2>2, <2>3, <2>4, <2>5
    DEF SerialInv, ClockBounds, OneAtATime, Pending, InOrder, IniNotNewer, diskVars
<1>4. ASSUME NEW h \in Handlers, ReadFails(h) PROVE SerialInv'
  <2>1. /\ pc[h] = "read" /\ pc' = [pc EXCEPT ![h] = "idle"]
        /\ unreadable' = unreadable \cup {kind[h]}
        /\ UNCHANGED <<diskVars, notify, unseen, fmVars, kind, text, disordered>>
    BY <1>4 DEF ReadFails
  <2>2. /\ \A g \in Handlers : Active(g)' => Active(g)
        /\ \A j : Handling(j)' => Handling(j)
        /\ \A j : Handling(j) => Handling(j)' \/ j = kind[h]
    BY <2>1 DEF Handling, Active, TypeOK
  <2>3. ReadsAreFresh => ReadsAreFresh'
    BY <2>1 DEF ReadsAreFresh, Pending, TypeOK, diskVars
  <2>4. BriefingKnown => BriefingKnown'
    BY <2>1, <2>2 DEF BriefingKnown, Pending, BriefingTaken, diskVars, fmVars
  <2>5. IniKnown => IniKnown'
    BY <2>1, <2>2 DEF IniKnown, Pending, IniTaken, IniNotNewer, diskVars, fmVars
  <2> QED
    BY <2>1, <2>2, <2>3, <2>4, <2>5
    DEF SerialInv, ClockBounds, OneAtATime, Pending, InOrder, IniNotNewer, diskVars
<1>5. ASSUME NEW h \in Handlers, HandleIniChange(h) PROVE SerialInv'
  <2>1. /\ Leaves(h) /\ kind[h] = "ini"
        /\ hasIni' = TRUE /\ iniContent' = text[h]
        /\ UNCHANGED <<hasBriefing, briefingContent>>
    BY <1>5 DEF HandleIniChange, Leaves, Locks, Correlate, Return
  <2>2. /\ ClockBounds' /\ (OneAtATime => OneAtATime')
        /\ (ReadsAreFresh => ReadsAreFresh') /\ (InOrder => InOrder')
    BY <2>1, LeavingHandler DEF SerialInv
  <2>3. BriefingKnown => BriefingKnown'
    BY <2>1, LeavingHandler DEF SerialInv, Leaves, BriefingKnown, Pending, BriefingTaken, diskVars
  <2>4. ReadsAreFresh => Pending("ini")' \/ IniTaken'
    BY <2>1 DEF Leaves, ReadsAreFresh, Pending, IniTaken, diskVars
  <2> QED
    BY <2>1, <2>2, <2>3, <2>4 DEF SerialInv, IniKnown, Pending, Leaves
<1>6. ASSUME NEW h \in Handlers, HandleBriefingChange(h) PROVE SerialInv'
  <2>1. Leaves(h) /\ kind[h] = "briefing"
    BY <1>6 DEF HandleBriefingChange, Leaves, Locks, Correlate, Return,
                KeepBriefing, ReplaceBriefing, FirstBriefing
  <2>2. /\ ClockBounds' /\ (OneAtATime => OneAtATime')
        /\ (ReadsAreFresh => ReadsAreFresh') /\ (InOrder => InOrder')
    BY <2>1, LeavingHandler DEF SerialInv
  <2>3. hasBriefing' /\ IsBriefingEqual(briefingContent', text[h])
    BY <1>6 DEF HandleBriefingChange, KeepBriefing, ReplaceBriefing, FirstBriefing,
                IsBriefingEqual, fmVars
  <2>4. ReadsAreFresh => Pending("briefing")' \/ BriefingTaken'
    BY <2>1, <2>3 DEF Leaves, ReadsAreFresh, Pending, BriefingTaken, IsBriefingEqual, diskVars
  <2>5. Handling("briefing")
    BY <2>1 DEF Leaves, Handling, Active
  <2>6. CASE UNCHANGED <<hasIni, iniContent>>
    BY <2>1, <2>2, <2>4, <2>6, LeavingHandler
    DEF SerialInv, IniKnown, Pending, IniTaken, IniNotNewer, BriefingKnown, Leaves, diskVars
  <2>7. CASE ReplaceBriefing(h)
    BY <2>1, <2>2, <2>4, <2>5, LeavingHandler
    DEF SerialInv, InOrder, Pending, IniKnown, IniNotNewer, BriefingKnown, Leaves, diskVars
  <2> QED
    BY <1>6, <2>6, <2>7 DEF HandleBriefingChange, KeepBriefing, FirstBriefing, fmVars
<1>7. ASSUME NEW h \in Handlers, BroadcastMissionReady(h) PROVE SerialInv'
  <2>1. /\ pc[h] = "send" /\ pc' = [pc EXCEPT ![h] = "idle"]
        /\ UNCHANGED <<diskVars, notify, unseen, fmVars, kind, text, disordered, unreadable>>
    BY <1>7 DEF BroadcastMissionReady
  <2>2. /\ \A g \in Handlers : Active(g)' <=> Active(g)
        /\ \A g \in Handlers : pc'[g] = "lock" <=> pc[g] = "lock"
    BY <2>1 DEF Active, TypeOK
  <2> QED
    BY <2>1, <2>2 DEF SerialInv, ClockBounds, OneAtATime, Pending, ReadsAreFresh, BriefingKnown, IniKnown,
      InOrder, Handling, IniTaken, BriefingTaken, IniNotNewer, diskVars, fmVars
<1>8. ASSUME NEW k \in Kinds, Coalesce(k) PROVE SerialInv'
  <2>1. /\ notify[k] > 1 /\ notify' = [notify EXCEPT ![k] = @ - 1]
        /\ notify \in [Kinds -> Nat]
        /\ UNCHANGED <<diskVars, unseen, fmVars, pc, kind, text, disordered, unreadable>>
    BY <1>8 DEF Coalesce, TypeOK
  <2>2. \A j \in Kinds : (notify'[j] > 0 <=> notify[j] > 0) /\ (Pending(j)' <=> Pending(j))
    BY <2>1 DEF Pending
  <2>3. ReadsAreFresh => ReadsAreFresh'
    BY <2>1, <2>2 DEF ReadsAreFresh, TypeOK, diskVars
  <2>4. (InOrder => InOrder') /\ (BriefingKnown => BriefingKnown') /\ (IniKnown => IniKnown')
    BY <2>1, <2>2 DEF InOrder, BriefingKnown, IniKnown, Handling, Active, IniTaken, BriefingTaken,
      IniNotNewer, Kinds, diskVars, fmVars
  <2> QED
    BY <2>1, <2>3, <2>4 DEF SerialInv, ClockBounds, OneAtATime, Active, diskVars
<1>9. CASE UNCHANGED vars
  BY <1>9 DEF SerialInv, ClockBounds, OneAtATime, Pending, ReadsAreFresh, BriefingKnown, IniKnown,
      InOrder, Handling, Active, IniTaken, BriefingTaken, IniNotNewer, vars, diskVars, fmVars
<1> QED
  BY <1>1, <1>2, <1>3, <1>4, <1>5, <1>6, <1>7, <1>8, <1>9
  DEF Next, Step, SaveIni, SaveBriefing, Kinds

(* Handled one at a time and in order, the latest INI of the latest        *)
(* briefing ends up in the flight on offer.                                *)
THEOREM SerialHandling == Spec => []SerialHandlingCorrelates
<1>1. TypeOK /\ FlightCoherent /\ SerialInv => SerialHandlingCorrelates
  <2> SUFFICES ASSUME TypeOK, FlightCoherent, SerialInv, IniSavedLast, ~disordered
               PROVE  ServesDisk
    BY DEF SerialHandlingCorrelates
  <2>1. /\ \A k \in Kinds : ~Pending(k)
        /\ unreadable = {}
        /\ \A k : ~Handling(k)
        /\ disk["briefing"] # NoText /\ disk["ini"].at > disk["briefing"].at
    BY DEF IniSavedLast, Quiet, Handling, Active, Pending, TypeOK
  <2>2. disk["ini"].at \in Nat /\ disk["briefing"].at \in Nat
    BY DEF TypeOK, Kinds, Text
  <2>3. ~IniNotNewer /\ disk["ini"] # NoText
    BY <2>1, <2>2 DEF IniNotNewer, NoText
  <2>4. IniTaken /\ BriefingTaken
    BY <2>1, <2>3 DEF SerialInv, IniKnown, BriefingKnown, Kinds
  <2>5. currentFlight = [ini |-> iniContent, briefing |-> briefingContent]
    BY <2>4 DEF FlightCoherent, IniTaken, BriefingTaken
  <2> QED
    BY <2>4, <2>5, NilIsNoFlight DEF ServesDisk, IniTaken, BriefingTaken, Flight, TypeOK
<1> QED
  BY <1>1, SerialInit, SerialStep, TypeCorrect, FlightIsCoherent, PTL DEF Spec

-----------------------------------------------------------------------------
(* The flight manager implements the mission state machine.  FlightCoherent *)
(* says that a flight can be downloaded exactly in phase "ready", and       *)
(* AnnouncedOnce that an announcement is owed while a handler is blocked.   *)
LEMMA MissionInit == Init => Mission!Init
BY DEF Init, Mission!Init

LEMMA MissionStep ==
  TypeOK /\ TypeOK' /\ FlightCoherent /\ FlightCoherent' /\ AnnouncedOnce /\ [Next]_vars
    => [Mission!Next]_Mission!missionVars
<1> SUFFICES ASSUME TypeOK, TypeOK', FlightCoherent, FlightCoherent', AnnouncedOnce, [Next]_vars
             PROVE  [Mission!Next]_Mission!missionVars
  OBVIOUS
<1>1. /\ hasIni \in BOOLEAN /\ hasBriefing \in BOOLEAN
      /\ correlated \in Nat /\ announced \in Nat
      /\ currentFlight # NoFlight <=> hasIni /\ hasBriefing
      /\ currentFlight' # NoFlight <=> hasIni' /\ hasBriefing'
  BY NilIsNoFlight DEF TypeOK, FlightCoherent, Flight
<1>2. CASE UNCHANGED <<hasIni, hasBriefing, correlated, announced>>
  BY <1>1, <1>2 DEF Mission!missionVars
<1>3. ASSUME NEW h \in Handlers, HandleIniChange(h) PROVE Mission!IniAdopted
  <2>1. CASE ~hasBriefing
    BY <1>1, <1>3, <2>1 DEF HandleIniChange, Return, Correlate, Mission!IniAdopted
  <2>2. CASE hasBriefing
    BY <1>1, <1>3, <2>2
    DEF HandleIniChange, Return, Correlate, Mission!IniAdopted, Mission!Correlate
  <2> QED
    BY <1>1, <2>1, <2>2
<1>4. ASSUME NEW h \in Handlers, FirstBriefing(h), UNCHANGED announced PROVE Mission!FirstBriefing
  <2>1. CASE ~hasIni
    BY <1>1, <1>4, <2>1 DEF FirstBriefing, Return, Correlate, Mission!FirstBriefing
  <2>2. CASE hasIni
    BY <1>1, <1>4, <2>2
    DEF FirstBriefing, Return, Correlate, Mission!FirstBriefing, Mission!Correlate
  <2> QED
    BY <1>1, <2>1, <2>2
<1>5. ASSUME NEW h \in Handlers, ReplaceBriefing(h), UNCHANGED announced PROVE Mission!NewBriefing
  BY <1>1, <1>5 DEF ReplaceBriefing, Return, Mission!NewBriefing
<1>6. ASSUME NEW h \in Handlers, BroadcastMissionReady(h) PROVE Mission!Announce
  <2>1. Senders # {} /\ Cardinality(Senders) # 0
    BY <1>6, SendersFinite, FS_EmptySet DEF BroadcastMissionReady, Senders
  <2>2. correlated - announced > 0
    BY <1>1, <2>1, SendersFinite DEF AnnouncedOnce
  <2>3. /\ announced' = announced + 1 /\ correlated' = correlated
        /\ UNCHANGED <<hasIni, hasBriefing, currentFlight>>
    BY <1>6 DEF BroadcastMissionReady, fmVars
  <2>4. correlated' - announced' = correlated - announced - 1
    BY <1>1, <2>3
  <2> QED
    BY <2>2, <2>3, <2>4 DEF Mission!Announce
<1>7. ASSUME NEW h \in Handlers, HandleBriefingChange(h)
      PROVE  \/ Mission!Next
             \/ UNCHANGED <<hasIni, hasBriefing, currentFlight, correlated, announced>>
  BY <1>4, <1>5, <1>7 DEF HandleBriefingChange, KeepBriefing, Return, fmVars, Mission!Next
<1>8. \/ Mission!Next
      \/ UNCHANGED <<hasIni, hasBriefing, currentFlight, correlated, announced>>
  BY <1>3, <1>6, <1>7
  DEF Next, Step, SaveIni, SaveBriefing, Save, Coalesce, HandleFileChange, ReadFile, ReadFails,
      vars, fmVars, Mission!Next
<1> QED
  BY <1>2, <1>8

(* Clients see nothing of the flight manager that the mission state        *)
(* machine forbids.                                                        *)
THEOREM ImplementsMission == Spec => MissionSpec
BY MissionInit, MissionStep, TypeCorrect, FlightIsCoherent, EveryFlightAnnouncedOnce, PTL
DEF Spec, MissionSpec, Mission!Spec
=============================================================================
