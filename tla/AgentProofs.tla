----------------------------- MODULE AgentProofs -----------------------------
(***************************************************************************)
(* What is proved of Agent for any plans, connections, writes and size of  *)
(* fsnotify's queue: that it implements each of its three parts, so that   *)
(* what the watcher does is what FlightManager assumes of its callers and  *)
(* what the handlers do is what WebsocketHub assumes of its producers;     *)
(* that what is proved of a part alone holds in it therefore; and that no  *)
(* client keeps showing a flight that was replaced.                        *)
(***************************************************************************)
EXTENDS Agent, Functions, SequenceTheorems, FiniteSetTheorems, TLAPS

WriteEvent == [name : Kinds, write : {TRUE}]
OnlyCallback == "HandleFileChange"
Ran(t) == state[t] # "unused"

(* The types of what the watcher keeps, and of its handlers' positions.    *)
WatcherTypes ==
  /\ writes \in Nat
  /\ watched \in SUBSET Kinds
  /\ events \in Seq(WriteEvent)
  /\ lost \in [Kinds -> BOOLEAN]
  /\ debounceTimers \in [Kinds -> Timers \cup {Nil}]
  /\ armed \in 0 .. MaxWrites
  /\ state \in [Timers -> {"unused", "armed", "stopped", "fired", "notify", "calling", "done"}]
  /\ file \in [Timers -> Kinds \cup {Nil}]
  /\ left \in [Timers -> Seq({OnlyCallback})]
  /\ pc \in [Timers -> {"idle", "read", "lock", "send"}]

(* The callback is registered before the loop starts, and nothing happens  *)
(* in the watcher before that.                                             *)
StartInv ==
  /\ main = "watcher" => callbacks = <<>>
  /\ main \in {"ini", "briefing", "start"} => callbacks = <<OnlyCallback>>
  /\ main \in {"watcher", "ini", "briefing", "start"} => loop = "off"
  /\ loop # "off" => callbacks = <<OnlyCallback>>
  /\ \A t \in Timers : Ran(t) => loop # "off"

(* A timer that ran is of one of the two files and has the one callback to *)
(* call; it has no handler before the call.                                *)
TimerInv ==
  /\ \A t \in Timers : t > armed => ~Ran(t)
  /\ \A t \in Timers : Ran(t) => file[t] \in Kinds
  /\ \A k \in Kinds : debounceTimers[k] # Nil =>
       file[debounceTimers[k]] = k /\ Ran(debounceTimers[k])
  /\ \A t \in Timers : state[t] = "calling" => left[t] = <<OnlyCallback>>
  /\ \A t \in Timers : state[t] # "done" => pc[t] = "idle"

AgentInv == WatcherTypes /\ StartInv /\ TimerInv

-----------------------------------------------------------------------------
(* How the number of owed calls changes with fsnotify's queue ...          *)
LEMMA NamedFinite ==
  ASSUME NEW q \in Seq(WriteEvent), NEW k
  PROVE  IsFiniteSet(Named(q, k)) /\ Cardinality(Named(q, k)) \in Nat
<1>1. Len(q) \in Nat
  BY LenProperties
<1>2. IsFiniteSet(1 .. Len(q))
  BY <1>1, FS_Interval
<1>3. Named(q, k) \in SUBSET (1 .. Len(q))
  BY DEF Named
<1> QED
  BY <1>2, <1>3, FS_Subset, FS_CardinalityType

LEMMA NamedAppend ==
  ASSUME NEW q \in Seq(WriteEvent), NEW e \in WriteEvent, NEW k
  PROVE  Cardinality(Named(Append(q, e), k)) =
           IF e.name = k THEN Cardinality(Named(q, k)) + 1 ELSE Cardinality(Named(q, k))
<1> DEFINE r == Append(q, e)
           n == Len(q) + 1
<1>1. /\ Len(q) \in Nat /\ Len(r) = n /\ r[n] = e
      /\ \A i \in 1 .. Len(q) : r[i] = q[i]
  BY AppendProperties, LenProperties
<1> HIDE DEF r
<1>2. 1 .. Len(r) = (1 .. Len(q)) \cup {n} /\ n \notin 1 .. Len(q)
  BY <1>1
<1>3. CASE e.name = k
  <2>1. Named(r, k) = Named(q, k) \cup {n} /\ n \notin Named(q, k)
    BY <1>1, <1>2, <1>3 DEF Named
  <2>2. Cardinality(Named(q, k) \cup {n}) = Cardinality(Named(q, k)) + 1
    <3>1. IsFiniteSet(Named(q, k))
      BY NamedFinite
    <3> HIDE DEF n
    <3> QED
      BY <2>1, <3>1, FS_AddElement
  <2> QED
    BY <1>3, <2>1, <2>2 DEF r
<1>4. CASE e.name # k
  <2>1. Named(r, k) = Named(q, k)
    BY <1>1, <1>2, <1>4 DEF Named
  <2> QED
    BY <1>4, <2>1 DEF r
<1> QED
  BY <1>3, <1>4

LEMMA NamedTail ==
  ASSUME NEW q \in Seq(WriteEvent), q # <<>>, NEW k
  PROVE  Cardinality(Named(Tail(q), k)) =
           IF Head(q).name = k THEN Cardinality(Named(q, k)) - 1 ELSE Cardinality(Named(q, k))
<1> DEFINE r == Tail(q)
           S == Named(r, k)
           T == Named(q, k) \ {1}
           f == [n \in S |-> n + 1]
<1>1. /\ r \in Seq(WriteEvent) /\ Len(q) \in Nat /\ Len(r) = Len(q) - 1 /\ Len(q) # 0
      /\ \A i \in 1 .. Len(r) : r[i] = q[i + 1]
      /\ Head(q) = q[1]
  BY HeadTailProperties, LenProperties
<1> HIDE DEF r
<1>2. \A n \in S : n \in Nat /\ n + 1 \in T
  BY <1>1 DEF Named
<1>3. \A m \in T : m - 1 \in S /\ (m - 1) + 1 = m
  BY <1>1 DEF Named
<1>4. f \in Bijection(S, T)
  <2> HIDE DEF S, T
  <2>1. f \in [S -> T]
    BY <1>2
  <2>2. IsInjective(f)
    BY <1>2 DEF IsInjective
  <2>3. \A m \in T : \E n \in S : f[n] = m
    BY <1>3
  <2> QED
    BY <2>1, <2>2, <2>3 DEF Bijection, Injection, Surjection
<1>5. Cardinality(S) = Cardinality(T)
  <2>1. IsFiniteSet(S)
    BY <1>1, NamedFinite
  <2> HIDE DEF S, T, f
  <2>2. ExistsBijection(S, T)
    BY <1>4 DEF ExistsBijection
  <2> QED
    BY <2>1, <2>2, FS_Bijection
<1>6. 1 \in Named(q, k) <=> Head(q).name = k
  BY <1>1 DEF Named
<1>7. IsFiniteSet(Named(q, k))
  BY NamedFinite
<1>8. Cardinality(T) = IF 1 \in Named(q, k) THEN Cardinality(Named(q, k)) - 1
                                            ELSE Cardinality(Named(q, k))
  BY <1>7, FS_RemoveElement
<1> QED
  BY <1>5, <1>6, <1>8 DEF r

(* ... and with the timers.                                                *)
Underway == {"armed", "fired", "notify", "calling"}

LEMMA WaitingFinite ==
  ASSUME NEW k
  PROVE  IsFiniteSet(Waiting(k)) /\ Cardinality(Waiting(k)) \in Nat
<1>1. IsFiniteSet(Timers)
  BY WritesAssumption, FS_Interval DEF Timers
<1> QED
  BY <1>1, FS_Subset, FS_CardinalityType DEF Waiting

(* Timer t moves from one state to another.                                *)
Moves(t, from, to) == state[t] = from /\ state' = [state EXCEPT ![t] = to] /\ file' = file

LEMMA WaitingStays ==
  ASSUME WatcherTypes, NEW t \in Timers, NEW from, NEW to, Moves(t, from, to), NEW k,
         from \in Underway <=> to \in Underway
  PROVE  Waiting(k)' = Waiting(k)
BY DEF WatcherTypes, Waiting, Moves, Underway

(* A timer's call is no longer owed when it is made.                       *)
LEMMA WaitingCalled ==
  ASSUME WatcherTypes, NEW t \in Timers, Moves(t, "calling", "done"), file[t] \in Kinds, NEW k
  PROVE  Cardinality(Waiting(k)') =
           IF k = file[t] THEN Cardinality(Waiting(k)) - 1 ELSE Cardinality(Waiting(k))
<1>1. t \in Waiting(k) <=> k = file[t]
  BY DEF Waiting, Moves
<1>2. Waiting(k)' = Waiting(k) \ {t}
  BY DEF WatcherTypes, Waiting, Moves
<1>3. IsFiniteSet(Waiting(k))
  BY WaitingFinite
<1> QED
  BY <1>1, <1>2, <1>3, FS_RemoveElement

(* What a write does to the timers of its file: timer n is armed, and the  *)
(* old one is stopped if it has not fired.                                 *)
LEMMA WaitingArmed ==
  ASSUME AgentInv, NEW g \in Kinds, Watcher!ArmTimer(g, Watcher!StopTimer(g)), NEW k \in Kinds
  PROVE  LET old == debounceTimers[g]
             stopped == old # Nil /\ state[old] = "armed"
         IN  Cardinality(Waiting(k)') =
               IF k = g /\ ~stopped THEN Cardinality(Waiting(k)) + 1 ELSE Cardinality(Waiting(k))
<1> DEFINE n == armed + 1
           old == debounceTimers[g]
           stopped == old # Nil /\ state[old] = "armed"
<1>1. /\ armed \in Nat /\ n \in Timers /\ ~Ran(n)
      /\ file' = [file EXCEPT ![n] = g]
      /\ state' = [Watcher!StopTimer(g) EXCEPT ![n] = "armed"]
  <2>1. armed \in Nat /\ n \in Timers /\ n > armed
    BY WritesAssumption DEF AgentInv, WatcherTypes, Watcher!ArmTimer, Timers
  <2> QED
    BY <2>1 DEF AgentInv, TimerInv, Watcher!ArmTimer
<1>2. n \notin Waiting(k)
  BY <1>1 DEF Waiting, Ran
<1>3. stopped => old \in Timers /\ old # n /\ file[old] = g
  <2>1. stopped => old \in Timers
    BY DEF AgentInv, WatcherTypes
  <2>2. stopped => Ran(old)
    BY DEF Ran
  <2> QED
    BY <1>1, <2>1, <2>2 DEF AgentInv, TimerInv
<1>4. Watcher!StopTimer(g) = IF stopped THEN [state EXCEPT ![old] = "stopped"] ELSE state
  BY DEF Watcher!StopTimer
<1>5. IsFiniteSet(Waiting(k)) /\ Cardinality(Waiting(k)) \in Nat
  BY WaitingFinite
<1> HIDE DEF n, old, stopped
<1>6. /\ state \in [Timers -> Underway \cup {"unused", "stopped", "done"}]
      /\ file \in [Timers -> Kinds \cup {Nil}]
  BY DEF AgentInv, WatcherTypes, Underway
<1>7. \A t \in Timers : file'[t] = IF t = n THEN g ELSE file[t]
  BY <1>1, <1>6
<1>8. CASE ~stopped
  <2>1. state' = [state EXCEPT ![n] = "armed"]
    BY <1>1, <1>4, <1>8
  <2>2. \A t \in Timers : state'[t] = IF t = n THEN "armed" ELSE state[t]
    BY <1>1, <1>6, <2>1
  <2>3. CASE k = g
    <3>1. Waiting(k)' = Waiting(k) \cup {n}
      BY <1>1, <1>7, <2>2, <2>3 DEF Waiting
    <3>2. Cardinality(Waiting(k) \cup {n}) = Cardinality(Waiting(k)) + 1
      BY <1>2, <1>5, FS_AddElement
    <3> QED
      BY <1>8, <2>3, <3>1, <3>2 DEF old, stopped
  <2>4. CASE k # g
    <3>1. Waiting(k)' = Waiting(k)
      BY <1>2, <1>7, <2>2, <2>4 DEF Waiting
    <3> QED
      BY <2>4, <3>1
  <2> QED
    BY <2>3, <2>4
<1>9. CASE stopped
  <2>1. /\ state[old] = "armed" /\ old \in Timers /\ old # n /\ file[old] = g
        /\ state' = [[state EXCEPT ![old] = "stopped"] EXCEPT ![n] = "armed"]
    BY <1>1, <1>3, <1>4, <1>9 DEF stopped
  <2>2. \A t \in Timers : state'[t] = IF t = n THEN "armed"
                                       ELSE IF t = old THEN "stopped" ELSE state[t]
    BY <1>1, <1>6, <2>1
  <2>3. CASE k = g
    <3>1. Waiting(k)' = (Waiting(k) \ {old}) \cup {n} /\ old \in Waiting(k)
      BY <1>1, <1>7, <2>1, <2>2, <2>3 DEF Waiting
    <3>2. /\ IsFiniteSet(Waiting(k) \ {old})
          /\ Cardinality(Waiting(k) \ {old}) = Cardinality(Waiting(k)) - 1
      BY <1>5, <3>1, FS_RemoveElement
    <3>3. Cardinality((Waiting(k) \ {old}) \cup {n}) = Cardinality(Waiting(k) \ {old}) + 1
      BY <1>2, <3>2, FS_AddElement
    <3> QED
      BY <1>5, <1>9, <3>1, <3>2, <3>3 DEF old, stopped
  <2>4. CASE k # g
    <3>1. Waiting(k)' = Waiting(k)
      BY <1>2, <1>7, <2>1, <2>2, <2>4 DEF Waiting
    <3> QED
      BY <2>4, <3>1
  <2> QED
    BY <2>3, <2>4
<1> QED
  BY <1>8, <1>9

-----------------------------------------------------------------------------
(* AgentInv is inductive.                                                  *)
LEMMA AgentInit == Init => AgentInv
<1> SUFFICES ASSUME Init PROVE AgentInv
  OBVIOUS
<1>1. WatcherTypes
  BY WritesAssumption DEF Init, Watcher!Init, Watcher!Timers, Timers, Flight!Init, WatcherTypes
<1>2. StartInv
  BY DEF Init, Watcher!Init, Watcher!Timers, Timers, StartInv, Ran
<1>3. TimerInv
  BY DEF Init, Watcher!Init, Watcher!Timers, Timers, Flight!Init, TimerInv, Ran
<1> QED
  BY <1>1, <1>2, <1>3 DEF AgentInv

(* A timer of the watcher takes its next step.                             *)
LEMMA TimerStep ==
  ASSUME AgentInv, NEW t \in Timers, UNCHANGED main, UNCHANGED pc,
         Watcher!Fire(t) \/ Watcher!ForgetTimer(t) \/ Watcher!NotifyCallbacks(t)
  PROVE  AgentInv'
<1> USE DEF Watcher!Turn, Watcher!fsVars
<1>1. WatcherTypes /\ StartInv /\ TimerInv
  BY DEF AgentInv
<1>2. CASE Watcher!Fire(t)
  BY <1>1, <1>2 DEF AgentInv, WatcherTypes, StartInv, TimerInv, Ran, Watcher!Fire
<1>3. CASE Watcher!ForgetTimer(t)
  <2>1. /\ state[t] = "fired" /\ state' = [state EXCEPT ![t] = "notify"]
        /\ debounceTimers' \in [Kinds -> Timers \cup {Nil}]
        /\ \A k \in Kinds : debounceTimers'[k] # Nil => debounceTimers'[k] = debounceTimers[k]
        /\ UNCHANGED <<writes, watched, events, lost, armed, file, left, callbacks, loop>>
    BY <1>1, <1>3 DEF Watcher!ForgetTimer, WatcherTypes
  <2> QED
    BY <1>1, <2>1 DEF AgentInv, WatcherTypes, StartInv, TimerInv, Ran
<1>4. CASE Watcher!NotifyCallbacks(t)
  <2>1. callbacks = <<OnlyCallback>>
    BY <1>1, <1>4 DEF Watcher!NotifyCallbacks, StartInv, Ran
  <2>2. callbacks # <<>> /\ callbacks \in Seq({OnlyCallback})
    BY <2>1
  <2>3. /\ state[t] = "notify" /\ state' = [state EXCEPT ![t] = "calling"]
        /\ left' = [left EXCEPT ![t] = <<OnlyCallback>>]
        /\ UNCHANGED <<writes, watched, events, lost, debounceTimers, armed, file, callbacks, loop>>
    BY <1>4, <2>1, <2>2 DEF Watcher!NotifyCallbacks
  <2> QED
    BY <1>1, <2>1, <2>2, <2>3 DEF AgentInv, WatcherTypes, StartInv, TimerInv, Ran
<1> QED
  BY <1>2, <1>3, <1>4

(* The event loop takes an event.                                          *)
LEMMA EventTaken ==
  ASSUME AgentInv, Watcher!HandleEvent
  PROVE  /\ events \in Seq(WriteEvent) /\ events # <<>> /\ events' = Tail(events)
         /\ Tail(events) \in Seq(WriteEvent)
         /\ Head(events).name \in Kinds
         /\ Watcher!ArmTimer(Head(events).name, Watcher!StopTimer(Head(events).name))
<1>1. events \in Seq(WriteEvent) /\ events # <<>> /\ events' = Tail(events)
  BY DEF AgentInv, WatcherTypes, Watcher!HandleEvent
<1>2. Head(events) \in WriteEvent /\ Tail(events) \in Seq(WriteEvent)
  BY <1>1, HeadTailProperties
<1>3. Head(events).name \in Kinds /\ Head(events).write
  BY <1>2 DEF WriteEvent
<1> QED
  BY <1>1, <1>2, <1>3 DEF Watcher!HandleEvent, Watcher!Relevant

LEMMA EventStep ==
  ASSUME AgentInv, UNCHANGED main, UNCHANGED pc, Watcher!HandleEvent
  PROVE  AgentInv'
<1>1. WatcherTypes /\ StartInv /\ TimerInv
  BY DEF AgentInv
<1>2. PICK g \in Kinds : g = Head(events).name /\ Watcher!ArmTimer(g, Watcher!StopTimer(g))
  BY EventTaken
<1>3. /\ events' \in Seq(WriteEvent)
      /\ UNCHANGED <<writes, watched, lost, loop, callbacks, left>>
      /\ loop = "running"
  BY EventTaken DEF Watcher!HandleEvent, Watcher!fsVars
<1>4. PICK n \in Timers : n = armed + 1 /\ armed \in Nat /\ armed + 1 \in 0 .. MaxWrites
  BY <1>1, <1>2, WritesAssumption DEF WatcherTypes, Watcher!ArmTimer, Timers
<1>5. /\ armed' = armed + 1 /\ file' = [file EXCEPT ![n] = g]
      /\ debounceTimers' = [debounceTimers EXCEPT ![g] = n]
      /\ state' = [Watcher!StopTimer(g) EXCEPT ![n] = "armed"]
  BY <1>2, <1>4 DEF Watcher!ArmTimer
<1>6. /\ Watcher!StopTimer(g) \in [Timers -> {"unused", "armed", "stopped", "fired", "notify", "calling", "done"}]
      /\ \A t \in Timers : \/ Watcher!StopTimer(g)[t] = state[t]
                           \/ Watcher!StopTimer(g)[t] = "stopped" /\ state[t] = "armed"
  BY <1>1 DEF Watcher!StopTimer, WatcherTypes
<1>7. /\ state'[n] = "armed"
      /\ \A t \in Timers \ {n} : \/ state'[t] = state[t]
                                 \/ state'[t] = "stopped" /\ state[t] = "armed"
  BY <1>5, <1>6
<1>8. ~Ran(n)
  BY <1>1, <1>4 DEF TimerInv
<1>9. WatcherTypes'
  BY <1>1, <1>3, <1>4, <1>5, <1>6 DEF WatcherTypes
<1>10. StartInv'
  BY <1>1, <1>3, <1>7 DEF StartInv, Ran
<1>11. TimerInv'
  <2>1. \A t \in Timers : t > armed + 1 => t > armed /\ t # n
    BY <1>4 DEF Timers
  <2>2. file'[n] = g /\ \A t \in Timers \ {n} : file'[t] = file[t]
    BY <1>1, <1>5 DEF WatcherTypes
  <2>3. \A t \in Timers : t > armed' => ~Ran(t)'
    BY <1>1, <1>5, <1>7, <2>1 DEF TimerInv, Ran
  <2>4. \A t \in Timers : Ran(t)' => file'[t] \in Kinds
    BY <1>1, <1>7, <2>2 DEF TimerInv, Ran
  <2>5. ASSUME NEW k \in Kinds, debounceTimers'[k] # Nil
        PROVE  file'[debounceTimers'[k]] = k /\ Ran(debounceTimers[k])'
    <3>1. CASE k = g
      <4>1. debounceTimers'[k] = n
        BY <1>1, <1>5, <3>1 DEF WatcherTypes
      <4> QED
        BY <1>7, <2>2, <3>1, <4>1 DEF Ran
    <3>2. CASE k # g
      <4>1. debounceTimers'[k] = debounceTimers[k]
        BY <1>1, <1>5, <3>2 DEF WatcherTypes
      <4>2. /\ debounceTimers[k] \in Timers \ {n}
            /\ file[debounceTimers[k]] = k /\ Ran(debounceTimers[k])
        BY <1>1, <1>8, <2>5, <4>1 DEF WatcherTypes, TimerInv
      <4> QED
        BY <1>7, <2>2, <4>1, <4>2 DEF Ran
    <3> QED
      BY <3>1, <3>2
  <2>6. \A t \in Timers : state'[t] = "calling" => left'[t] = <<OnlyCallback>>
    BY <1>1, <1>3, <1>7 DEF TimerInv
  <2>7. \A t \in Timers : state'[t] # "done" => pc'[t] = "idle"
    BY <1>1, <1>7, <1>8 DEF TimerInv, Ran
  <2> QED
    BY <2>3, <2>4, <2>5, <2>6, <2>7 DEF TimerInv
<1> QED
  BY <1>9, <1>10, <1>11 DEF AgentInv

(* A handler takes a step: only its position changes, and its timer is     *)
(* done with.                                                              *)
LEMMA HandlerMoves ==
  ASSUME AgentInv, NEW t \in Timers, pc[t] # "idle",
         \E c \in {"idle", "read", "lock", "send"} : pc' = [pc EXCEPT ![t] = c],
         UNCHANGED main, UNCHANGED watcherVars
  PROVE  AgentInv'
<1>1. state[t] = "done"
  BY DEF AgentInv, TimerInv
<1>2. WatcherTypes'
  BY DEF AgentInv, WatcherTypes, watcherVars
<1>3. StartInv'
  BY DEF AgentInv, StartInv, Ran, watcherVars
<1>4. TimerInv'
  BY <1>1 DEF AgentInv, WatcherTypes, TimerInv, Ran, watcherVars
<1> QED
  BY <1>2, <1>3, <1>4 DEF AgentInv

(* What the handlers' own steps do to their positions.                     *)
LEMMA HandlerTurn ==
  ASSUME NEW t \in Timers, HandlerStep(t)
  PROVE  /\ pc[t] \in {"read", "lock"}
         /\ \E c \in {"idle", "lock", "send"} : pc' = [pc EXCEPT ![t] = c]
         /\ UNCHANGED main /\ UNCHANGED watcherVars
BY DEF HandlerStep, Flight!ReadFile, Flight!ReadFails, Flight!HandleIniChange,
       Flight!HandleBriefingChange, Flight!KeepBriefing, Flight!ReplaceBriefing,
       Flight!FirstBriefing, Flight!Correlate, Flight!Return, Flight!Locks

(* What the call of HandleFileChange does to its timer.                    *)
LEMMA CallTurn ==
  ASSUME AgentInv, NEW t \in Timers, HandleFileChange(t)
  PROVE  /\ Moves(t, "calling", "done") /\ file[t] \in Kinds
         /\ pc[t] = "idle" /\ pc' = [pc EXCEPT ![t] = "read"]
         /\ left' = [left EXCEPT ![t] = <<>>]
         /\ UNCHANGED <<main, writes, watched, events, lost, loop, callbacks, debounceTimers, armed>>
<1>1. /\ state[t] = "calling" /\ left[t] = <<OnlyCallback>>
      /\ left' = [left EXCEPT ![t] = Tail(left[t])]
      /\ state' = [state EXCEPT ![t] = IF Tail(left[t]) = <<>> THEN "done" ELSE "calling"]
      /\ pc' = [pc EXCEPT ![t] = "read"]
      /\ UNCHANGED <<main, writes, watched, events, lost, loop, callbacks, debounceTimers, armed, file>>
  BY DEF AgentInv, TimerInv, HandleFileChange, Watcher!Call, Watcher!Turn, Watcher!fsVars
<1>2. Tail(left[t]) = <<>>
  BY <1>1
<1>3. file[t] \in Kinds /\ pc[t] = "idle"
  BY <1>1 DEF AgentInv, TimerInv, Ran
<1> QED
  BY <1>1, <1>2, <1>3 DEF Moves

LEMMA AgentStep == AgentInv /\ [Next]_vars => AgentInv'
<1> SUFFICES ASSUME AgentInv, [Next]_vars PROVE AgentInv'
  OBVIOUS
<1>1. WatcherTypes /\ StartInv /\ TimerInv
  BY DEF AgentInv
<1>2. ASSUME NEW k \in Kinds, NEW p \in Plans \cup {NoPlan}, Save(k, p) PROVE AgentInv'
  <2>1. [name |-> k, write |-> TRUE] \in WriteEvent
    BY DEF WriteEvent
  <2>2. Append(events, [name |-> k, write |-> TRUE]) \in Seq(WriteEvent)
    BY <1>1, <2>1, AppendProperties DEF WatcherTypes
  <2>3. Watcher!Write(k) /\ UNCHANGED <<main, pc>>
    BY <1>2 DEF Save
  <2>4. UNCHANGED <<watched, loop, callbacks, debounceTimers, armed, state, file, left>>
    BY <2>3 DEF Watcher!Write, Watcher!timerVars
  <2>5. events' \in Seq(WriteEvent)
    BY <1>1, <2>2, <2>3 DEF Watcher!Write, WatcherTypes
  <2>6. writes' \in Nat /\ lost' \in [Kinds -> BOOLEAN]
    <3>1. lost' = [lost EXCEPT ![k] = FALSE] \/ lost' = [lost EXCEPT ![k] = TRUE]
      BY <2>3 DEF Watcher!Write
    <3>2. lost' \in [Kinds -> BOOLEAN]
      BY <1>1, <3>1 DEF WatcherTypes
    <3> QED
      BY <1>1, <2>3, <3>2 DEF Watcher!Write, WatcherTypes
  <2> QED
    BY <1>1, <2>3, <2>4, <2>5, <2>6 DEF AgentInv, WatcherTypes, StartInv, TimerInv, Ran
<1>3. CASE MainStep
  <2>1. pc' = pc
    BY <1>3 DEF MainStep, flightVars
  <2>2. CASE main = "watcher" /\ main' = "ini" /\ Watcher!OnChange("HandleFileChange")
    <3>1. callbacks' = <<OnlyCallback>> /\ loop = "off" /\ \A t \in Timers : ~Ran(t)
      BY <1>1, <2>2 DEF StartInv, Watcher!OnChange, OnlyCallback
    <3>2. UNCHANGED <<writes, watched, events, lost, loop, debounceTimers, armed, state, file, left>>
      BY <2>2 DEF Watcher!OnChange, Watcher!fsVars, Watcher!timerVars
    <3> QED
      BY <1>1, <2>1, <2>2, <3>1, <3>2 DEF AgentInv, WatcherTypes, StartInv, TimerInv, Ran
  <2>3. ASSUME NEW k \in Kinds, Watcher!Add(k),
               \/ main = "ini" /\ main' = "briefing"
               \/ main = "briefing" /\ main' = "start"
        PROVE  AgentInv'
    <3>1. /\ watched' \in SUBSET Kinds
          /\ UNCHANGED <<writes, events, lost, loop, callbacks, debounceTimers, armed, state, file, left>>
      BY <1>1, <2>3 DEF Watcher!Add, Watcher!timerVars, WatcherTypes
    <3> QED
      BY <1>1, <2>1, <2>3, <3>1 DEF AgentInv, WatcherTypes, StartInv, TimerInv, Ran
  <2>4. CASE /\ UNCHANGED watcherVars
             /\ \/ main = "watcher" /\ main' = "serve"
                \/ main = "ini" /\ main' = "briefing"
                \/ main = "briefing" /\ main' = "start"
    BY <1>1, <2>1, <2>4 DEF AgentInv, WatcherTypes, StartInv, TimerInv, Ran, watcherVars
  <2>5. CASE main = "start" /\ main' = "serve" /\ Watcher!Start
    <3>1. /\ loop' = "running" /\ callbacks = <<OnlyCallback>>
          /\ UNCHANGED <<writes, watched, events, lost, callbacks, debounceTimers, armed, state, file, left>>
      BY <1>1, <2>5 DEF Watcher!Start, Watcher!fsVars, Watcher!timerVars, StartInv
    <3> QED
      BY <1>1, <2>1, <2>5, <3>1 DEF AgentInv, WatcherTypes, StartInv, TimerInv, Ran
  <2> QED
    BY <1>3, <2>2, <2>3, <2>4, <2>5 DEF MainStep, Kinds
<1>4. CASE WatcherStep
  <2>1. pc' = pc /\ main' = main
    BY <1>4 DEF WatcherStep, flightVars
  <2>2. CASE Watcher!HandleEvent
    BY <2>1, <2>2, EventStep
  <2>3. CASE Watcher!HandleError
    BY <1>1, <2>1, <2>3
    DEF Watcher!HandleError, Watcher!fsVars, Watcher!timerVars, AgentInv, WatcherTypes, StartInv,
        TimerInv, Ran
  <2> QED
    BY <1>4, <2>1, <2>2, <2>3, TimerStep DEF WatcherStep
<1>5. ASSUME NEW t \in Timers, HandleFileChange(t) PROVE AgentInv'
  <2>1. <<>> \in Seq({OnlyCallback})
    OBVIOUS
  <2>2. /\ state[t] = "calling" /\ state' = [state EXCEPT ![t] = "done"] /\ file' = file
        /\ pc' = [pc EXCEPT ![t] = "read"] /\ left' = [left EXCEPT ![t] = <<>>]
        /\ UNCHANGED <<main, writes, watched, events, lost, loop, callbacks, debounceTimers, armed>>
    BY <1>5, CallTurn DEF Moves
  <2>3. WatcherTypes'
    BY <1>1, <2>1, <2>2 DEF WatcherTypes
  <2>4. /\ state'[t] = "done" /\ Ran(t)
        /\ \A u \in Timers \ {t} : state'[u] = state[u] /\ left'[u] = left[u] /\ pc'[u] = pc[u]
    BY <1>1, <2>2 DEF WatcherTypes, Ran
  <2>5. StartInv'
    BY <1>1, <2>2, <2>4 DEF StartInv, Ran
  <2>6. TimerInv'
    BY <1>1, <2>2, <2>4 DEF WatcherTypes, TimerInv, Ran
  <2> QED
    BY <2>3, <2>5, <2>6 DEF AgentInv
<1>6. ASSUME NEW t \in Timers, HandlerStep(t) PROVE AgentInv'
  <2>1. \E c \in {"idle", "read", "lock", "send"} : pc' = [pc EXCEPT ![t] = c]
    BY <1>6, HandlerTurn
  <2> QED
    BY <1>6, <2>1, HandlerTurn, HandlerMoves
<1>7. ASSUME NEW t \in Timers, BroadcastMissionReady(t) PROVE AgentInv'
  <2>1. /\ pc[t] = "send" /\ pc' = [pc EXCEPT ![t] = "idle"]
        /\ UNCHANGED main /\ UNCHANGED watcherVars
    BY <1>7 DEF BroadcastMissionReady, Flight!BroadcastMissionReady
  <2>2. \E c \in {"idle", "read", "lock", "send"} : pc' = [pc EXCEPT ![t] = c]
    BY <2>1
  <2> QED
    BY <2>1, <2>2, HandlerMoves
<1>8. CASE UNCHANGED <<main, watcherVars, pc>>
  BY <1>1, <1>8 DEF AgentInv, WatcherTypes, StartInv, TimerInv, Ran, watcherVars
<1> QED
  BY <1>2, <1>3, <1>4, <1>5, <1>6, <1>7, <1>8
  DEF Next, AgentRuns, HubStep, Upgrade, ClientStep, flightVars, vars, Kinds

LEMMA AgentCorrect == Spec => []AgentInv
BY AgentInit, AgentStep, PTL DEF Spec

-----------------------------------------------------------------------------
(* Every step of the agent is a step of FlightManager, or none: what the   *)
(* watcher, main, the hub and the clients do by themselves changes nothing *)
(* that FlightManager sees.                                                *)
LEMMA Unseen ==
  ASSUME UNCHANGED <<flightVars, writes, lost, accepted>>,
         \A k \in Kinds : OwedCalls(k)' = OwedCalls(k)
  PROVE  UNCHANGED Flight!vars
<1>1. [k \in Kinds |-> OwedCalls(k)]' = [k \in Kinds |-> OwedCalls(k)]
  OBVIOUS
<1>2. {k \in Kinds : lost[k]}' = {k \in Kinds : lost[k]}
  OBVIOUS
<1> QED
  BY <1>1, <1>2 DEF Flight!vars, Flight!diskVars, Flight!fmVars, flightVars

LEMMA OwedNat ==
  ASSUME AgentInv, NEW k
  PROVE  Cardinality(Named(events, k)) \in Nat /\ Cardinality(Waiting(k)) \in Nat
BY NamedFinite, WaitingFinite DEF AgentInv, WatcherTypes

LEMMA SaveRefines ==
  ASSUME AgentInv, NEW k \in Kinds, NEW p, Save(k, p)
  PROVE  Flight!Save(k, p)
<1> DEFINE owed == [j \in Kinds |-> OwedCalls(j)]
           unseen == {j \in Kinds : lost[j]}
           e == [name |-> k, write |-> TRUE]
<1>1. /\ events \in Seq(WriteEvent) /\ e \in WriteEvent /\ e.name = k
      /\ lost \in [Kinds -> BOOLEAN]
  BY DEF AgentInv, WatcherTypes, WriteEvent
<1>2. /\ writes < MaxWrites /\ writes' = writes + 1
      /\ disk' = [disk EXCEPT ![k] = [at |-> writes + 1, plan |-> p]]
      /\ UNCHANGED <<hasIni, iniContent, hasBriefing, briefingContent, currentFlight,
                     pc, kind, text, correlated, disordered, unreadable, accepted, state, file>>
  BY DEF Save, Watcher!Write, Watcher!timerVars, hubVars
<1>3. \A j : Waiting(j)' = Waiting(j)
  BY <1>2 DEF Waiting
<1>4. CASE events' = Append(events, e) /\ lost' = [lost EXCEPT ![k] = FALSE]
  <2>1. \A j \in Kinds : OwedCalls(j)' = IF j = k THEN OwedCalls(j) + 1 ELSE OwedCalls(j)
    <3> TAKE j \in Kinds
    <3>1. Cardinality(Named(events, j)') = IF k = j THEN Cardinality(Named(events, j)) + 1
                                                  ELSE Cardinality(Named(events, j))
      <4>1. Named(events, j)' = Named(Append(events, e), j)
        BY <1>4 DEF Named
      <4> HIDE DEF e
      <4> QED
        BY <1>1, <4>1, NamedAppend
    <3> QED
      BY <1>3, <3>1, OwedNat DEF OwedCalls
  <2>2. owed' = [owed EXCEPT ![k] = @ + 1]
    BY <2>1
  <2>3. unseen' = unseen \ {k}
    BY <1>1, <1>4
  <2> QED
    BY <1>2, <2>2, <2>3 DEF Flight!Save, Flight!fmVars
<1>5. CASE events' = events /\ lost' = [lost EXCEPT ![k] = TRUE]
  <2>1. owed' = owed
    BY <1>3, <1>5 DEF OwedCalls
  <2>2. unseen' = unseen \cup {k}
    BY <1>1, <1>5
  <2> QED
    BY <1>2, <2>1, <2>2 DEF Flight!Save, Flight!fmVars
<1> QED
  BY <1>4, <1>5 DEF Save, Watcher!Write

(* A write that finds its file's timer armed is taken together with the    *)
(* write before it; any other event only turns into a timer.               *)
LEMMA EventRefines ==
  ASSUME AgentInv, Watcher!HandleEvent, UNCHANGED <<flightVars, accepted>>
  PROVE  (\E k \in Kinds : Flight!Coalesce(k)) \/ UNCHANGED Flight!vars
<1> DEFINE owed == [j \in Kinds |-> OwedCalls(j)]
<1>1. PICK g \in Kinds : g = Head(events).name /\ Watcher!ArmTimer(g, Watcher!StopTimer(g))
  BY EventTaken
<1> DEFINE stopped == debounceTimers[g] # Nil /\ state[debounceTimers[g]] = "armed"
<1>2. /\ events \in Seq(WriteEvent) /\ events # <<>> /\ events' = Tail(events)
      /\ UNCHANGED <<writes, lost>>
  BY EventTaken DEF Watcher!HandleEvent, Watcher!fsVars
<1>3. \A j \in Kinds :
        Cardinality(Named(events, j)') = IF g = j THEN Cardinality(Named(events, j)) - 1
                                                  ELSE Cardinality(Named(events, j))
  <2>1. ASSUME NEW j \in Kinds PROVE Named(events, j)' = Named(Tail(events), j)
    BY <1>2 DEF Named
  <2> QED
    BY <1>1, <1>2, <2>1, NamedTail
<1>4. \A j \in Kinds :
        Cardinality(Waiting(j)') = IF j = g /\ ~stopped THEN Cardinality(Waiting(j)) + 1
                                                        ELSE Cardinality(Waiting(j))
  BY <1>1, WaitingArmed
<1>5. CASE stopped
  <2>1. \A j \in Kinds : OwedCalls(j)' = IF j = g THEN OwedCalls(j) - 1 ELSE OwedCalls(j)
    BY <1>3, <1>4, <1>5, OwedNat DEF OwedCalls
  <2>2. owed' = [owed EXCEPT ![g] = @ - 1]
    BY <2>1
  <2>3. OwedCalls(g) > 1
    <3>1. Named(events, g) # {}
      <4>1. 1 \in 1 .. Len(events) /\ events[1] = Head(events)
        BY <1>2, LenProperties
      <4> QED
        BY <1>1, <4>1 DEF Named
    <3>2. Waiting(g) # {}
      <4>1. /\ debounceTimers[g] \in Timers /\ file[debounceTimers[g]] = g
            /\ state[debounceTimers[g]] = "armed"
        BY <1>5 DEF AgentInv, WatcherTypes, TimerInv
      <4> QED
        BY <4>1 DEF Waiting
    <3>3. Cardinality(Named(events, g)) # 0
      BY <1>2, <3>1, NamedFinite, FS_EmptySet
    <3>4. Cardinality(Waiting(g)) # 0
      BY <3>2, WaitingFinite, FS_EmptySet
    <3> QED
      BY <3>3, <3>4, OwedNat DEF OwedCalls
  <2>4. {j \in Kinds : lost[j]}' = {j \in Kinds : lost[j]}
    BY <1>2
  <2>5. Flight!Coalesce(g)
    BY <1>2, <2>2, <2>3, <2>4 DEF Flight!Coalesce, Flight!diskVars, Flight!fmVars, flightVars
  <2> QED
    BY <2>5
<1>6. CASE ~stopped
  <2>1. \A j \in Kinds : OwedCalls(j)' = OwedCalls(j)
    BY <1>3, <1>4, <1>6, OwedNat DEF OwedCalls
  <2> QED
    BY <1>2, <2>1, Unseen
<1> QED
  BY <1>5, <1>6

(* A timer's goroutine comes to its call.                                  *)
LEMMA CallRefines ==
  ASSUME AgentInv, NEW t \in Timers, HandleFileChange(t)
  PROVE  Flight!HandleFileChange(t, file[t])
<1> DEFINE owed == [j \in Kinds |-> OwedCalls(j)]
<1>1. /\ Moves(t, "calling", "done") /\ file[t] \in Kinds
      /\ pc[t] = "idle" /\ pc' = [pc EXCEPT ![t] = "read"]
      /\ UNCHANGED <<writes, events, lost>>
  BY CallTurn
<1>2. \A j \in Kinds : OwedCalls(j)' = IF j = file[t] THEN OwedCalls(j) - 1 ELSE OwedCalls(j)
  <2> TAKE j \in Kinds
  <2>1. Cardinality(Waiting(j)') = IF j = file[t] THEN Cardinality(Waiting(j)) - 1
                                                 ELSE Cardinality(Waiting(j))
    BY <1>1, WaitingCalled DEF AgentInv
  <2>2. Named(events, j)' = Named(events, j)
    BY <1>1 DEF Named
  <2> QED
    BY <2>1, <2>2, OwedNat DEF OwedCalls
<1>3. owed' = [owed EXCEPT ![file[t]] = @ - 1]
  BY <1>1, <1>2
<1>4. owed[file[t]] > 0
  <2>1. t \in Waiting(file[t])
    BY <1>1 DEF Waiting, Moves
  <2>2. Cardinality(Waiting(file[t])) # 0
    BY <2>1, WaitingFinite, FS_EmptySet
  <2> QED
    BY <1>1, <2>2, OwedNat DEF OwedCalls
<1>5. {j \in Kinds : lost[j]}' = {j \in Kinds : lost[j]}
  BY <1>1
<1> QED
  BY <1>1, <1>3, <1>4, <1>5
  DEF HandleFileChange, Flight!HandleFileChange, Flight!diskVars, Flight!fmVars, hubVars

LEMMA FlightStep == AgentInv /\ [Next]_vars => [Flight!Next]_(Flight!vars)
<1> SUFFICES ASSUME AgentInv, [Next]_vars PROVE Flight!Next \/ UNCHANGED Flight!vars
  OBVIOUS
<1>1. ASSUME NEW k \in Kinds, NEW p \in Plans \cup {NoPlan}, Save(k, p) PROVE Flight!Save(k, p)
  BY <1>1, SaveRefines
<1>2. ASSUME UNCHANGED <<flightVars, writes, lost, accepted, events, state, file>>
      PROVE  UNCHANGED Flight!vars
  <2>1. \A k \in Kinds : OwedCalls(k)' = OwedCalls(k)
    BY <1>2 DEF OwedCalls, Named, Waiting
  <2> QED
    BY <1>2, <2>1, Unseen
<1>3. CASE MainStep
  <2>1. UNCHANGED <<flightVars, accepted>>
    BY <1>3 DEF MainStep, hubVars
  <2>2. UNCHANGED <<writes, lost, events, state, file>>
    BY <1>3 DEF MainStep, watcherVars, Watcher!OnChange, Watcher!Add, Watcher!Start,
                Watcher!fsVars, Watcher!timerVars
  <2> QED
    BY <1>2, <2>1, <2>2
<1>4. ASSUME NEW t \in Timers, UNCHANGED <<flightVars, accepted>>,
             Watcher!Fire(t) \/ Watcher!ForgetTimer(t) \/ Watcher!NotifyCallbacks(t)
      PROVE  UNCHANGED Flight!vars
  <2>1. UNCHANGED <<events, writes, lost>>
    BY <1>4 DEF Watcher!Fire, Watcher!ForgetTimer, Watcher!NotifyCallbacks, Watcher!Turn, Watcher!fsVars
  <2>2. \E from, to \in Underway : Moves(t, from, to)
    <3>1. CASE Watcher!Fire(t)
      <4>1. Moves(t, "armed", "fired")
        BY <3>1 DEF Watcher!Fire, Watcher!Turn, Moves
      <4> QED
        BY <4>1 DEF Underway
    <3>2. CASE Watcher!ForgetTimer(t)
      <4>1. Moves(t, "fired", "notify")
        BY <3>2 DEF Watcher!ForgetTimer, Watcher!Turn, Moves
      <4> QED
        BY <4>1 DEF Underway
    <3>3. CASE Watcher!NotifyCallbacks(t)
      <4>1. callbacks # <<>>
        <5>1. callbacks = <<OnlyCallback>>
          BY <3>3 DEF Watcher!NotifyCallbacks, Watcher!Turn, AgentInv, StartInv, Ran
        <5> QED
          BY <5>1
      <4>2. Moves(t, "notify", "calling")
        BY <3>3, <4>1 DEF Watcher!NotifyCallbacks, Watcher!Turn, Moves
      <4> QED
        BY <4>2 DEF Underway
    <3> QED
      BY <1>4, <3>1, <3>2, <3>3
  <2>3. \A k \in Kinds : OwedCalls(k)' = OwedCalls(k)
    <3> TAKE k \in Kinds
    <3>1. Waiting(k)' = Waiting(k)
      BY <2>2, WaitingStays DEF AgentInv
    <3>2. Named(events, k)' = Named(events, k)
      BY <2>1 DEF Named
    <3> QED
      BY <3>1, <3>2 DEF OwedCalls
  <2> QED
    BY <1>4, <2>1, <2>3, Unseen
<1>5. CASE WatcherStep
  <2>1. UNCHANGED <<flightVars, accepted>>
    BY <1>5 DEF WatcherStep, hubVars
  <2>2. CASE Watcher!HandleEvent
    BY <2>1, <2>2, EventRefines DEF Flight!Next, Flight!Kinds, Kinds
  <2>3. CASE Watcher!HandleError
    BY <1>2, <2>1, <2>3 DEF Watcher!HandleError, Watcher!fsVars, Watcher!timerVars
  <2> QED
    BY <1>4, <1>5, <2>1, <2>2, <2>3 DEF WatcherStep
<1>6. ASSUME NEW t \in Timers, HandleFileChange(t) PROVE Flight!Next
  <2>1. file[t] \in Kinds /\ Flight!HandleFileChange(t, file[t])
    BY <1>6, CallTurn, CallRefines
  <2> QED
    BY <2>1 DEF Flight!Next, Flight!Kinds, Kinds
<1>7. ASSUME NEW t \in Timers, HandlerStep(t) \/ BroadcastMissionReady(t) PROVE Flight!Next
  BY <1>7 DEF HandlerStep, BroadcastMissionReady, Flight!Next, Flight!Step
<1>8. ASSUME UNCHANGED <<watcherVars, flightVars>>, accepted' = accepted
      PROVE  UNCHANGED Flight!vars
  BY <1>2, <1>8 DEF watcherVars
<1>9. ASSUME NEW c \in Conns,
              \/ HubStep(Hub!Register(c) \/ Hub!ReadFails(c) \/ Hub!Unregister(c))
              \/ HubStep(Hub!Write(c)) \/ HubStep(Hub!WriteDone)
              \/ Upgrade(c) \/ ClientStep(c)
       PROVE  UNCHANGED Flight!vars
  <2>1. accepted' = accepted /\ UNCHANGED <<watcherVars, flightVars>>
    BY <1>9
    DEF HubStep, Upgrade, ClientStep, Hub!Register, Hub!ReadFails, Hub!Unregister, Hub!Write,
        Hub!WriteMessage, Hub!WriteFails, Hub!WriteDone, Hub!Upgrade, Hub!PeerStalls,
        Hub!PeerResumes, Hub!PeerLeaves, Hub!PeerTurns
  <2> QED
    BY <1>8, <2>1
<1>10. CASE HubStep(Hub!WriteDone)
  BY <1>8, <1>10 DEF HubStep, Hub!WriteDone
<1>11. CASE UNCHANGED vars
  BY <1>8, <1>11 DEF vars, hubVars
<1>12. CASE Save("ini", NoPlan) \/ \E p \in Plans : Save("briefing", p)
  BY <1>1, <1>12 DEF Flight!Next, Flight!SaveIni, Flight!SaveBriefing, Kinds
<1> QED
  BY <1>3, <1>5, <1>6, <1>7, <1>9, <1>10, <1>11, <1>12 DEF Next, AgentRuns

(* What FlightManager assumes of the watcher is what the watcher does, in  *)
(* every run of the agent: every call is for a write, and no write that    *)
(* was reported goes without one.                                          *)
THEOREM AgentImplementsFlight == Spec => FlightSpec
<1>1. Init => Flight!Init
  BY DEF Init
<1> QED
  BY <1>1, AgentCorrect, FlightStep, PTL DEF Spec, FlightSpec, Flight!Spec

-----------------------------------------------------------------------------
(* What the hub has written to whom (WebsocketHub proves the same of its   *)
(* own specification), and where the message of the last flight is: with a *)
(* handler, or taken by the hub.                                           *)
HubTypes ==
  /\ hub \in {"select", "write"}
  /\ clients \in SUBSET Conns /\ todo \in SUBSET clients
  /\ handler \in [Conns -> {"none", "register", "read", "unregister", "done"}]
  /\ accepted \in Nat /\ builtAt \in Nat /\ correlated \in Nat
  /\ joined \in [Conns -> Nat] /\ received \in [Conns -> Seq(Nat)]

Delivered ==
  /\ hub = "select" => todo = {}
  /\ \A c \in clients : handler[c] \in {"read", "unregister"}
  /\ \A c \in Conns : handler[c] \in {"none", "register"} => received[c] = <<>>
  /\ \A c \in Conns : \A i \in 1 .. Len(received[c]) : received[c][i] = joined[c] + i
  /\ \A c \in clients :
       joined[c] + Len(received[c]) = IF c \in todo THEN accepted - 1 ELSE accepted

Sending == \E t \in Timers : pc[t] = "send"

Announcing ==
  /\ builtAt =< accepted
  /\ currentFlight # NoFlight => Sending \/ accepted > builtAt

StaleInv == HubTypes /\ Delivered /\ Announcing

LEMMA StaleInit == Init => StaleInv
BY DEF Init, Hub!Init, Flight!Init, StaleInv, HubTypes, Delivered, Announcing

(* The hub takes a message, and writes it to one of its clients.           *)
LEMMA TakenStep ==
  ASSUME HubTypes, Delivered, NEW t \in Timers, Hub!Broadcast(t)
  PROVE  Delivered'
<1>1. /\ todo = {} /\ todo' = clients /\ accepted' = accepted + 1 /\ accepted \in Nat
      /\ hub' = "write" /\ UNCHANGED <<clients, handler, joined, received>>
  BY DEF HubTypes, Delivered, Hub!Broadcast, Hub!connVars
<1>2. \A c \in clients : joined[c] + Len(received[c]) = accepted
  BY <1>1 DEF Delivered
<1> QED
  BY <1>1, <1>2 DEF Delivered

LEMMA WrittenStep ==
  ASSUME HubTypes, Delivered, NEW c \in Conns, Hub!WriteMessage(c)
  PROVE  Delivered' /\ received' \in [Conns -> Seq(Nat)]
<1>1. /\ c \in todo /\ c \in clients /\ accepted \in Nat /\ joined[c] \in Nat
      /\ received[c] \in Seq(Nat) /\ received \in [Conns -> Seq(Nat)]
      /\ received' = [received EXCEPT ![c] = Append(received[c], accepted)]
      /\ todo' = todo \ {c} /\ hub = "write"
      /\ UNCHANGED <<clients, hub, handler, accepted, joined>>
  BY DEF HubTypes, Hub!WriteMessage, Hub!connVars
<1>2. /\ Append(received[c], accepted) \in Seq(Nat)
      /\ Len(received'[c]) = Len(received[c]) + 1 /\ Len(received[c]) \in Nat
      /\ received'[c][Len(received[c]) + 1] = accepted
      /\ \A i \in 1 .. Len(received[c]) : received'[c][i] = received[c][i]
      /\ \A d \in Conns \ {c} : received'[d] = received[d]
  BY <1>1, AppendProperties, LenProperties
<1>3. joined[c] + (Len(received[c]) + 1) = accepted
  <2>1. joined[c] + Len(received[c]) = accepted - 1
    BY <1>1 DEF Delivered
  <2>2. joined[c] \in Nat /\ Len(received[c]) \in Nat /\ accepted \in Nat
    BY <1>1, <1>2
  <2> QED
    BY <2>1, <2>2
<1>4. ASSUME NEW i \in 1 .. Len(received'[c]) PROVE received'[c][i] = joined[c] + i
  <2>1. CASE i \in 1 .. Len(received[c])
    BY <1>1, <1>2, <2>1 DEF Delivered
  <2>2. CASE i = Len(received[c]) + 1
    BY <1>2, <1>3, <2>2
  <2> QED
    BY <1>2, <2>1, <2>2
<1>5. \A d \in Conns : \A i \in 1 .. Len(received'[d]) : received'[d][i] = joined'[d] + i
  BY <1>1, <1>2, <1>4 DEF Delivered
<1>6. ASSUME NEW d \in clients
      PROVE  joined'[d] + Len(received'[d]) = IF d \in todo' THEN accepted - 1 ELSE accepted
  <2>1. CASE d = c
    BY <1>1, <1>2, <1>3, <2>1
  <2>2. CASE d # c
    BY <1>1, <1>2, <2>2 DEF Delivered, HubTypes
  <2> QED
    BY <2>1, <2>2
<1>7. handler[c] \in {"read", "unregister"}
  BY <1>1 DEF Delivered
<1>8. \A d \in Conns : handler'[d] \in {"none", "register"} => received'[d] = <<>>
  BY <1>1, <1>2, <1>7 DEF Delivered
<1> QED
  BY <1>1, <1>2, <1>5, <1>6, <1>8 DEF Delivered

(* A client is registered.                                                 *)
LEMMA RegisteredStep ==
  ASSUME HubTypes, Delivered, NEW c \in Conns, Hub!Register(c)
  PROVE  Delivered'
<1>1. /\ received[c] = <<>> /\ todo = {} /\ accepted \in Nat
      /\ clients' = clients \cup {c}
      /\ joined' = [joined EXCEPT ![c] = accepted] /\ joined \in [Conns -> Nat]
      /\ handler' = [handler EXCEPT ![c] = "read"]
      /\ UNCHANGED <<hub, todo, received, accepted>>
  BY DEF HubTypes, Delivered, Hub!Register
<1>2. joined'[c] = accepted /\ \A d \in Conns \ {c} : joined'[d] = joined[d]
  BY <1>1
<1>3. \A d \in clients' : joined'[d] + Len(received'[d]) = accepted'
  <2>1. joined'[c] + Len(received'[c]) = accepted'
    BY <1>1, <1>2
  <2>2. ASSUME NEW d \in clients, d # c PROVE joined'[d] + Len(received'[d]) = accepted'
    BY <1>1, <1>2, <2>2 DEF Delivered, HubTypes
  <2> QED
    BY <1>1, <2>1, <2>2
<1>4. \A d \in Conns : \A i \in 1 .. Len(received'[d]) : received'[d][i] = joined'[d] + i
  BY <1>1, <1>2 DEF Delivered
<1>5. /\ handler'[c] = "read" /\ \A d \in Conns \ {c} : handler'[d] = handler[d]
  BY <1>1 DEF HubTypes
<1> QED
  BY <1>1, <1>3, <1>4, <1>5 DEF Delivered, HubTypes

(* The hub's other steps, and its clients', leave what was delivered.      *)
LEMMA HubStepDelivered ==
  ASSUME HubTypes, Delivered,
         \/ Hub!WriteDone
         \/ \E c \in Conns :
              \/ Hub!Upgrade(c) \/ Hub!ReadFails(c) \/ Hub!Unregister(c) \/ Hub!WriteFails(c)
              \/ Hub!PeerStalls(c) \/ Hub!PeerResumes(c) \/ Hub!PeerLeaves(c)
  PROVE  /\ Delivered'
         /\ hub' \in {"select", "write"} /\ clients' \in SUBSET Conns /\ todo' \in SUBSET clients'
         /\ handler' \in [Conns -> {"none", "register", "read", "unregister", "done"}]
         /\ UNCHANGED <<accepted, joined, received>>
<1> USE DEF HubTypes, Delivered, Hub!connVars
<1>1. CASE Hub!WriteDone
  BY <1>1 DEF Hub!WriteDone
<1>2. ASSUME NEW c \in Conns, Hub!Upgrade(c) \/ Hub!ReadFails(c)
      PROVE  /\ Delivered'
             /\ handler' \in [Conns -> {"none", "register", "read", "unregister", "done"}]
             /\ UNCHANGED <<hub, clients, todo, accepted, joined, received>>
  <2>1. /\ UNCHANGED <<hub, clients, todo, accepted, joined, received>>
        /\ \/ handler[c] = "none" /\ handler' = [handler EXCEPT ![c] = "register"]
           \/ handler[c] = "read" /\ handler' = [handler EXCEPT ![c] = "unregister"]
    BY <1>2 DEF Hub!Upgrade, Hub!ReadFails
  <2>2. \A d \in Conns :
          /\ handler'[d] \in {"none", "register"} => handler[d] \in {"none", "register"}
          /\ handler[d] \in {"read", "unregister"} => handler'[d] \in {"read", "unregister"}
    BY <2>1
  <2> QED
    BY <2>1, <2>2
<1>3. ASSUME NEW c \in Conns, Hub!Unregister(c)
      PROVE  /\ Delivered' /\ clients' \in SUBSET Conns /\ todo' \in SUBSET clients'
             /\ handler' \in [Conns -> {"none", "register", "read", "unregister", "done"}]
             /\ UNCHANGED <<hub, accepted, joined, received>>
  BY <1>3 DEF Hub!Unregister
<1>4. ASSUME NEW c \in Conns, Hub!WriteFails(c)
      PROVE  /\ Delivered' /\ clients' \in SUBSET Conns /\ todo' \in SUBSET clients'
             /\ UNCHANGED <<hub, handler, accepted, joined, received>>
  BY <1>4 DEF Hub!WriteFails
<1>5. ASSUME NEW c \in Conns, Hub!PeerStalls(c) \/ Hub!PeerResumes(c) \/ Hub!PeerLeaves(c)
      PROVE  Delivered' /\ UNCHANGED <<hub, clients, todo, handler, accepted, joined, received>>
  <2>1. UNCHANGED <<hub, clients, todo, handler, accepted, joined, received>>
    BY <1>5 DEF Hub!PeerStalls, Hub!PeerResumes, Hub!PeerLeaves, Hub!PeerTurns
  <2> QED
    BY <2>1
<1> QED
  BY <1>1, <1>2, <1>3, <1>4, <1>5

(* A flight that is built joins its handler's message, and the next one    *)
(* the hub takes is its own or a later one's.                              *)
LEMMA HandlerAnnounces ==
  ASSUME AgentInv, StaleInv, NEW t \in Timers, HandlerStep(t)
  PROVE  Announcing' /\ builtAt' \in Nat /\ correlated' \in Nat
<1>1. /\ accepted \in Nat /\ builtAt \in Nat /\ correlated \in Nat /\ accepted' = accepted
      /\ pc \in [Timers -> {"idle", "read", "lock", "send"}]
      /\ builtAt' = IF correlated' = correlated THEN builtAt ELSE accepted
  BY DEF AgentInv, WatcherTypes, StaleInv, HubTypes, HandlerStep, hubVars
<1>2. ASSUME correlated' = correlated + 1, pc' = [pc EXCEPT ![t] = "send"]
      PROVE  Announcing' /\ builtAt' \in Nat /\ correlated' \in Nat
  BY <1>1, <1>2 DEF Announcing, Sending
<1>3. ASSUME correlated' = correlated, currentFlight' \in {currentFlight, NoFlight},
             pc[t] # "send", NEW c, pc' = [pc EXCEPT ![t] = c]
      PROVE  Announcing' /\ builtAt' \in Nat /\ correlated' \in Nat
  <2>1. builtAt' = builtAt /\ builtAt' \in Nat /\ correlated' \in Nat
    BY <1>1, <1>3
  <2>2. Sending => Sending'
    BY <1>1, <1>3 DEF Sending
  <2> QED
    BY <1>1, <1>3, <2>1, <2>2 DEF StaleInv, Announcing
<1>4. CASE Flight!ReadFile(t)
  BY <1>3, <1>4 DEF Flight!ReadFile, Flight!fmVars
<1>5. CASE Flight!ReadFails(t)
  BY <1>3, <1>5 DEF Flight!ReadFails, Flight!fmVars
<1>6. CASE Flight!HandleIniChange(t)
  BY <1>2, <1>3, <1>6 DEF Flight!HandleIniChange, Flight!Correlate, Flight!Return, Flight!Locks
<1>7. CASE Flight!HandleBriefingChange(t)
  BY <1>2, <1>3, <1>7
  DEF Flight!HandleBriefingChange, Flight!KeepBriefing, Flight!ReplaceBriefing,
      Flight!FirstBriefing, Flight!Correlate, Flight!Return, Flight!Locks, Flight!fmVars
<1> QED
  BY <1>4, <1>5, <1>6, <1>7 DEF HandlerStep

LEMMA StaleStep == AgentInv /\ StaleInv /\ [Next]_vars => StaleInv'
<1> SUFFICES ASSUME AgentInv, StaleInv, [Next]_vars PROVE StaleInv'
  OBVIOUS
<1>1. HubTypes /\ Delivered /\ Announcing
  BY DEF StaleInv
<1>2. ASSUME UNCHANGED <<hubVars, builtAt, correlated, currentFlight, pc>> PROVE StaleInv'
  BY <1>1, <1>2 DEF StaleInv, HubTypes, Delivered, Announcing, Sending, hubVars
<1>3. ASSUME NEW t \in Timers, HandleFileChange(t) PROVE StaleInv'
  <2>1. pc[t] = "idle" /\ pc' = [pc EXCEPT ![t] = "read"]
    BY <1>3, CallTurn
  <2>2. Sending => Sending'
    BY <2>1 DEF Sending, AgentInv, WatcherTypes
  <2>3. UNCHANGED <<hubVars, builtAt, correlated, currentFlight>>
    BY <1>3 DEF HandleFileChange
  <2> QED
    BY <1>1, <2>2, <2>3 DEF StaleInv, HubTypes, Delivered, Announcing, hubVars
<1>4. ASSUME NEW t \in Timers, HandlerStep(t) PROVE StaleInv'
  <2>1. UNCHANGED hubVars
    BY <1>4 DEF HandlerStep
  <2>2. Announcing' /\ builtAt' \in Nat /\ correlated' \in Nat
    BY <1>4, HandlerAnnounces
  <2> QED
    BY <1>1, <2>1, <2>2 DEF StaleInv, HubTypes, Delivered, hubVars
<1>5. ASSUME NEW t \in Timers, BroadcastMissionReady(t) PROVE StaleInv'
  <2>1. Hub!Broadcast(t) /\ UNCHANGED <<builtAt, correlated>>
    BY <1>5 DEF BroadcastMissionReady, Flight!BroadcastMissionReady
  <2>2. Delivered'
    BY <1>1, <2>1, TakenStep
  <2>3. accepted' = accepted + 1 /\ accepted \in Nat
    BY <1>1, <2>1 DEF HubTypes, Hub!Broadcast
  <2>4. HubTypes'
    BY <1>1, <2>1, <2>3 DEF HubTypes, Hub!Broadcast, Hub!connVars
  <2>5. Announcing'
    BY <1>1, <2>1, <2>3 DEF HubTypes, Announcing
  <2> QED
    BY <2>2, <2>4, <2>5 DEF StaleInv
<1>6. ASSUME UNCHANGED <<builtAt, flightVars, accepted>> PROVE Announcing'
  BY <1>1, <1>6 DEF Announcing, Sending, flightVars
<1>7. ASSUME NEW c \in Conns, HubStep(Hub!Register(c)) PROVE StaleInv'
  <2>1. Hub!Register(c) /\ UNCHANGED <<builtAt, flightVars, accepted>>
    BY <1>7 DEF HubStep, Hub!Register
  <2>2. Delivered' /\ Announcing'
    BY <1>1, <1>6, <2>1, RegisteredStep
  <2>3. HubTypes'
    BY <1>1, <2>1 DEF HubTypes, Hub!Register, flightVars
  <2> QED
    BY <2>2, <2>3 DEF StaleInv
<1>8. ASSUME NEW c \in Conns, HubStep(Hub!WriteMessage(c)) PROVE StaleInv'
  <2>1. Hub!WriteMessage(c) /\ UNCHANGED <<builtAt, flightVars, accepted>>
    BY <1>8 DEF HubStep, Hub!WriteMessage
  <2>2. Delivered' /\ received' \in [Conns -> Seq(Nat)] /\ Announcing'
    BY <1>1, <1>6, <2>1, WrittenStep
  <2>3. HubTypes'
    BY <1>1, <2>1, <2>2 DEF HubTypes, Hub!WriteMessage, Hub!connVars, flightVars
  <2> QED
    BY <2>2, <2>3 DEF StaleInv
<1>9. ASSUME UNCHANGED <<builtAt, flightVars>>,
             \/ Hub!WriteDone
             \/ \E c \in Conns :
                  \/ Hub!Upgrade(c) \/ Hub!ReadFails(c) \/ Hub!Unregister(c) \/ Hub!WriteFails(c)
                  \/ Hub!PeerStalls(c) \/ Hub!PeerResumes(c) \/ Hub!PeerLeaves(c)
      PROVE  StaleInv'
  <2>1. /\ Delivered'
        /\ hub' \in {"select", "write"} /\ clients' \in SUBSET Conns /\ todo' \in SUBSET clients'
        /\ handler' \in [Conns -> {"none", "register", "read", "unregister", "done"}]
        /\ UNCHANGED <<accepted, joined, received>>
    BY <1>1, <1>9, HubStepDelivered
  <2>2. Announcing'
    BY <1>6, <1>9, <2>1
  <2>3. HubTypes'
    BY <1>1, <1>9, <2>1 DEF HubTypes, flightVars
  <2> QED
    BY <2>1, <2>2, <2>3 DEF StaleInv
<1>10. CASE (\E k \in Kinds : \E p : Save(k, p)) \/ MainStep \/ WatcherStep
  BY <1>2, <1>10 DEF Save, MainStep, WatcherStep, flightVars
<1>11. ASSUME NEW c \in Conns, Upgrade(c) \/ ClientStep(c) PROVE StaleInv'
  BY <1>9, <1>11 DEF Upgrade, ClientStep, HubStep
<1>12. ASSUME NEW c \in Conns,
              \/ HubStep(Hub!Register(c) \/ Hub!ReadFails(c) \/ Hub!Unregister(c))
              \/ HubStep(Hub!Write(c))
       PROVE  StaleInv'
  BY <1>7, <1>8, <1>9, <1>12 DEF HubStep, Hub!Write
<1>13. CASE HubStep(Hub!WriteDone)
  BY <1>9, <1>13 DEF HubStep
<1>14. CASE UNCHANGED vars
  BY <1>2, <1>14 DEF vars, flightVars
<1>15. CASE Save("ini", NoPlan) \/ \E p \in Plans : Save("briefing", p)
  BY <1>10, <1>15 DEF Kinds
<1> QED
  BY <1>3, <1>4, <1>5, <1>10, <1>11, <1>12, <1>13, <1>14, <1>15 DEF Next, AgentRuns

(* The last message a client was written is the last one the hub took, if  *)
(* the hub is through with it.                                             *)
LEMMA NobodyStale == StaleInv => NoStaleClient
<1> SUFFICES ASSUME StaleInv, NEW c \in clients \ todo, currentFlight # NoFlight,
                    joined[c] =< builtAt, ~Sending
             PROVE  received[c] # <<>> /\ received[c][Len(received[c])] > builtAt
  BY DEF NoStaleClient, Sending
<1>1. /\ c \in Conns /\ accepted \in Nat /\ builtAt \in Nat /\ joined[c] \in Nat
      /\ received[c] \in Seq(Nat)
  BY DEF StaleInv, HubTypes
<1>2. Len(received[c]) \in Nat /\ joined[c] + Len(received[c]) = accepted
  BY <1>1, LenProperties DEF StaleInv, Delivered
<1>3. accepted > builtAt
  BY DEF StaleInv, Announcing
<1>4. Len(received[c]) \in 1 .. Len(received[c])
  BY <1>1, <1>2, <1>3
<1>5. received[c][Len(received[c])] = joined[c] + Len(received[c])
  BY <1>1, <1>4 DEF StaleInv, Delivered
<1>6. received[c] # <<>>
  BY <1>4
<1> QED
  BY <1>2, <1>3, <1>5, <1>6

(* Nobody keeps showing a flight that was replaced while it was connected. *)
THEOREM NobodyIsStale == Spec => []NoStaleClient
BY AgentCorrect, StaleInit, StaleStep, NobodyStale, PTL DEF Spec


-----------------------------------------------------------------------------
(* The agent implements the watcher: main adds, registers and starts, the  *)
(* game writes, and a handler's first step is the timer's last.            *)
LEMMA WatcherNext == [Next]_vars => [Watcher!Next]_(Watcher!vars)
<1> SUFFICES ASSUME [Next]_vars PROVE Watcher!Next \/ UNCHANGED Watcher!vars
  OBVIOUS
<1>1. ASSUME UNCHANGED watcherVars PROVE UNCHANGED Watcher!vars
  BY <1>1 DEF watcherVars, Watcher!vars, Watcher!fsVars, Watcher!timerVars
<1>2. ASSUME NEW k \in Kinds, NEW p, Save(k, p) PROVE Watcher!Next
  BY <1>2 DEF Save, Watcher!Next
<1>3. CASE MainStep
  <2>1. \/ Watcher!OnChange("HandleFileChange")
        \/ \E k \in Kinds : Watcher!Add(k)
        \/ Watcher!Start
        \/ UNCHANGED watcherVars
    BY <1>3 DEF MainStep, Kinds
  <2> QED
    BY <1>1, <2>1 DEF Watcher!Next
<1>4. CASE WatcherStep
  BY <1>4 DEF WatcherStep, Watcher!Next, Watcher!Step, Watcher!Timers, Timers
<1>5. ASSUME NEW t \in Timers, HandleFileChange(t) PROVE Watcher!Next
  BY <1>5 DEF HandleFileChange, Watcher!Next, Watcher!Step, Watcher!Timers, Timers
<1>6. ASSUME NEW t \in Timers, HandlerStep(t) \/ BroadcastMissionReady(t) PROVE UNCHANGED watcherVars
  BY <1>6 DEF HandlerStep, BroadcastMissionReady
<1>7. CASE \/ \E c \in Conns : \/ HubStep(Hub!Register(c) \/ Hub!ReadFails(c) \/ Hub!Unregister(c))
                          \/ HubStep(Hub!Write(c)) \/ Upgrade(c) \/ ClientStep(c)
          \/ HubStep(Hub!WriteDone)
  BY <1>1, <1>7 DEF HubStep, Upgrade, ClientStep
<1>8. CASE Save("ini", NoPlan) \/ \E p \in Plans : Save("briefing", p)
  BY <1>2, <1>8 DEF Kinds
<1>9. CASE UNCHANGED vars
  BY <1>1, <1>9 DEF vars
<1> QED
  BY <1>1, <1>3, <1>4, <1>5, <1>6, <1>7, <1>8, <1>9 DEF Next, AgentRuns

(* In every run of the agent the watcher does what FileWatcher says, with  *)
(* HandleFileChange as its callback (main, NewFileWatcher to Start).       *)
THEOREM AgentImplementsWatcher == Spec => Watcher!Spec
<1>1. Init => Watcher!Init
  BY DEF Init
<1> QED
  BY <1>1, WatcherNext, PTL DEF Spec, Watcher!Spec

-----------------------------------------------------------------------------
(* The agent implements the hub.  A timer is handled once its handler has  *)
(* gone as far as its send or returned; each of them has built one flight  *)
(* at most, so the messages are no more than the timers.                   *)
Handled == {t \in Timers : state[t] = "done" /\ pc[t] \in {"idle", "send"}}
CountInv == correlated \in Nat /\ correlated =< Cardinality(Handled)

LEMMA HandledFinite ==
  /\ IsFiniteSet(Handled) /\ Cardinality(Handled) \in Nat
  /\ IsFiniteSet(Timers) /\ Cardinality(Timers) = MaxWrites
<1>1. IsFiniteSet(Timers) /\ Cardinality(Timers) = MaxWrites
  BY WritesAssumption, FS_Interval DEF Timers
<1> QED
  BY <1>1, FS_Subset, FS_CardinalityType DEF Handled

(* A handler's step builds a flight and comes to its send, or does neither.*)
Builds(t) ==
  /\ pc[t] = "lock" /\ pc' = [pc EXCEPT ![t] = "send"]
  /\ correlated' = correlated + 1
BuildsNone(t) ==
  /\ pc[t] \in {"read", "lock"} /\ \E c \in {"idle", "lock"} : pc' = [pc EXCEPT ![t] = c]
  /\ correlated' = correlated

LEMMA HandlerBuilds ==
  ASSUME NEW t \in Timers, HandlerStep(t)
  PROVE  Builds(t) \/ BuildsNone(t)
<1>1. CASE Flight!ReadFile(t)
  BY <1>1 DEF Flight!ReadFile, BuildsNone
<1>2. CASE Flight!ReadFails(t)
  BY <1>2 DEF Flight!ReadFails, BuildsNone
<1>3. CASE Flight!HandleIniChange(t)
  BY <1>3 DEF Flight!HandleIniChange, Flight!Correlate, Flight!Return, Flight!Locks, Builds,
              BuildsNone
<1>4. CASE Flight!HandleBriefingChange(t)
  BY <1>4
  DEF Flight!HandleBriefingChange, Flight!KeepBriefing, Flight!ReplaceBriefing,
      Flight!FirstBriefing, Flight!Correlate, Flight!Return, Flight!Locks, Builds, BuildsNone
<1> QED
  BY <1>1, <1>2, <1>3, <1>4 DEF HandlerStep

(* A handler that has not come to its send or returned is not counted yet. *)
LEMMA OneMoreHandled ==
  ASSUME AgentInv, NEW t \in Timers, pc[t] \in {"read", "lock"}, state' = state,
         NEW c \in {"idle", "send"}, pc' = [pc EXCEPT ![t] = c]
  PROVE  /\ Cardinality(Handled') = Cardinality(Handled) + 1
         /\ Cardinality(Handled) < MaxWrites
<1>1. state[t] = "done" /\ pc \in [Timers -> {"idle", "read", "lock", "send"}]
  BY DEF AgentInv, WatcherTypes, TimerInv
<1>2. t \notin Handled /\ Handled' = Handled \cup {t}
  BY <1>1 DEF Handled
<1>3. Cardinality(Handled \cup {t}) = Cardinality(Handled) + 1
  BY <1>2, HandledFinite, FS_AddElement
<1>4. Handled \cup {t} \subseteq Timers
  BY DEF Handled
<1>5. Cardinality(Handled \cup {t}) =< MaxWrites
  BY <1>4, HandledFinite, FS_Subset
<1> QED
  BY <1>2, <1>3, <1>5, HandledFinite, WritesAssumption

LEMMA CountInit == Init => CountInv
BY HandledFinite DEF Init, Flight!Init, CountInv

LEMMA CountStep == AgentInv /\ CountInv /\ [Next]_vars => CountInv'
<1> SUFFICES ASSUME AgentInv, CountInv, [Next]_vars PROVE CountInv'
  OBVIOUS
<1>1. ASSUME correlated' = correlated, Handled \subseteq Handled' PROVE CountInv'
  <2>1. IsFiniteSet(Handled') /\ Cardinality(Handled') \in Nat
    <3>1. Handled' \subseteq Timers
      BY DEF Handled
    <3> QED
      BY <3>1, HandledFinite, FS_Subset, FS_CardinalityType
  <2>2. Cardinality(Handled) =< Cardinality(Handled')
    BY <1>1, <2>1, FS_Subset
  <2> QED
    BY <1>1, <2>1, <2>2, HandledFinite DEF CountInv
<1>2. ASSUME pc' = pc, correlated' = correlated,
             \A t \in Timers : state[t] = "done" => state'[t] = "done"
      PROVE  CountInv'
  BY <1>1, <1>2 DEF Handled
<1>3. ASSUME pc' = pc, correlated' = correlated, state' = state PROVE CountInv'
  BY <1>2, <1>3
<1>4. ASSUME NEW k, NEW p, Save(k, p) PROVE CountInv'
  BY <1>3, <1>4 DEF Save, Watcher!Write, Watcher!timerVars
<1>5. CASE MainStep
  BY <1>3, <1>5
  DEF MainStep, flightVars, watcherVars, Watcher!OnChange, Watcher!Add, Watcher!Start,
      Watcher!timerVars
<1>6. CASE WatcherStep
  <2>1. pc' = pc /\ correlated' = correlated
    BY <1>6 DEF WatcherStep, flightVars
  <2>2. CASE Watcher!HandleEvent
    <3>1. PICK g \in Kinds : Watcher!ArmTimer(g, Watcher!StopTimer(g))
      BY <2>2, EventTaken
    <3>2. /\ armed + 1 \in Timers /\ state[armed + 1] = "unused"
          /\ state' = [Watcher!StopTimer(g) EXCEPT ![armed + 1] = "armed"]
      BY <3>1, WritesAssumption
      DEF AgentInv, WatcherTypes, TimerInv, Ran, Watcher!ArmTimer, Timers
    <3>3. \A t \in Timers : state[t] = "done" => Watcher!StopTimer(g)[t] = "done"
      BY DEF Watcher!StopTimer, AgentInv, WatcherTypes
    <3>4. DOMAIN Watcher!StopTimer(g) = Timers
      BY DEF Watcher!StopTimer, AgentInv, WatcherTypes
    <3>5. \A t \in Timers : state[t] = "done" => state'[t] = "done"
      BY <3>2, <3>3, <3>4
    <3> QED
      BY <1>2, <2>1, <3>5
  <2>3. CASE Watcher!HandleError
    BY <1>3, <2>1, <2>3 DEF Watcher!HandleError, Watcher!timerVars
  <2>4. ASSUME NEW t \in Timers,
               Watcher!Fire(t) \/ Watcher!ForgetTimer(t) \/ Watcher!NotifyCallbacks(t)
        PROVE  CountInv'
    <3>1. state[t] # "done" /\ \E to : state' = [state EXCEPT ![t] = to]
      BY <2>4 DEF Watcher!Fire, Watcher!ForgetTimer, Watcher!NotifyCallbacks, Watcher!Turn
    <3> QED
      BY <1>2, <2>1, <3>1 DEF AgentInv, WatcherTypes
  <2> QED
    BY <1>6, <2>2, <2>3, <2>4 DEF WatcherStep
<1>7. ASSUME NEW t \in Timers, HandleFileChange(t) PROVE CountInv'
  <2>1. /\ state[t] = "calling" /\ state' = [state EXCEPT ![t] = "done"]
        /\ pc' = [pc EXCEPT ![t] = "read"]
    BY <1>7, CallTurn DEF Moves
  <2>2. correlated' = correlated
    BY <1>7 DEF HandleFileChange
  <2>3. Handled \subseteq Handled'
    BY <2>1 DEF Handled, AgentInv, WatcherTypes
  <2> QED
    BY <1>1, <2>2, <2>3
<1>8. ASSUME NEW t \in Timers, HandlerStep(t) PROVE CountInv'
  <2>1. state' = state
    BY <1>8 DEF HandlerStep, watcherVars
  <2>2. CASE Builds(t)
    <3>1. Cardinality(Handled') = Cardinality(Handled) + 1
      BY <2>1, <2>2, OneMoreHandled DEF Builds
    <3> QED
      BY <2>2, <3>1, HandledFinite DEF Builds, CountInv
  <2>3. CASE BuildsNone(t)
    <3>1. Handled \subseteq Handled'
      BY <2>1, <2>3 DEF BuildsNone, Handled, AgentInv, WatcherTypes
    <3> QED
      BY <1>1, <2>3, <3>1 DEF BuildsNone
  <2> QED
    BY <1>8, <2>2, <2>3, HandlerBuilds
<1>9. ASSUME NEW t \in Timers, BroadcastMissionReady(t) PROVE CountInv'
  <2>1. /\ pc' = [pc EXCEPT ![t] = "idle"] /\ correlated' = correlated /\ state' = state
    BY <1>9 DEF BroadcastMissionReady, Flight!BroadcastMissionReady, watcherVars
  <2>2. Handled \subseteq Handled'
    BY <2>1 DEF Handled, AgentInv, WatcherTypes
  <2> QED
    BY <1>1, <2>1, <2>2
<1>10. CASE \/ \E c \in Conns : \/ HubStep(Hub!Register(c) \/ Hub!ReadFails(c) \/ Hub!Unregister(c))
                          \/ HubStep(Hub!Write(c)) \/ Upgrade(c) \/ ClientStep(c)
          \/ HubStep(Hub!WriteDone)
  <2>1. UNCHANGED watcherVars /\ UNCHANGED flightVars
    BY <1>10 DEF HubStep, Upgrade, ClientStep
  <2> QED
    BY <1>3, <2>1 DEF watcherVars, flightVars
<1>11. CASE UNCHANGED vars
  BY <1>3, <1>11 DEF vars, watcherVars, flightVars
<1> QED
  BY <1>4, <1>5, <1>6, <1>7, <1>8, <1>9, <1>10, <1>11 DEF Next, AgentRuns

(* A flight that is built is a message that comes to its send, and there   *)
(* is room for it; a message that is taken leaves it.                      *)
LEMMA HubNext == AgentInv /\ CountInv /\ [Next]_vars => [Hub!Next]_(Hub!vars)
<1> SUFFICES ASSUME AgentInv, CountInv, [Next]_vars PROVE Hub!Next \/ UNCHANGED Hub!vars
  OBVIOUS
<1> DEFINE sending == {t \in Timers : pc[t] = "send"}
<1>1. ASSUME UNCHANGED hubVars, UNCHANGED correlated, sending' = sending
      PROVE  UNCHANGED Hub!vars
  BY <1>1 DEF hubVars, Hub!vars, Hub!connVars
<1>2. ASSUME UNCHANGED <<hubVars, correlated, pc>> PROVE UNCHANGED Hub!vars
  BY <1>1, <1>2
<1>3. ASSUME NEW k, NEW p, Save(k, p) PROVE UNCHANGED Hub!vars
  BY <1>2, <1>3 DEF Save
<1>4. CASE MainStep \/ WatcherStep
  BY <1>2, <1>4 DEF MainStep, WatcherStep, flightVars
<1>5. ASSUME NEW t \in Timers, HandleFileChange(t) PROVE UNCHANGED Hub!vars
  <2>1. pc[t] = "idle" /\ pc' = [pc EXCEPT ![t] = "read"]
    BY <1>5, CallTurn
  <2>2. sending' = sending
    BY <2>1 DEF AgentInv, WatcherTypes
  <2> QED
    BY <1>1, <1>5, <2>2 DEF HandleFileChange
<1>6. ASSUME NEW t \in Timers, HandlerStep(t) PROVE Hub!Next \/ UNCHANGED Hub!vars
  <2>1. UNCHANGED hubVars /\ state' = state
    BY <1>6 DEF HandlerStep, watcherVars
  <2>2. CASE Builds(t)
    <3>1. sending' = sending \cup {t} /\ t \notin sending
      BY <2>2 DEF Builds, AgentInv, WatcherTypes
    <3>2. Cardinality(Handled) < MaxWrites
      BY <2>1, <2>2, OneMoreHandled DEF Builds
    <3>3. correlated < MaxWrites /\ correlated' = correlated + 1
      BY <2>2, <3>2, HandledFinite, WritesAssumption DEF Builds, CountInv
    <3>4. Hub!Send(t)
      BY <2>1, <3>1, <3>3 DEF Hub!Send, Hub!connVars, hubVars
    <3> QED
      BY <3>4 DEF Hub!Next
  <2>3. CASE BuildsNone(t)
    <3>1. sending' = sending
      BY <2>3 DEF BuildsNone, AgentInv, WatcherTypes
    <3> QED
      BY <1>1, <2>1, <2>3, <3>1 DEF BuildsNone
  <2> QED
    BY <1>6, <2>2, <2>3, HandlerBuilds
<1>7. ASSUME NEW t \in Timers, BroadcastMissionReady(t) PROVE Hub!Next
  BY <1>7 DEF BroadcastMissionReady, Hub!Next
<1>8. ASSUME NEW c \in Conns,
             \/ HubStep(Hub!Register(c) \/ Hub!ReadFails(c) \/ Hub!Unregister(c))
             \/ HubStep(Hub!Write(c)) \/ Upgrade(c) \/ ClientStep(c)
      PROVE  Hub!Next
  BY <1>8 DEF HubStep, Upgrade, ClientStep, Hub!Next
<1>9. CASE HubStep(Hub!WriteDone)
  BY <1>9 DEF HubStep, Hub!Next
<1>10. CASE UNCHANGED vars
  BY <1>2, <1>10 DEF vars, flightVars
<1> QED
  BY <1>3, <1>4, <1>5, <1>6, <1>7, <1>8, <1>9, <1>10 DEF Next, AgentRuns

(* In every run of the agent the hub does what WebsocketHub says, with the *)
(* handlers as its producers, and MaxWrites messages are enough for them   *)
(* (BroadcastMissionReady, Run).                                           *)
THEOREM AgentImplementsHub == Spec => HubSpec
<1>1. Init => Hub!Init
  BY DEF Init
<1> QED
  BY <1>1, AgentCorrect, CountInit, CountStep, HubNext, PTL DEF Spec, HubSpec, Hub!Spec


-----------------------------------------------------------------------------
(* What is proved of the parts holds of them in the agent.                 *)
HubProofs == INSTANCE WebsocketHubProofs WITH
  Producers <- Timers,
  MaxMessages <- MaxWrites,
  sending <- {t \in Timers : pc[t] = "send"},
  sent <- correlated

(* In the agent, the hub writes only to connections that are open, leaves  *)
(* none behind, and sends every client all messages from its registration  *)
(* on, each once and in order (Run, RegisterWebsocketEndpoint).            *)
THEOREM HubHolds ==
  Spec => [](Hub!ClientsAreOpen /\ Hub!NoLeak /\ Hub!ContiguousDelivery)
<1>1. HubProofs!Spec =>
        [](HubProofs!ClientsAreOpen /\ HubProofs!NoLeak /\ HubProofs!ContiguousDelivery)
  BY WritesAssumption, HubProofs!HubWritesToOpen, HubProofs!NothingLeaks,
     HubProofs!DeliveryIsContiguous, PTL
<1>2. Hub!Init => HubProofs!Init
  BY DEF Hub!Init, HubProofs!Init
<1>3. [Hub!Next]_(Hub!vars) => [HubProofs!Next]_(HubProofs!vars)
  BY DEF
    Hub!Next, Hub!vars, Hub!connVars, Hub!Upgrade, Hub!Register, Hub!ReadFails, Hub!Unregister,
    Hub!Send, Hub!Broadcast, Hub!Write, Hub!WriteMessage, Hub!WriteFails, Hub!WriteDone,
    Hub!PeerTurns, Hub!PeerStalls, Hub!PeerResumes, Hub!PeerLeaves,
    HubProofs!Next, HubProofs!vars, HubProofs!connVars, HubProofs!Upgrade, HubProofs!Register,
    HubProofs!ReadFails, HubProofs!Unregister, HubProofs!Send, HubProofs!Broadcast,
    HubProofs!Write, HubProofs!WriteMessage, HubProofs!WriteFails, HubProofs!WriteDone,
    HubProofs!PeerTurns, HubProofs!PeerStalls, HubProofs!PeerResumes, HubProofs!PeerLeaves
<1>4. HubProofs!ClientsAreOpen /\ HubProofs!NoLeak /\ HubProofs!ContiguousDelivery
        => Hub!ClientsAreOpen /\ Hub!NoLeak /\ Hub!ContiguousDelivery
  BY DEF Hub!ClientsAreOpen, Hub!NoLeak, Hub!ContiguousDelivery,
         HubProofs!ClientsAreOpen, HubProofs!NoLeak, HubProofs!ContiguousDelivery
<1> QED
  BY <1>1, <1>2, <1>3, <1>4, AgentImplementsHub, PTL DEF HubSpec, Hub!Spec, HubProofs!Spec

WatcherProofs == INSTANCE FileWatcherProofs WITH
  Files <- Kinds, Followed <- Kinds, Callbacks <- {"HandleFileChange"}

(* In the agent, the latest save that fsnotify reports of either file is   *)
(* on its way to HandleFileChange until it was called for it, whatever the *)
(* timers do meanwhile, and no timer of a file runs that a later write     *)
(* could not stop (Start, notifyCallbacks).                                *)
THEOREM WatcherHolds ==
  Spec => [](Watcher!OneArmedPerFile /\ Watcher!MapIsClean /\ Watcher!NoLostWrite)
<1>1. WatcherProofs!Spec =>
        [](WatcherProofs!OneArmedPerFile /\ WatcherProofs!MapIsClean /\ WatcherProofs!NoLostWrite)
  <2>1. WatcherProofs!Timers = Timers
    BY DEF WatcherProofs!Timers, Timers
  <2>2. Nil \notin WatcherProofs!Timers \cup Kinds
    BY <2>1, NilAssumption
  <2>3. Kinds \subseteq Kinds
    OBVIOUS
  <2>4. MaxWrites \in Nat /\ QueueSize \in Nat
    BY WritesAssumption, QueueAssumption
  <2>5. WatcherProofs!Spec => []WatcherProofs!OneArmedPerFile
    BY <2>2, <2>3, <2>4, WatcherProofs!OneArmed
  <2>6. WatcherProofs!Spec => []WatcherProofs!MapIsClean
    BY <2>2, <2>3, <2>4, WatcherProofs!MapClean
  <2>7. WatcherProofs!Spec => []WatcherProofs!NoLostWrite
    BY <2>2, <2>3, <2>4, WatcherProofs!NothingLost
  <2> QED
    BY <2>5, <2>6, <2>7, PTL
<1>2. Watcher!Init => WatcherProofs!Init
  BY DEF Watcher!Init, Watcher!Timers, WatcherProofs!Init, WatcherProofs!Timers
<1>3. [Watcher!Next]_(Watcher!vars) => [WatcherProofs!Next]_(WatcherProofs!vars)
  BY DEF
    Watcher!Next, Watcher!vars, Watcher!fsVars, Watcher!timerVars, Watcher!Timers,
    Watcher!Write, Watcher!Touch, Watcher!Add, Watcher!OnChange, Watcher!Start, Watcher!Stop,
    Watcher!LoopEnds, Watcher!HandleError, Watcher!HandleEvent, Watcher!Relevant,
    Watcher!StopTimer, Watcher!ArmTimer, Watcher!Step, Watcher!Turn, Watcher!Fire,
    Watcher!ForgetTimer, Watcher!NotifyCallbacks, Watcher!Call,
    WatcherProofs!Next, WatcherProofs!vars, WatcherProofs!fsVars, WatcherProofs!timerVars,
    WatcherProofs!Timers, WatcherProofs!Write, WatcherProofs!Touch, WatcherProofs!Add,
    WatcherProofs!OnChange, WatcherProofs!Start, WatcherProofs!Stop, WatcherProofs!LoopEnds,
    WatcherProofs!HandleError, WatcherProofs!HandleEvent, WatcherProofs!Relevant,
    WatcherProofs!StopTimer, WatcherProofs!ArmTimer, WatcherProofs!Step, WatcherProofs!Turn,
    WatcherProofs!Fire, WatcherProofs!ForgetTimer, WatcherProofs!NotifyCallbacks,
    WatcherProofs!Call
<1>4. WatcherProofs!OneArmedPerFile /\ WatcherProofs!MapIsClean /\ WatcherProofs!NoLostWrite
        => Watcher!OneArmedPerFile /\ Watcher!MapIsClean /\ Watcher!NoLostWrite
  BY DEF
    Watcher!OneArmedPerFile, Watcher!MapIsClean, Watcher!NoLostWrite, Watcher!Registered,
    Watcher!Underway, Watcher!Timers,
    WatcherProofs!OneArmedPerFile, WatcherProofs!MapIsClean, WatcherProofs!NoLostWrite,
    WatcherProofs!Registered, WatcherProofs!Underway, WatcherProofs!Timers
<1> QED
  BY <1>1, <1>2, <1>3, <1>4, AgentImplementsWatcher, PTL DEF Watcher!Spec, WatcherProofs!Spec

FlightProofs == INSTANCE FlightManagerProofs WITH
  Handlers <- Timers,
  MaxSaves <- MaxWrites,
  clock <- writes,
  notify <- [k \in Kinds |-> OwedCalls(k)],
  unseen <- {k \in Kinds : lost[k]},
  announced <- accepted

(* In the agent, the flight on offer is built of the two texts taken over  *)
(* last, every flight is announced once, and once nothing is under way in  *)
(* the watcher or its timers, an INI that was saved after its briefing is  *)
(* served with it, if the handlers took their turns in the order of the    *)
(* saves and could read the files (HandleIniChange, HandleBriefingChange). *)
THEOREM FlightHolds ==
  Spec => [](Flight!FlightCoherent /\ Flight!AnnouncedOnce /\ Flight!SerialHandlingCorrelates)
<1>1. FlightProofs!Spec =>
        [](/\ FlightProofs!FlightCoherent /\ FlightProofs!AnnouncedOnce
           /\ FlightProofs!SerialHandlingCorrelates)
  <2>1. FlightProofs!IsFiniteSet(Timers)
    BY HandledFinite DEF IsFiniteSet, FlightProofs!IsFiniteSet
  <2>2. NoFlight \notin FlightProofs!Flight
    BY NoFlightAssumption DEF Flight!Flight, Flight!Text, FlightProofs!Flight, FlightProofs!Text
  <2>3. FlightProofs!Spec => []FlightProofs!FlightCoherent
    BY <2>1, <2>2, WritesAssumption, FlightProofs!FlightIsCoherent
  <2>4. FlightProofs!Spec => []FlightProofs!AnnouncedOnce
    BY <2>1, <2>2, WritesAssumption, FlightProofs!EveryFlightAnnouncedOnce
  <2>5. FlightProofs!Spec => []FlightProofs!SerialHandlingCorrelates
    BY <2>1, <2>2, WritesAssumption, FlightProofs!SerialHandling
  <2> QED
    BY <2>3, <2>4, <2>5, PTL
<1>2. Flight!Init => FlightProofs!Init
  BY DEF Flight!Init, Flight!NoText, Flight!Kinds, FlightProofs!Init, FlightProofs!NoText,
         FlightProofs!Kinds
<1>3. [Flight!Next]_(Flight!vars) => [FlightProofs!Next]_(FlightProofs!vars)
  BY DEF
    Flight!Next, Flight!vars, Flight!fmVars, Flight!diskVars, Flight!NoText, Flight!Kinds,
    Flight!Save, Flight!SaveIni, Flight!SaveBriefing, Flight!Coalesce, Flight!Active,
    Flight!OutOfTurn, Flight!HandleFileChange, Flight!ReadFile, Flight!ReadFails, Flight!Locks,
    Flight!Correlate, Flight!Return, Flight!HandleIniChange, Flight!IsBriefingEqual,
    Flight!KeepBriefing, Flight!ReplaceBriefing, Flight!FirstBriefing,
    Flight!HandleBriefingChange, Flight!BroadcastMissionReady, Flight!Step,
    FlightProofs!Next, FlightProofs!vars, FlightProofs!fmVars, FlightProofs!diskVars,
    FlightProofs!NoText, FlightProofs!Kinds, FlightProofs!Save, FlightProofs!SaveIni,
    FlightProofs!SaveBriefing, FlightProofs!Coalesce, FlightProofs!Active,
    FlightProofs!OutOfTurn, FlightProofs!HandleFileChange, FlightProofs!ReadFile,
    FlightProofs!ReadFails, FlightProofs!Locks, FlightProofs!Correlate, FlightProofs!Return,
    FlightProofs!HandleIniChange, FlightProofs!IsBriefingEqual, FlightProofs!KeepBriefing,
    FlightProofs!ReplaceBriefing, FlightProofs!FirstBriefing,
    FlightProofs!HandleBriefingChange, FlightProofs!BroadcastMissionReady, FlightProofs!Step
<1>4. FlightProofs!FlightCoherent => Flight!FlightCoherent
  BY DEF Flight!FlightCoherent, FlightProofs!FlightCoherent
<1>5. FlightProofs!AnnouncedOnce => Flight!AnnouncedOnce
  BY Zenon DEF Flight!AnnouncedOnce, Flight!Senders, Flight!Cardinality,
               FlightProofs!AnnouncedOnce, FlightProofs!Senders, FlightProofs!Cardinality
<1>6. FlightProofs!SerialHandlingCorrelates => Flight!SerialHandlingCorrelates
  <2>1. FlightProofs!IniSavedLast <=> Flight!IniSavedLast
    BY Zenon DEF Flight!IniSavedLast, Flight!Quiet, Flight!NoText, Flight!Kinds,
           FlightProofs!IniSavedLast, FlightProofs!Quiet, FlightProofs!NoText, FlightProofs!Kinds
  <2>2. FlightProofs!ServesDisk <=> Flight!ServesDisk
    BY DEF Flight!ServesDisk, Flight!IsBriefingEqual,
           FlightProofs!ServesDisk, FlightProofs!IsBriefingEqual
  <2> QED
    BY <2>1, <2>2 DEF Flight!SerialHandlingCorrelates, FlightProofs!SerialHandlingCorrelates
<1> QED
  BY <1>1, <1>2, <1>3, <1>4, <1>5, <1>6, AgentImplementsFlight, PTL
  DEF FlightSpec, Flight!Spec, FlightProofs!Spec
=============================================================================
