-------------------------- MODULE FileWatcherProofs --------------------------
(***************************************************************************)
(* What is proved of FileWatcher for any files, callbacks, writes and      *)
(* queue size.                                                             *)
(***************************************************************************)
EXTENDS FileWatcher, SequenceTheorems, TLAPS

LEMMA TypeInit == Init => TypeOK
<1> SUFFICES ASSUME Init PROVE TypeOK
  OBVIOUS
<1>1. 0 \in 0 .. MaxWrites
  BY BoundsAssumption
<1>2. called \in [Callbacks -> [Files -> Nat]]
  <2>1. [f \in Files |-> 0] \in [Files -> Nat]
    OBVIOUS
  <2> QED
    BY <2>1 DEF Init
<1>3. /\ content \in [Files -> Nat]
      /\ debounceTimers \in [Files -> Timers \cup {Nil}]
      /\ state \in [Timers -> TimerStates]
      /\ file \in [Timers -> Followed \cup {Nil}]
      /\ left \in [Timers -> Seq(Callbacks)]
      /\ lost \in [Files -> BOOLEAN]
  BY DEF Init, TimerStates
<1>4. /\ watched \in SUBSET Files
      /\ events \in Seq([name : Files, write : BOOLEAN])
      /\ callbacks \in Seq(Callbacks)
  BY DEF Init
<1> QED
  BY <1>1, <1>2, <1>3, <1>4 DEF Init, TypeOK

(* Arming a timer keeps the types of the timers' variables.                *)
LEMMA ArmType ==
  ASSUME TypeOK, NEW f \in Followed, ArmTimer(f, StopTimer(f))
  PROVE  /\ debounceTimers' \in [Files -> Timers \cup {Nil}]
         /\ armed' \in 0 .. MaxWrites
         /\ state' \in [Timers -> TimerStates]
         /\ file' \in [Timers -> Followed \cup {Nil}]
<1>1. armed + 1 \in Timers /\ armed + 1 \in 0 .. MaxWrites
  BY BoundsAssumption DEF TypeOK, ArmTimer, Timers
<1>2. StopTimer(f) \in [Timers -> TimerStates]
  BY DEF TypeOK, StopTimer, TimerStates
<1> QED
  BY <1>1, <1>2 DEF TypeOK, ArmTimer, TimerStates

LEMMA TypeStep == TypeOK /\ [Next]_vars => TypeOK'
<1> SUFFICES ASSUME TypeOK, [Next]_vars PROVE TypeOK'
  OBVIOUS
<1> USE FollowedAssumption, BoundsAssumption DEF fsVars, timerVars
<1>1. ASSUME NEW f \in Files, Write(f) PROVE TypeOK'
  <2>1. writes + 1 \in 0 .. MaxWrites /\ writes + 1 \in Nat
    BY <1>1 DEF TypeOK, Write
  <2>2. Append(events, [name |-> f, write |-> TRUE]) \in Seq([name : Files, write : BOOLEAN])
    BY AppendProperties DEF TypeOK
  <2> QED
    BY <1>1, <2>1, <2>2 DEF TypeOK, Write
<1>2. ASSUME NEW f \in Files, Touch(f) PROVE TypeOK'
  <2>1. Append(events, [name |-> f, write |-> FALSE]) \in Seq([name : Files, write : BOOLEAN])
    BY AppendProperties DEF TypeOK
  <2> QED
    BY <1>2, <2>1 DEF TypeOK, Touch
<1>3. ASSUME NEW f \in Files, Add(f) PROVE TypeOK'
  BY <1>3 DEF TypeOK, Add
<1>4. ASSUME NEW cb \in Callbacks, OnChange(cb) PROVE TypeOK'
  <2>1. Append(callbacks, cb) \in Seq(Callbacks)
    BY AppendProperties DEF TypeOK
  <2> QED
    BY <1>4, <2>1 DEF TypeOK, OnChange
<1>5. CASE Start \/ Stop \/ LoopEnds \/ HandleError
  BY <1>5 DEF TypeOK, Start, Stop, LoopEnds, HandleError
<1>6. CASE HandleEvent
  <2>1. /\ Tail(events) \in Seq([name : Files, write : BOOLEAN])
        /\ Head(events) \in [name : Files, write : BOOLEAN]
    BY <1>6, HeadTailProperties DEF TypeOK, HandleEvent
  <2>2. CASE Relevant(Head(events))
    <3>1. Head(events).name \in Followed
      BY <2>2 DEF Relevant
    <3>2. ArmTimer(Head(events).name, StopTimer(Head(events).name))
      BY <1>6, <2>2 DEF HandleEvent
    <3> QED
      BY <1>6, <2>1, <3>1, <3>2, ArmType DEF TypeOK, HandleEvent
  <2>3. CASE ~Relevant(Head(events))
    BY <1>6, <2>1, <2>3 DEF TypeOK, HandleEvent
  <2> QED
    BY <2>2, <2>3
<1>7. ASSUME NEW t \in Timers, Fire(t) PROVE TypeOK'
  BY <1>7 DEF TypeOK, Fire, Turn, TimerStates
<1>8. ASSUME NEW t \in Timers, ForgetTimer(t) PROVE TypeOK'
  BY <1>8 DEF TypeOK, ForgetTimer, Turn, TimerStates
<1>9. ASSUME NEW t \in Timers, NotifyCallbacks(t) PROVE TypeOK'
  BY <1>9 DEF TypeOK, NotifyCallbacks, Turn, TimerStates
<1>10. ASSUME NEW t \in Timers, Call(t) PROVE TypeOK'
  <2>1. Tail(left[t]) \in Seq(Callbacks) /\ Head(left[t]) \in Callbacks
    BY <1>10, HeadTailProperties DEF TypeOK, Call
  <2>2. state' \in [Timers -> TimerStates]
    BY <1>10 DEF TypeOK, Call, Turn, TimerStates
  <2>3. /\ left' = [left EXCEPT ![t] = Tail(left[t])]
        /\ UNCHANGED <<fsVars, events, overflow, loop, closed, callbacks, armed, file,
                       debounceTimers>>
    BY <1>10 DEF Call, Turn
  <2>4. called' \in [Callbacks -> [Files -> Nat]]
    BY <1>10, <2>1 DEF TypeOK, Call
  <2> QED
    BY <2>1, <2>2, <2>3, <2>4 DEF TypeOK
<1>11. CASE UNCHANGED vars
  BY <1>11 DEF TypeOK, vars
<1> QED
  BY <1>1, <1>2, <1>3, <1>4, <1>5, <1>6, <1>7, <1>8, <1>9, <1>10, <1>11 DEF Next, Step

(* Type correctness of the watcher, its timers and its queue.              *)
THEOREM TypeCorrect == Spec => []TypeOK
BY TypeInit, TypeStep, PTL DEF Spec

-----------------------------------------------------------------------------
(* The timers that were armed, and only they, have a file and a state.     *)
ArmedSoFar ==
  \A t \in Timers : /\ t > armed => state[t] = "unused"
                    /\ t =< armed => file[t] \in Followed

WatcherInv == TypeOK /\ ArmedSoFar /\ OneArmedPerFile /\ MapIsClean

TimerInv == ArmedSoFar /\ OneArmedPerFile /\ MapIsClean

(* Handling a write stops the timer in the map and puts the new one there. *)
LEMMA ArmStep ==
  ASSUME WatcherInv, NEW f \in Followed, ArmTimer(f, StopTimer(f))
  PROVE  TimerInv'
<1> USE FollowedAssumption
<1>1. /\ armed + 1 \in Timers /\ armed \in Nat /\ armed' = armed + 1
      /\ f \in Files
  BY BoundsAssumption DEF WatcherInv, TypeOK, ArmTimer, Timers
<1>2. /\ file'[armed + 1] = f /\ debounceTimers'[f] = armed + 1 /\ state'[armed + 1] = "armed"
      /\ \A t \in Timers \ {armed + 1} : file'[t] = file[t] /\ state'[t] = StopTimer(f)[t]
      /\ \A g \in Files \ {f} : debounceTimers'[g] = debounceTimers[g]
  BY <1>1 DEF WatcherInv, TypeOK, ArmTimer, StopTimer
<1>3. \A t \in Timers :
        StopTimer(f)[t] = IF t = debounceTimers[f] /\ state[t] = "armed"
                          THEN "stopped" ELSE state[t]
  BY <1>1, NilAssumption DEF WatcherInv, TypeOK, StopTimer
<1>4. ArmedSoFar'
  <2>1. ASSUME NEW t \in Timers, t > armed + 1 PROVE state'[t] = "unused"
    <3>1. t > armed /\ t # armed + 1
      BY <1>1, <2>1 DEF Timers
    <3> QED
      BY <1>2, <1>3, <3>1 DEF WatcherInv, ArmedSoFar
  <2>2. ASSUME NEW t \in Timers, t =< armed + 1 PROVE file'[t] \in Followed
    <3>1. t =< armed \/ t = armed + 1
      BY <1>1, <2>2 DEF Timers
    <3> QED
      BY <1>1, <1>2, <3>1 DEF WatcherInv, ArmedSoFar
  <2> QED
    BY <1>1, <2>1, <2>2 DEF ArmedSoFar
<1>5. OneArmedPerFile'
  <2>1. ASSUME NEW t \in Timers \ {armed + 1}, state'[t] = "armed"
        PROVE  debounceTimers'[file'[t]] = t
    <3>1. state[t] = "armed" /\ t # debounceTimers[f]
      BY <1>2, <1>3, <2>1
    <3>2. debounceTimers[file[t]] = t /\ file[t] # f
      BY <3>1 DEF WatcherInv, OneArmedPerFile
    <3>3. file[t] \in Files
      BY <3>1 DEF WatcherInv, ArmedSoFar, TypeOK, Timers
    <3> QED
      BY <1>2, <2>1, <3>2, <3>3
  <2> QED
    BY <1>2, <2>1 DEF OneArmedPerFile
<1>6. MapIsClean'
  <2>1. ASSUME NEW g \in Files \ {f}, debounceTimers[g] # Nil
        PROVE  /\ file'[debounceTimers[g]] = g
               /\ state'[debounceTimers[g]] \in {"armed", "fired"}
    <3>1. /\ debounceTimers[g] \in Timers /\ file[debounceTimers[g]] = g
          /\ state[debounceTimers[g]] \in {"armed", "fired"}
      BY <2>1 DEF WatcherInv, TypeOK, MapIsClean
    <3>2. debounceTimers[g] # armed + 1
      BY <1>1, <3>1 DEF WatcherInv, ArmedSoFar
    <3>3. debounceTimers[g] # debounceTimers[f]
      BY <1>1, <2>1, <3>1 DEF WatcherInv, MapIsClean
    <3> QED
      BY <1>2, <1>3, <3>1, <3>2, <3>3
  <2> QED
    BY <1>2, <2>1 DEF MapIsClean
<1> QED
  BY <1>4, <1>5, <1>6 DEF TimerInv

LEMMA TimerStep == WatcherInv /\ [Next]_vars => TimerInv'
<1> SUFFICES ASSUME WatcherInv, [Next]_vars PROVE TimerInv'
  OBVIOUS
<1> USE FollowedAssumption, NilAssumption
<1>1. CASE UNCHANGED <<debounceTimers, armed, state, file>>
  BY <1>1 DEF WatcherInv, TimerInv, ArmedSoFar, OneArmedPerFile, MapIsClean
<1>2. CASE HandleEvent
  <2>1. CASE Relevant(Head(events))
    BY <1>2, <2>1, ArmStep DEF HandleEvent, Relevant
  <2> QED
    BY <1>1, <1>2, <2>1 DEF HandleEvent
<1>3. ASSUME NEW t \in Timers, Fire(t) PROVE TimerInv'
  BY <1>3 DEF Fire, Turn, WatcherInv, TypeOK, TimerInv, ArmedSoFar, OneArmedPerFile, MapIsClean
<1>4. ASSUME NEW t \in Timers, ForgetTimer(t) PROVE TimerInv'
  <2>1. /\ state[t] = "fired" /\ state' = [state EXCEPT ![t] = "notify"]
        /\ UNCHANGED <<armed, file>>
        /\ \A f \in Files : debounceTimers'[f] = IF f = file[t] /\ debounceTimers[f] = t
                                                THEN Nil ELSE debounceTimers[f]
    BY <1>4 DEF ForgetTimer, Turn
  <2>2. ArmedSoFar'
    BY <2>1 DEF WatcherInv, TypeOK, ArmedSoFar
  <2>3. OneArmedPerFile'
    <3>1. ASSUME NEW u \in Timers, state'[u] = "armed" PROVE debounceTimers'[file[u]] = u
      <4>1. u # t /\ state[u] = "armed"
        BY <2>1, <3>1 DEF WatcherInv, TypeOK
      <4>2. debounceTimers[file[u]] = u /\ file[u] \in Files
        BY <4>1 DEF WatcherInv, TypeOK, OneArmedPerFile, ArmedSoFar, Timers
      <4> QED
        BY <2>1, <4>1, <4>2
    <3> QED
      BY <2>1, <3>1 DEF OneArmedPerFile
  <2>4. MapIsClean'
    BY <2>1 DEF WatcherInv, TypeOK, MapIsClean
  <2> QED
    BY <2>2, <2>3, <2>4 DEF TimerInv
<1>5. ASSUME NEW t \in Timers, NEW c \in TimerStates \ {"unused", "armed", "fired"},
             state[t] \in {"notify", "calling"}, state' = [state EXCEPT ![t] = c],
             UNCHANGED <<debounceTimers, armed, file>>
      PROVE  TimerInv'
  BY <1>5 DEF WatcherInv, TypeOK, TimerInv, ArmedSoFar, OneArmedPerFile, MapIsClean
<1>6. ASSUME NEW t \in Timers, NotifyCallbacks(t) \/ Call(t) PROVE TimerInv'
  BY <1>5, <1>6 DEF NotifyCallbacks, Call, Turn, TimerStates
<1> QED
  BY <1>1, <1>2, <1>3, <1>4, <1>6
  DEF Next, Step, Write, Touch, Add, OnChange, Start, Stop, LoopEnds, HandleError, timerVars, vars

LEMMA TimerInit == Init => TimerInv
BY DEF Init, TimerInv, ArmedSoFar, OneArmedPerFile, MapIsClean, Timers

LEMMA WatcherCorrect == Spec => []WatcherInv
BY TypeCorrect, TimerInit, TimerStep, PTL DEF Spec, WatcherInv, TimerInv

(* A file has at most one armed timer, and the loop can stop it.           *)
THEOREM OneArmed == Spec => []OneArmedPerFile
BY WatcherCorrect, PTL DEF WatcherInv

(* No timer that has run its course stays in the map.                      *)
THEOREM MapClean == Spec => []MapIsClean
BY WatcherCorrect, PTL DEF WatcherInv

-----------------------------------------------------------------------------
(* The two halves of Underway.                                             *)
Reported(f) == \E i \in 1 .. Len(events) : events[i] = [name |-> f, write |-> TRUE]

Timed(t, f, cb) ==
  /\ file[t] = f
  /\ \/ state[t] \in {"armed", "fired", "notify"}
     \/ state[t] = "calling" /\ \E i \in 1 .. Len(left[t]) : left[t][i] = cb

(* Enqueuing an event hides none of those before it.                       *)
LEMMA ReportedStays ==
  ASSUME TypeOK, NEW f, NEW e \in [name : Files, write : BOOLEAN], events' = Append(events, e)
  PROVE  Reported(f) \/ e = [name |-> f, write |-> TRUE] => Reported(f)'
<1>1. /\ Len(events') = Len(events) + 1 /\ Len(events) \in Nat
      /\ events'[Len(events) + 1] = e
      /\ \A i \in 1 .. Len(events) : events'[i] = events[i]
  BY AppendProperties, LenProperties DEF TypeOK
<1>2. \A i \in 1 .. Len(events) : i \in 1 .. Len(events')
  BY <1>1
<1>3. Len(events) + 1 \in 1 .. Len(events')
  BY <1>1
<1> QED
  BY <1>1, <1>2, <1>3 DEF Reported

(* What a write is waiting for can only be an event or a timer that the    *)
(* step itself takes further: by the kind of step.                         *)
LEMMA EventStep ==
  ASSUME WatcherInv, HandleEvent, NEW f \in Followed, NEW cb \in Callbacks, Underway(f, cb)
  PROVE  Underway(f, cb)'
<1> USE FollowedAssumption, NilAssumption
<1>1. /\ events \in Seq([name : Files, write : BOOLEAN]) /\ events # <<>>
      /\ events' = Tail(events) /\ left' = left
  BY DEF WatcherInv, TypeOK, HandleEvent
<1>2. /\ Len(events') = Len(events) - 1 /\ Len(events) \in Nat
      /\ \A i \in 1 .. Len(events') : events'[i] = events[i + 1]
  BY <1>1, HeadTailProperties, LenProperties
<1>3. Reported(f) => events[1] = [name |-> f, write |-> TRUE] \/ Reported(f)'
  <2>1. ASSUME NEW i \in 1 .. Len(events), i # 1 PROVE i - 1 \in 1 .. Len(events') /\ events'[i - 1] = events[i]
    BY <1>2, <2>1
  <2> QED
    BY <2>1 DEF Reported
<1>4. CASE Relevant(Head(events))
  <2>1. PICK g \in Followed : g = Head(events).name /\ ArmTimer(g, StopTimer(g))
    BY <1>4 DEF HandleEvent, Relevant
  <2>2. PICK n \in Timers : n = armed + 1 /\ armed \in Nat
    BY <2>1, BoundsAssumption DEF WatcherInv, TypeOK, ArmTimer, Timers
  <2>3. /\ file'[n] = g /\ state'[n] = "armed"
        /\ \A t \in Timers \ {n} : file'[t] = file[t] /\ state'[t] = StopTimer(g)[t]
    BY <2>1, <2>2 DEF WatcherInv, TypeOK, ArmTimer, StopTimer
  <2>4. Timed(n, g, cb)'
    BY <2>3 DEF Timed
  <2>5. CASE f = g
    BY <2>4, <2>5 DEF Underway, Timed
  <2>6. ASSUME f # g, NEW t \in Timers, Timed(t, f, cb) PROVE Timed(t, f, cb)'
    <3>1. t # n
      BY <2>2, <2>6 DEF Timed, WatcherInv, ArmedSoFar
    <3>2. StopTimer(g)[t] = state[t]
      BY <2>1, <2>6 DEF WatcherInv, TypeOK, StopTimer, MapIsClean, Timed
    <3> QED
      BY <1>1, <2>3, <2>6, <3>1, <3>2 DEF Timed
  <2>7. f # g => events[1] # [name |-> f, write |-> TRUE]
    BY <1>1, <2>1
  <2> QED
    BY <1>3, <2>5, <2>6, <2>7 DEF Underway, Reported, Timed
<1>5. CASE ~Relevant(Head(events))
  <2>1. events[1] # [name |-> f, write |-> TRUE]
    BY <1>1, <1>5 DEF Relevant
  <2>2. UNCHANGED <<state, file>>
    BY <1>5 DEF HandleEvent
  <2> QED
    BY <1>1, <1>3, <2>1, <2>2 DEF Underway, Reported, Timed
<1> QED
  BY <1>4, <1>5

(* A step that neither handles an event nor moves a timer.                 *)
LEMMA UnderwayStays ==
  ASSUME NEW f, NEW cb, Underway(f, cb), UNCHANGED <<state, file, left>>,
         Reported(f) => Reported(f)'
  PROVE  Underway(f, cb)'
BY DEF Underway, Reported

LEMMA LostStep == WatcherInv /\ NoLostWrite /\ [Next]_vars => NoLostWrite'
<1> SUFFICES ASSUME WatcherInv, NoLostWrite, [Next]_vars,
                    NEW f \in Followed, NEW cb \in Callbacks,
                    Registered(cb)', ~lost'[f], called'[cb][f] # content'[f]
             PROVE  Underway(f, cb)'
  BY DEF NoLostWrite
<1> USE FollowedAssumption
<1>1. ASSUME Registered(cb), ~lost[f], called[cb][f] # content[f] PROVE Underway(f, cb)
  BY <1>1 DEF NoLostWrite
<1>2. ASSUME NEW g \in Files, Write(g) PROVE Underway(f, cb)'
  <2>1. UNCHANGED <<callbacks, called, state, file, left>>
    BY <1>2 DEF Write, timerVars
  <2>2. CASE g = f
    <3>1. events' = Append(events, [name |-> g, write |-> TRUE])
      BY <1>2, <2>2 DEF Write, WatcherInv, TypeOK
    <3>2. [name |-> g, write |-> TRUE] \in [name : Files, write : BOOLEAN]
      OBVIOUS
    <3>3. Reported(f)'
      BY <2>2, <3>1, <3>2, ReportedStays DEF WatcherInv
    <3> QED
      BY <3>3 DEF Underway, Reported
  <2>3. CASE g # f
    <3>1. Underway(f, cb)
      BY <1>1, <1>2, <2>1, <2>3 DEF Write, Registered, WatcherInv, TypeOK
    <3>2. [name |-> g, write |-> TRUE] \in [name : Files, write : BOOLEAN]
      OBVIOUS
    <3>3. Reported(f) => Reported(f)'
      <4>1. CASE events' = Append(events, [name |-> g, write |-> TRUE])
        BY <3>2, <4>1, ReportedStays DEF WatcherInv
      <4>2. CASE UNCHANGED events
        BY <4>2 DEF Reported
      <4> QED
        BY <1>2, <4>1, <4>2 DEF Write
    <3> QED
      BY <2>1, <3>1, <3>3, UnderwayStays
  <2> QED
    BY <2>2, <2>3
<1>3. ASSUME NEW g \in Files, Touch(g) PROVE Underway(f, cb)'
  <2>1. /\ UNCHANGED <<callbacks, called, content, lost, state, file, left>>
        /\ events' = Append(events, [name |-> g, write |-> FALSE])
    BY <1>3 DEF Touch, fsVars, timerVars
  <2>2. [name |-> g, write |-> FALSE] \in [name : Files, write : BOOLEAN]
    OBVIOUS
  <2>3. Underway(f, cb)
    BY <1>1, <2>1 DEF Registered
  <2>4. Reported(f) => Reported(f)'
    BY <2>1, <2>2, ReportedStays DEF WatcherInv
  <2> QED
    BY <2>1, <2>3, <2>4, UnderwayStays
<1>4. ASSUME NEW other \in Callbacks, OnChange(other) PROVE Underway(f, cb)'
  <2>1. /\ called' = [called EXCEPT ![other] = content]
        /\ callbacks' = Append(callbacks, other)
        /\ UNCHANGED <<content, lost, events, state, file, left>>
    BY <1>4 DEF OnChange, fsVars, timerVars
  <2>2. cb # other
    BY <2>1 DEF WatcherInv, TypeOK
  <2>3. Registered(cb)
    <3>1. /\ Len(callbacks') = Len(callbacks) + 1 /\ Len(callbacks) \in Nat
          /\ callbacks'[Len(callbacks) + 1] = other
          /\ \A i \in 1 .. Len(callbacks) : callbacks'[i] = callbacks[i]
      BY <2>1, AppendProperties, LenProperties DEF WatcherInv, TypeOK
    <3>2. PICK i \in 1 .. Len(callbacks') : callbacks'[i] = cb
      BY DEF Registered
    <3>3. i \in 1 .. Len(callbacks)
      BY <2>2, <3>1, <3>2
    <3> QED
      BY <3>1, <3>2, <3>3 DEF Registered
  <2>4. Underway(f, cb)
    BY <1>1, <2>1, <2>2, <2>3 DEF WatcherInv, TypeOK
  <2> QED
    BY <2>1, <2>4, UnderwayStays DEF Reported
<1>5. CASE HandleEvent
  <2>1. UNCHANGED <<callbacks, called, content, lost>>
    BY <1>5 DEF HandleEvent, fsVars
  <2> QED
    BY <1>1, <1>5, <2>1, EventStep DEF Registered
<1>6. CASE UNCHANGED <<callbacks, called, content, lost, events, state, file, left>>
  <2>1. Underway(f, cb)
    BY <1>1, <1>6 DEF Registered
  <2> QED
    BY <1>6, <2>1, UnderwayStays DEF Reported
<1>7. ASSUME NEW t \in Timers, Fire(t) \/ ForgetTimer(t) PROVE Underway(f, cb)'
  <2>1. /\ state[t] \in {"armed", "fired"} /\ state'[t] \in {"fired", "notify"}
        /\ \A u \in Timers \ {t} : state'[u] = state[u]
        /\ UNCHANGED <<callbacks, called, content, lost, events, file, left>>
    BY <1>7 DEF Fire, ForgetTimer, Turn, fsVars, WatcherInv, TypeOK
  <2>2. Underway(f, cb)
    BY <1>1, <2>1 DEF Registered
  <2> QED
    BY <2>1, <2>2 DEF Underway
<1>8. ASSUME NEW t \in Timers, NotifyCallbacks(t) PROVE Underway(f, cb)'
  <2>1. /\ state[t] = "notify"
        /\ \A u \in Timers \ {t} : state'[u] = state[u] /\ left'[u] = left[u]
        /\ left'[t] = callbacks
        /\ UNCHANGED <<callbacks, called, content, lost, events, file>>
    BY <1>8 DEF NotifyCallbacks, Turn, fsVars, WatcherInv, TypeOK
  <2>2. Registered(cb) /\ Underway(f, cb)
    BY <1>1, <2>1 DEF Registered
  <2>3. callbacks # <<>>
    BY <2>2 DEF Registered
  <2>4. state'[t] = "calling"
    BY <1>8, <2>3 DEF NotifyCallbacks, Turn, WatcherInv, TypeOK
  <2>5. \E i \in 1 .. Len(left'[t]) : left'[t][i] = cb
    BY <2>1, <2>2 DEF Registered
  <2> QED
    BY <2>1, <2>2, <2>4, <2>5 DEF Underway
<1>9. ASSUME NEW t \in Timers, Call(t) PROVE Underway(f, cb)'
  <2>1. /\ state[t] = "calling" /\ left[t] # <<>> /\ left[t] \in Seq(Callbacks)
        /\ \A u \in Timers \ {t} : state'[u] = state[u] /\ left'[u] = left[u]
        /\ left'[t] = Tail(left[t])
        /\ state'[t] = IF Tail(left[t]) = <<>> THEN "done" ELSE "calling"
        /\ called' = [called EXCEPT ![Head(left[t])][file[t]] = content[file[t]]]
        /\ UNCHANGED <<callbacks, content, lost, events, file>>
    BY <1>9 DEF Call, Turn, fsVars, WatcherInv, TypeOK
  <2>2. ~(Head(left[t]) = cb /\ file[t] = f)
    BY <2>1 DEF WatcherInv, TypeOK
  <2>3. called'[cb][f] = called[cb][f]
    BY <2>1, <2>2 DEF WatcherInv, TypeOK
  <2>4. Underway(f, cb)
    BY <1>1, <2>1, <2>3 DEF Registered
  <2>5. ASSUME file[t] = f, NEW i \in 1 .. Len(left[t]), left[t][i] = cb
        PROVE  Timed(t, f, cb)'
    <3>1. Len(left'[t]) = Len(left[t]) - 1 /\ Len(left[t]) \in Nat
      BY <2>1, HeadTailProperties, LenProperties
    <3>2. i # 1
      BY <2>1, <2>2, <2>5
    <3>3. i - 1 \in 1 .. Len(left'[t]) /\ left'[t][i - 1] = cb
      BY <2>1, <2>5, <3>1, <3>2, HeadTailProperties
    <3>4. Tail(left[t]) # <<>>
      BY <2>1, <3>3
    <3> QED
      BY <2>1, <2>5, <3>3, <3>4 DEF Timed
  <2>6. ASSUME NEW u \in Timers, Timed(u, f, cb) PROVE Timed(u, f, cb)'
    BY <2>1, <2>5, <2>6 DEF Timed
  <2> QED
    BY <2>1, <2>4, <2>6 DEF Underway, Timed
<1> QED
  BY <1>2, <1>3, <1>4, <1>5, <1>6, <1>7, <1>8, <1>9
  DEF Next, Step, Add, Start, Stop, LoopEnds, HandleError, fsVars, timerVars, vars

LEMMA LostInit == Init => NoLostWrite
BY DEF Init, NoLostWrite, Registered

(* No write that fsnotify reported is dropped on its way to a callback.    *)
THEOREM NothingLost == Spec => []NoLostWrite
BY WatcherCorrect, LostInit, LostStep, PTL DEF Spec
=============================================================================
