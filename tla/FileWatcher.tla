----------------------------- MODULE FileWatcher -----------------------------
(***************************************************************************)
(* file_watcher.go: from the writes that fsnotify reports to one callback  *)
(* per burst of writes.                                                    *)
(*                                                                         *)
(* The event loop restarts a timer per file; a timer that fires runs its   *)
(* function on a goroutine of its own, which forgets the timer, copies the *)
(* list of callbacks and calls them.  The loop and the timers' functions   *)
(* share debounceTimers under mu, so handling an event and forgetting a    *)
(* timer are one step each.  A timer fires at any time after it was armed: *)
(* how long a burst lasts is left out.                                     *)
(*                                                                         *)
(* fsnotify (external) is a queue of events that loses what it has no room *)
(* for and reports that as an error.  The content of a file is the number  *)
(* of its latest write.                                                    *)
(***************************************************************************)
EXTENDS Naturals, Sequences

CONSTANTS
  Files,        \* the files that are written to
  Followed,     \* those whose name ends in briefing.txt, ini, cam or tac
  Callbacks,    \* the functions that are registered
  Nil,          \* no entry in debounceTimers; the file of a timer not armed yet
  MaxWrites,    \* bound: the files are written to at most this often
  QueueSize     \* how many events fsnotify and the system hold back

ASSUME FollowedAssumption == Followed \subseteq Files
ASSUME BoundsAssumption == MaxWrites \in Nat /\ QueueSize \in Nat

(* The timers, in the order in which they are armed: one per write at most.*)
Timers == 1 .. MaxWrites
ASSUME NilAssumption == Nil \notin Timers \cup Files

VARIABLES
  \* the files and fsnotify
  content,         \* the number of the latest write to each file
  writes,          \* the writes so far, to all files
  watched,         \* the files that fsnotify watches
  events,          \* the channel watcher.Events
  overflow,        \* is an error waiting in watcher.Errors?
  \* the FileWatcher
  loop,            \* the event loop: "off", "running" or "ended"
  closed,          \* watcher.Close was called
  callbacks,       \* fw.callbacks
  debounceTimers,  \* the timer of each file
  armed,           \* the timers armed so far are 1 .. armed
  state, file,     \* of each timer: what became of it, and its file
  left,            \* the callbacks a timer's function still has to call
  \* history
  called,          \* the content each callback was last called for
  lost             \* has fsnotify lost the latest write to a file?

fsVars == <<content, writes, watched, lost>>
timerVars == <<debounceTimers, armed, state, file, left>>
vars == <<fsVars, events, overflow, loop, closed, callbacks, timerVars, called>>

TimerStates == {"unused", "armed", "stopped", "fired", "notify", "calling", "done"}

TypeOK ==
  /\ content \in [Files -> Nat]
  /\ writes \in 0 .. MaxWrites
  /\ watched \in SUBSET Files
  /\ events \in Seq([name : Files, write : BOOLEAN])
  /\ overflow \in BOOLEAN
  /\ loop \in {"off", "running", "ended"}
  /\ closed \in BOOLEAN
  /\ callbacks \in Seq(Callbacks)
  /\ debounceTimers \in [Files -> Timers \cup {Nil}]
  /\ armed \in 0 .. MaxWrites
  /\ state \in [Timers -> TimerStates]
  /\ file \in [Timers -> Followed \cup {Nil}]
  /\ left \in [Timers -> Seq(Callbacks)]
  /\ called \in [Callbacks -> [Files -> Nat]]
  /\ lost \in [Files -> BOOLEAN]

Init ==
  /\ content = [f \in Files |-> 0]
  /\ writes = 0
  /\ watched = {}
  /\ events = <<>>
  /\ overflow = FALSE
  /\ loop = "off"
  /\ closed = FALSE
  /\ callbacks = <<>>
  /\ debounceTimers = [f \in Files |-> Nil]
  /\ armed = 0
  /\ state = [t \in Timers |-> "unused"]
  /\ file = [t \in Timers |-> Nil]
  /\ left = [t \in Timers |-> <<>>]
  /\ called = [cb \in Callbacks |-> [f \in Files |-> 0]]
  /\ lost = [f \in Files |-> FALSE]

-----------------------------------------------------------------------------
(* The files and fsnotify.                                                 *)

(* A write to a file that is not watched is lost, and so is one that finds *)
(* the queue full.                                                         *)
Write(f) ==
  /\ writes < MaxWrites
  /\ writes' = writes + 1
  /\ content' = [content EXCEPT ![f] = writes + 1]
  /\ \/ /\ f \in watched /\ ~closed /\ Len(events) < QueueSize
        /\ events' = Append(events, [name |-> f, write |-> TRUE])
        /\ lost' = [lost EXCEPT ![f] = FALSE]
        /\ UNCHANGED overflow
     \/ /\ f \in watched /\ ~closed /\ Len(events) >= QueueSize
        /\ overflow' = TRUE
        /\ lost' = [lost EXCEPT ![f] = TRUE]
        /\ UNCHANGED events
     \/ /\ f \notin watched \/ closed
        /\ lost' = [lost EXCEPT ![f] = TRUE]
        /\ UNCHANGED <<events, overflow>>
  /\ UNCHANGED <<watched, loop, closed, callbacks, timerVars, called>>

(* Anything else that happens to a watched file: created, renamed, ...     *)
Touch(f) ==
  /\ f \in watched /\ ~closed /\ Len(events) < QueueSize
  /\ events' = Append(events, [name |-> f, write |-> FALSE])
  /\ UNCHANGED <<fsVars, overflow, loop, closed, callbacks, timerVars, called>>

-----------------------------------------------------------------------------
(* The FileWatcher's functions.                                            *)

(* An Add that fails, for a path that does not exist, is logged and leaves *)
(* the path unwatched.                                                     *)
Add(f) ==
  /\ ~closed
  /\ f \notin watched
  /\ watched' = watched \cup {f}
  /\ UNCHANGED <<content, writes, lost, events, overflow, loop, closed, callbacks,
                 timerVars, called>>

(* A callback, which the constructor or OnChange registers, is owed the    *)
(* writes from now on.                                                     *)
OnChange(cb) ==
  /\ \A i \in 1 .. Len(callbacks) : callbacks[i] # cb
  /\ callbacks' = Append(callbacks, cb)
  /\ called' = [called EXCEPT ![cb] = content]
  /\ UNCHANGED <<fsVars, events, overflow, loop, closed, timerVars>>

Start ==
  /\ loop = "off"
  /\ loop' = "running"
  /\ UNCHANGED <<fsVars, events, overflow, closed, callbacks, timerVars, called>>

(* Timers that are armed still fire.                                       *)
Stop ==
  /\ ~closed
  /\ closed' = TRUE
  /\ UNCHANGED <<fsVars, events, overflow, loop, callbacks, timerVars, called>>

(* The loop finds Events or Errors closed.                                 *)
LoopEnds ==
  /\ loop = "running"
  /\ closed
  /\ loop' = "ended"
  /\ UNCHANGED <<fsVars, events, overflow, closed, callbacks, timerVars, called>>

(* An error, such as a queue overflow, is logged and nothing else.         *)
HandleError ==
  /\ loop = "running"
  /\ overflow
  /\ overflow' = FALSE
  /\ UNCHANGED <<fsVars, events, loop, closed, callbacks, timerVars, called>>

-----------------------------------------------------------------------------
(* The event loop.                                                         *)

(* Mutant of Relevant: any file that is written to.                        *)
AnyWrite(event) == event.write

(* The events that are not dropped: writes, by the file's suffix.          *)
Relevant(event) == event.write /\ event.name \in Followed

(* Mutant of StopTimer: the old timer is left running.                     *)
KeepTimer(f) == state

(* timer.Stop(): a timer that has fired is not stopped.                    *)
StopTimer(f) ==
  IF debounceTimers[f] # Nil /\ state[debounceTimers[f]] = "armed"
  THEN [state EXCEPT ![debounceTimers[f]] = "stopped"]
  ELSE state

(* Mutant of ArmTimer: only a file without a timer gets one.               *)
ArmFirst(f, states) ==
  \/ /\ debounceTimers[f] = Nil
     /\ armed < MaxWrites
     /\ armed' = armed + 1
     /\ state' = [states EXCEPT ![armed + 1] = "armed"]
     /\ file' = [file EXCEPT ![armed + 1] = f]
     /\ debounceTimers' = [debounceTimers EXCEPT ![f] = armed + 1]
  \/ /\ debounceTimers[f] # Nil
     /\ state' = states
     /\ UNCHANGED <<armed, file, debounceTimers>>

(* time.AfterFunc: the next timer replaces the file's entry.  The bound on *)
(* the timers is never met first: each of them stands for a write.         *)
ArmTimer(f, states) ==
  /\ armed < MaxWrites
  /\ armed' = armed + 1
  /\ state' = [states EXCEPT ![armed + 1] = "armed"]
  /\ file' = [file EXCEPT ![armed + 1] = f]
  /\ debounceTimers' = [debounceTimers EXCEPT ![f] = armed + 1]

HandleEvent ==
  /\ loop = "running"
  /\ events # <<>>
  /\ events' = Tail(events)
  /\ LET f == Head(events).name
     IN  \/ /\ Relevant(Head(events))
            /\ ArmTimer(f, StopTimer(f))
         \/ /\ ~Relevant(Head(events))
            /\ UNCHANGED <<debounceTimers, armed, state, file>>
  /\ UNCHANGED <<fsVars, overflow, loop, closed, callbacks, left, called>>

-----------------------------------------------------------------------------
(* A timer and the function it runs.                                       *)

Turn(t, from, to) ==
  /\ state[t] = from
  /\ state' = [state EXCEPT ![t] = to]
  /\ UNCHANGED <<fsVars, events, overflow, loop, closed, callbacks, armed, file>>

Fire(t) ==
  /\ Turn(t, "armed", "fired")
  /\ UNCHANGED <<debounceTimers, left, called>>

(* Mutant of ForgetTimer: the entry stays.                                 *)
ForgetNothing(t) ==
  /\ Turn(t, "fired", "notify")
  /\ UNCHANGED <<debounceTimers, left, called>>

(* The timer removes its entry, unless a later one has replaced it.        *)
ForgetTimer(t) ==
  /\ Turn(t, "fired", "notify")
  /\ debounceTimers' = [f \in Files |->
                          IF f = file[t] /\ debounceTimers[f] = t
                          THEN Nil ELSE debounceTimers[f]]
  /\ UNCHANGED <<left, called>>

(* Mutant of NotifyCallbacks: the copy is made with length 0.              *)
NotifyNobody(t) ==
  /\ Turn(t, "notify", "done")
  /\ UNCHANGED <<debounceTimers, left, called>>

(* notifyCallbacks copies the list under fw.mu ...                         *)
NotifyCallbacks(t) ==
  /\ Turn(t, "notify", IF callbacks = <<>> THEN "done" ELSE "calling")
  /\ left' = [left EXCEPT ![t] = callbacks]
  /\ UNCHANGED <<debounceTimers, called>>

(* ... and calls one after the other.                                      *)
Call(t) ==
  /\ left[t] # <<>>
  /\ Turn(t, "calling", IF Tail(left[t]) = <<>> THEN "done" ELSE "calling")
  /\ left' = [left EXCEPT ![t] = Tail(@)]
  /\ called' = [called EXCEPT ![Head(left[t])][file[t]] = content[file[t]]]
  /\ UNCHANGED debounceTimers

Step(t) == Fire(t) \/ ForgetTimer(t) \/ NotifyCallbacks(t) \/ Call(t)

Next ==
  \/ \E f \in Files : Write(f) \/ Touch(f) \/ Add(f)
  \/ \E cb \in Callbacks : OnChange(cb)
  \/ Start \/ Stop \/ LoopEnds \/ HandleError \/ HandleEvent
  \/ \E t \in Timers : Step(t)

Spec == Init /\ [][Next]_vars

(* The loop runs once it was started, timers fire and their goroutines     *)
(* run.  Nobody has to write, to add a file or to stop the watcher.        *)
Fairness ==
  /\ WF_vars(HandleEvent)
  /\ \A t \in Timers : WF_vars(Step(t))

FairSpec == Spec /\ Fairness

-----------------------------------------------------------------------------
(* At most one timer of a file is armed, the one in the map: however the   *)
(* loop and the timers' functions interleave, a burst is not reported once *)
(* per write, and no timer runs that a later write could not stop (Start). *)
OneArmedPerFile ==
  \A t \in Timers : state[t] = "armed" => debounceTimers[file[t]] = t

(* Every entry is that file's timer, and its function has not passed its   *)
(* own clean-up yet: a timer that has run its course leaves no entry, and  *)
(* removes none that a later one has put there (AfterFunc's function).     *)
MapIsClean ==
  \A f \in Files : debounceTimers[f] # Nil =>
    /\ file[debounceTimers[f]] = f
    /\ state[debounceTimers[f]] \in {"armed", "fired"}

Registered(cb) == \E i \in 1 .. Len(callbacks) : callbacks[i] = cb

(* The news of f are on their way to cb: still an event, or with a timer   *)
(* whose function has not called cb yet.                                   *)
Underway(f, cb) ==
  \/ \E i \in 1 .. Len(events) : events[i] = [name |-> f, write |-> TRUE]
  \/ \E t \in Timers :
       /\ file[t] = f
       /\ \/ state[t] \in {"armed", "fired", "notify"}
          \/ state[t] = "calling" /\ \E i \in 1 .. Len(left[t]) : left[t][i] = cb

(* The latest write to a file is never dropped between fsnotify and a      *)
(* callback: until the callback was called for it, it is on its way, even  *)
(* when it arrives while the timer of an earlier write is firing.          *)
NoLostWrite ==
  \A f \in Followed, cb \in Callbacks :
    Registered(cb) /\ ~lost[f] /\ called[cb][f] # content[f] => Underway(f, cb)

(* Every callback is called for every write that fsnotify reported, or for *)
(* a later one, unless the watcher is stopped or a later write is lost.    *)
WriteNotified ==
  \A f \in Followed, cb \in Callbacks, n \in 1 .. MaxWrites :
    content[f] = n /\ ~lost[f] /\ Registered(cb) /\ loop = "running"
      ~> called[cb][f] >= n \/ lost[f] \/ closed
=============================================================================
