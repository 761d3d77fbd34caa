-------------------------------- MODULE Agent --------------------------------
(***************************************************************************)
(* main.go: the file watcher, the flight manager and the hub, put together *)
(* as main does it, from a save by the game to a message at a client.      *)
(*                                                                         *)
(* main passes HandleFileChange to the watcher, so the goroutine of every  *)
(* timer that fires goes on as a handler of the flight manager; and passes *)
(* the hub to the flight manager, so the handler of every correlation goes *)
(* on as a producer.  Each of the three modules is instantiated here, and  *)
(* what it assumes of the others is defined by their state:                *)
(*   - the calls the flight manager is owed (notify) are the events and    *)
(*     timers of the watcher that have not come to a call yet;             *)
(*   - the hub's blocked producers are the handlers at their send.         *)
(*                                                                         *)
(* The position ticker, the other producer, and the end of the process are *)
(* left out, and so are events that are not writes to one of the files.    *)
(***************************************************************************)
EXTENDS Naturals, Sequences, FiniteSets

CONSTANTS Plans, NoPlan, NoFlight, Nil, Conns, MaxWrites, QueueSize

Kinds == {"ini", "briefing"}
Timers == 1 .. MaxWrites

ASSUME WritesAssumption == MaxWrites \in Nat
ASSUME QueueAssumption == QueueSize \in Nat
ASSUME NilAssumption == Nil \notin Timers /\ Nil \notin Kinds

VARIABLES
  main,             \* what main does next: a file to add, or a step by name
  \* the watcher
  content, writes, watched, events, overflow, loop, closed, callbacks,
  debounceTimers, armed, state, file, left, called, lost,
  \* the flight manager; its handlers are the timers' goroutines
  disk, hasIni, iniContent, hasBriefing, briefingContent, currentFlight,
  pc, kind, text, correlated, disordered, unreadable,
  \* the hub and its clients
  clients, hub, todo, handler, open, peer, accepted, joined, received,
  \* history
  builtAt           \* the messages the hub had taken when the last flight was built

watcherVars ==
  <<content, writes, watched, events, overflow, loop, closed, callbacks,
    debounceTimers, armed, state, file, left, called, lost>>
flightVars ==
  <<disk, hasIni, iniContent, hasBriefing, briefingContent, currentFlight,
    pc, kind, text, correlated, disordered, unreadable>>
hubVars == <<clients, hub, todo, handler, open, peer, accepted, joined, received>>
vars == <<main, watcherVars, flightVars, hubVars, builtAt>>

-----------------------------------------------------------------------------
Watcher == INSTANCE FileWatcher WITH
  Files <- Kinds, Followed <- Kinds, Callbacks <- {"HandleFileChange"}

(* The writes to k that are on their way to a call of HandleFileChange: in *)
(* fsnotify's queue, or with a timer.                                      *)
Named(queue, k) == {n \in 1 .. Len(queue) : queue[n].name = k}
Waiting(k) ==
  {t \in Timers : file[t] = k /\ state[t] \in {"armed", "fired", "notify", "calling"}}
OwedCalls(k) == Cardinality(Named(events, k)) + Cardinality(Waiting(k))

Flight == INSTANCE FlightManager WITH
  Handlers <- Timers,
  MaxSaves <- MaxWrites,
  clock <- writes,
  notify <- [k \in Kinds |-> OwedCalls(k)],
  unseen <- {k \in Kinds : lost[k]},
  announced <- accepted

ASSUME NoFlightAssumption == NoFlight \notin Flight!Flight

Hub == INSTANCE WebsocketHub WITH
  Producers <- Timers,
  MaxMessages <- MaxWrites,
  sending <- {t \in Timers : pc[t] = "send"},
  sent <- correlated

Init ==
  /\ main = "watcher"
  /\ Watcher!Init
  /\ Flight!Init
  /\ Hub!Init
  /\ builtAt = 0

-----------------------------------------------------------------------------
(* The game saves a file.                                                  *)
Save(k, p) ==
  /\ Watcher!Write(k)
  /\ disk' = [disk EXCEPT ![k] = [at |-> writes + 1, plan |-> p]]
  /\ UNCHANGED <<main, hasIni, iniContent, hasBriefing, briefingContent, currentFlight,
                 pc, kind, text, correlated, disordered, unreadable, hubVars, builtAt>>

(* main: NewFileWatcher with its callback, Add for each file, Start, and   *)
(* then the web server.  A watcher that cannot be created is done without, *)
(* and an Add that fails leaves the file unwatched.                        *)
MainStep ==
  /\ \/ main = "watcher" /\ main' = "ini" /\ Watcher!OnChange("HandleFileChange")
     \/ main = "watcher" /\ main' = "serve" /\ UNCHANGED watcherVars
     \/ main = "ini" /\ main' = "briefing" /\ (Watcher!Add("ini") \/ UNCHANGED watcherVars)
     \/ main = "briefing" /\ main' = "start" /\ (Watcher!Add("briefing") \/ UNCHANGED watcherVars)
     \/ main = "start" /\ main' = "serve" /\ Watcher!Start
  /\ UNCHANGED <<flightVars, hubVars, builtAt>>

WatcherStep ==
  /\ \/ Watcher!HandleEvent \/ Watcher!HandleError
     \/ \E t \in Timers : Watcher!Fire(t) \/ Watcher!ForgetTimer(t) \/ Watcher!NotifyCallbacks(t)
  /\ UNCHANGED <<main, flightVars, hubVars, builtAt>>

(* The goroutine of timer t enters its callback.                           *)
HandleFileChange(t) ==
  /\ Watcher!Call(t)
  /\ pc' = [pc EXCEPT ![t] = "read"]
  /\ kind' = [kind EXCEPT ![t] = file[t]]
  /\ disordered' = (disordered \/ Flight!OutOfTurn(file[t]))
  /\ UNCHANGED <<main, disk, hasIni, iniContent, hasBriefing, briefingContent, currentFlight,
                 text, correlated, unreadable, hubVars, builtAt>>

(* ... and goes through its handler, up to the send.                       *)
HandlerStep(t) ==
  /\ UNCHANGED <<main, watcherVars, hubVars>>
  /\ \/ Flight!ReadFile(t) \/ Flight!ReadFails(t)
     \/ Flight!HandleIniChange(t) \/ Flight!HandleBriefingChange(t)
  /\ builtAt' = IF correlated' = correlated THEN builtAt ELSE accepted

(* Mutant of BroadcastMissionReady: a message is dropped while the hub is  *)
(* busy with another one.                                                  *)
BroadcastIfIdle(t) ==
  /\ UNCHANGED <<main, watcherVars, builtAt>>
  /\ \/ Flight!BroadcastMissionReady(t) /\ Hub!Broadcast(t)
     \/ /\ hub = "write" /\ pc[t] = "send"
        /\ pc' = [pc EXCEPT ![t] = "idle"]
        /\ UNCHANGED <<disk, hasIni, iniContent, hasBriefing, briefingContent, currentFlight,
                       kind, text, correlated, disordered, unreadable, hubVars>>

(* The hub takes the message of a handler that is at its send.             *)
BroadcastMissionReady(t) ==
  /\ UNCHANGED <<main, watcherVars, builtAt>>
  /\ Flight!BroadcastMissionReady(t)
  /\ Hub!Broadcast(t)

(* The hub's other steps.                                                  *)
HubStep(A) ==
  /\ UNCHANGED <<main, watcherVars, flightVars, builtAt>>
  /\ A

(* A client can ask for /ws once the web server is started.                *)
Upgrade(c) == main = "serve" /\ HubStep(Hub!Upgrade(c))
ClientStep(c) == HubStep(Hub!PeerStalls(c) \/ Hub!PeerResumes(c) \/ Hub!PeerLeaves(c))

(* A step of one of the agent's goroutines.                                *)
AgentRuns ==
  \/ MainStep
  \/ WatcherStep
  \/ \E t \in Timers : HandleFileChange(t) \/ HandlerStep(t) \/ BroadcastMissionReady(t)
  \/ \E c \in Conns : \/ HubStep(Hub!Register(c) \/ Hub!ReadFails(c) \/ Hub!Unregister(c))
                      \/ HubStep(Hub!Write(c))
  \/ HubStep(Hub!WriteDone)

Next ==
  \/ Save("ini", NoPlan) \/ \E p \in Plans : Save("briefing", p)
  \/ AgentRuns
  \/ \E c \in Conns : \/ Upgrade(c) \/ ClientStep(c)

Spec == Init /\ [][Next]_vars

(* The agent's goroutines do not for ever pass over what they could do: Go *)
(* runs each of them, and the hub what comes up again and again at its     *)
(* select and its connections.  Each has finitely much to do, so fairness  *)
(* to each of them would give no more.  A client that has stopped reading  *)
(* resumes or goes.                                                        *)
Fairness ==
  /\ SF_vars(AgentRuns)
  /\ \A c \in Conns : WF_vars(HubStep(Hub!StallEnds(c)))

FairSpec == Spec /\ Fairness

-----------------------------------------------------------------------------
(* What FlightManager assumes of its callers is what the watcher does: for *)
(* every write that fsnotify reports it is called once, or once together   *)
(* with a later one that is still to come, and never out of the blue; and  *)
(* what is proved of it there holds in the agent.                          *)
FlightSpec == Flight!Spec

(* And what WebsocketHub assumes of its producers is what the handlers do: *)
(* each of them sends one message at a time, and all of them no more than  *)
(* there were writes; nothing but the hub ends a send.                     *)
HubSpec == Hub!Spec

(* A client that was registered when the flight on offer was built has     *)
(* been sent a message since, unless the message is still with a handler   *)
(* or the hub has not come to this client yet: nobody goes on showing the  *)
(* flight before (HandleFileChange to WriteMessage).                       *)
NoStaleClient ==
  \A c \in clients \ todo :
    currentFlight # NoFlight /\ joined[c] <= builtAt =>
      \/ \E t \in Timers : pc[t] = "send"
      \/ received[c] # <<>> /\ received[c][Len(received[c])] > builtAt

(* A save of the INI after its briefing, with the watcher told of both,    *)
(* brings that flight on offer and a message to every client that is       *)
(* registered, if no later save comes, the handlers take their turns in    *)
(* order, and they can read the files.                                     *)
SaveReachesClients ==
  \A c \in Conns, n \in 2 .. MaxWrites :
    /\ c \in clients
    /\ disk["ini"].at = n /\ disk["briefing"].at \in 1 .. n - 1
    /\ OwedCalls("ini") > 0
    ~> \/ /\ Flight!ServesDisk
          /\ received[c] # <<>> /\ received[c][Len(received[c])] > builtAt
       \/ writes > n \/ c \notin clients
       \/ disordered \/ unreadable # {} \/ \E k \in Kinds : lost[k]
=============================================================================
