------------------------------ MODULE Lifecycle ------------------------------
(***************************************************************************)
(* main.go, sharedmem.go and collab_client.go: from the flags to the end   *)
(* of the process.                                                         *)
(*                                                                         *)
(* main opens the game's shared memory, runs the IMCS client on its own    *)
(* goroutine, starts the position ticker and then the web server, in this  *)
(* order; its deferred calls close the shared memory again while the       *)
(* ticker and the requests of GET /pos still read it.  They share the      *)
(* fields of the SharedMemReader without a lock, so that each access is a  *)
(* step.  What is read is either the own ship or nothing.                  *)
(*                                                                         *)
(* Windows, the IMCS server, the hub and the user's Ctrl-C are external.   *)
(***************************************************************************)
EXTENDS Integers

CONSTANTS
  Requests,      \* concurrent requests of GET /pos
  Freqs,         \* what strconv.Atoi may make of -pos-update-freq
  DefaultFreq,   \* what it makes of the flag's default
  MaxInterrupts  \* bound: how often the user interrupts the agent

ASSUME FreqsAssumption == Freqs \subseteq Int /\ DefaultFreq \in Nat \ {0}
ASSUME BoundsAssumption == MaxInterrupts \in Nat

VARIABLES
  flags,          \* the command line
  posUpdateFreq,  \* cfg.PosUpdateFreq
  pc,             \* where main is
  \* the SharedMemReader
  handle,         \* hMap: "none", "open" or "closed"
  mapped,         \* is the view at fd1Addr mapped?
  ready,
  \* signals
  registered,     \* does NotifyContext receive the interrupts?
  cancelled,      \* is ctx done?
  interrupts,     \* the interrupts so far
  \* the readers beside main
  ticker,         \* where the position ticker's goroutine is
  payload,        \* what the ticker has read
  served,         \* has the web server accepted connections?
  request,        \* where each request of GET /pos is
  \* history
  staleClose,     \* was CloseHandle called for a handle that was closed?
  broadcast,      \* the payloads that the hub has received
  crashed         \* where main was when the process crashed, or "no"

tickerVars == <<ticker, payload, broadcast>>
requestVars == <<served, request>>
readerVars == <<tickerVars, requestVars>>
shmVars == <<handle, mapped, ready, staleClose>>
signalVars == <<registered, cancelled, interrupts>>
configVars == <<flags, posUpdateFreq>>
vars == <<configVars, pc, shmVars, signalVars, readerVars, crashed>>

Starting == {"parseConfig", "open", "notify", "dial"}
InRun == {"select", "write"}
Running == {"startTicker", "listen", "serve"}
Deferred == {"cancel", "unmap", "closeHandle", "clearReady", "return"}
Ended == {"exited", "killed", "crashed"}
Alive == pc \notin Ended

MainType ==
  /\ flags \in [imcs : BOOLEAN, sharedMem : BOOLEAN, posUpdateFreq : Freqs]
  /\ posUpdateFreq \in Int
  /\ pc \in Starting \cup InRun \cup Running \cup Deferred \cup Ended
  /\ flags.imcs \/ pc \notin {"notify", "dial"} \cup InRun
  /\ crashed \in {"no"} \cup Running \cup Deferred
SharedMemType ==
  /\ handle \in {"none", "open", "closed"}
  /\ mapped \in BOOLEAN /\ ready \in BOOLEAN /\ staleClose \in BOOLEAN
SignalType ==
  /\ registered \in BOOLEAN /\ cancelled \in BOOLEAN
  /\ interrupts \in 0 .. MaxInterrupts
ReadersType ==
  /\ ticker \in {"none", "new", "wait", "isReady", "read", "send"}
  /\ payload \in {"none", "ship", "null"}
  /\ broadcast \in SUBSET {"ship", "null"}
  /\ served \in BOOLEAN
  /\ request \in [Requests -> {"idle", "read"}]

TypeOK == MainType /\ SharedMemType /\ SignalType /\ ReadersType

Init ==
  /\ flags \in [imcs : BOOLEAN, sharedMem : BOOLEAN, posUpdateFreq : Freqs]
  /\ posUpdateFreq = 0
  /\ pc = "parseConfig"
  /\ handle = "none"
  /\ mapped = FALSE /\ ready = FALSE
  /\ registered = FALSE /\ cancelled = FALSE
  /\ interrupts = 0
  /\ ticker = "none"
  /\ payload = "none"
  /\ served = FALSE
  /\ request = [r \in Requests |-> "idle"]
  /\ staleClose = FALSE
  /\ broadcast = {}
  /\ crashed = "no"

-----------------------------------------------------------------------------
(* main, up to the web server.                                             *)

(* Mutant of ParsedFreq: the flag is converted after flag.Parse.           *)
GivenFreq == flags.posUpdateFreq

(* The flags' texts are converted before flag.Parse has set them.          *)
ParsedFreq == DefaultFreq

ParseConfig ==
  /\ pc = "parseConfig"
  /\ posUpdateFreq' = ParsedFreq
  /\ pc' = IF flags.sharedMem THEN "open" ELSE "listen"
  /\ UNCHANGED <<flags, shmVars, signalVars, readerVars, crashed>>

(* Mutant of MapFails: ready is set before the view is known to be mapped. *)
MapFailsReady ==
  /\ handle' = "closed"
  /\ ready' = TRUE
  /\ UNCHANGED <<mapped, staleClose>>

(* Open closes the handle, but hMap keeps it.                              *)
MapFails ==
  /\ handle' = "closed"
  /\ UNCHANGED <<mapped, ready, staleClose>>

AfterOpen == IF flags.imcs THEN "notify" ELSE "startTicker"

(* The game may not be running, or its memory not be mappable.  Whatever   *)
(* the outcome, Open is not called again.                                  *)
Open ==
  /\ pc = "open"
  /\ \/ UNCHANGED shmVars
     \/ MapFails
     \/ /\ handle' = "open"
        /\ mapped' = TRUE
        /\ ready' = TRUE
        /\ UNCHANGED staleClose
  /\ pc' = AfterOpen
  /\ UNCHANGED <<configVars, signalVars, readerVars, crashed>>

NotifyContext ==
  /\ pc = "notify"
  /\ registered' = TRUE
  /\ pc' = "dial"
  /\ UNCHANGED <<configVars, shmVars, cancelled, interrupts, readerVars, crashed>>

(* Mutant of DialFails: main calls Run again.                              *)
DialAgain == pc' = "notify"

DialFails == pc' = "startTicker"

(* ctx does not cancel Dial, which ends by itself.                         *)
Dial ==
  /\ pc = "dial"
  /\ \/ pc' = "select"
     \/ DialFails
  /\ UNCHANGED <<configVars, shmVars, signalVars, readerVars, crashed>>

(* Mutant of Disconnect: the loop goes on after the close message.         *)
SayGoodbye ==
  /\ pc = "select"
  /\ cancelled
  /\ pc' = "write"
  /\ UNCHANGED <<configVars, shmVars, signalVars, readerVars, crashed>>

(* <-ctx.Done(): the client sends a close message and Run returns.         *)
Disconnect ==
  /\ pc = "select"
  /\ cancelled
  /\ pc' = "startTicker"
  /\ UNCHANGED <<configVars, shmVars, signalVars, readerVars, crashed>>

(* <-ticker.C: a position is sent, unless it cannot be serialized.  Without*)
(* a position the loop just goes on.                                       *)
ImcsTick ==
  /\ pc = "select"
  /\ ready
  /\ pc' = "write"
  /\ UNCHANGED <<configVars, shmVars, signalVars, readerVars, crashed>>

(* A position that cannot be written ends Run; the connection is closed.   *)
ImcsWrite ==
  /\ pc = "write"
  /\ pc' \in {"select", "startTicker"}
  /\ UNCHANGED <<configVars, shmVars, signalVars, readerVars, crashed>>

StartTicker ==
  /\ pc = "startTicker"
  /\ ticker' = "new"
  /\ pc' = "listen"
  /\ UNCHANGED <<configVars, shmVars, signalVars, payload, broadcast, requestVars, crashed>>

FirstDeferred ==
  IF ~flags.sharedMem THEN "exited" ELSE IF flags.imcs THEN "cancel" ELSE "unmap"

(* ws.Start: the address may be in use.                                    *)
Listen ==
  /\ pc = "listen"
  /\ \/ pc' = "serve" /\ served' = TRUE
     \/ pc' = FirstDeferred /\ UNCHANGED served
  /\ UNCHANGED <<configVars, shmVars, signalVars, tickerVars, request, crashed>>

(* The server ends when its listener fails; its connections stay.          *)
ListenerFails ==
  /\ pc = "serve"
  /\ pc' = FirstDeferred
  /\ UNCHANGED <<configVars, shmVars, signalVars, readerVars, crashed>>

-----------------------------------------------------------------------------
(* main's deferred calls, the last one first.                              *)
Cancel ==
  /\ pc = "cancel"
  /\ registered' = FALSE
  /\ cancelled' = TRUE
  /\ pc' = "unmap"
  /\ UNCHANGED <<configVars, shmVars, interrupts, readerVars, crashed>>

Unmap ==
  /\ pc = "unmap"
  /\ mapped' = FALSE
  /\ pc' = "closeHandle"
  /\ UNCHANGED <<configVars, handle, ready, staleClose, signalVars, readerVars, crashed>>

(* Mutant of CloseHandle: a handle is not closed if the reader is ready.   *)
CloseUnready ==
  /\ pc = "closeHandle"
  /\ handle' = IF handle = "open" /\ ~ready THEN "closed" ELSE handle
  /\ staleClose' = (staleClose \/ handle = "closed")
  /\ pc' = "clearReady"
  /\ UNCHANGED <<configVars, mapped, ready, signalVars, readerVars, crashed>>

CloseHandle ==
  /\ pc = "closeHandle"
  /\ handle' = IF handle = "open" THEN "closed" ELSE handle
  /\ staleClose' = (staleClose \/ handle = "closed")
  /\ pc' = "clearReady"
  /\ UNCHANGED <<configVars, mapped, ready, signalVars, readerVars, crashed>>

ClearReady ==
  /\ pc = "clearReady"
  /\ ready' = FALSE
  /\ pc' = "return"
  /\ UNCHANGED <<configVars, handle, mapped, staleClose, signalVars, readerVars, crashed>>

Return ==
  /\ pc = "return"
  /\ pc' = "exited"
  /\ UNCHANGED <<configVars, shmVars, signalVars, readerVars, crashed>>

-----------------------------------------------------------------------------
(* The goroutine of the position ticker.                                   *)
Crash ==
  /\ pc' = "crashed"
  /\ crashed' = pc
  /\ UNCHANGED <<configVars, shmVars, signalVars, readerVars>>

(* time.NewTicker panics unless the duration is positive.                  *)
NewTicker ==
  /\ Alive /\ ticker = "new"
  /\ \/ posUpdateFreq <= 0 /\ Crash
     \/ /\ posUpdateFreq > 0
        /\ ticker' = "wait"
        /\ UNCHANGED <<configVars, pc, shmVars, signalVars, payload, broadcast, requestVars,
                       crashed>>

(* Mutant of Tick: GetOwnShip's own test is relied upon.                   *)
TickAnyway ==
  /\ Alive /\ ticker = "wait"
  /\ ticker' = "isReady"
  /\ UNCHANGED <<configVars, pc, shmVars, signalVars, payload, broadcast, requestVars,
                 crashed>>

Tick ==
  /\ Alive /\ ticker = "wait"
  /\ ready
  /\ ticker' = "isReady"
  /\ UNCHANGED <<configVars, pc, shmVars, signalVars, payload, broadcast, requestVars,
                 crashed>>

(* GetOwnShip tests ready once more, and main may have cleared it: the     *)
(* payload is then null.  There is no lock, so the test may also use the   *)
(* value that IsReady has read.                                            *)
TestReady ==
  /\ Alive /\ ticker = "isReady"
  /\ \/ ticker' = "read" /\ UNCHANGED payload
     \/ ~ready /\ ticker' = "send" /\ payload' = "null"
  /\ UNCHANGED <<configVars, pc, shmVars, signalVars, broadcast, requestVars, crashed>>

(* The position is read, and serialized unless it is not a number.         *)
ReadShip ==
  /\ Alive /\ ticker = "read"
  /\ \/ ~mapped /\ Crash
     \/ /\ mapped
        /\ \/ ticker' = "send" /\ payload' = "ship"
           \/ ticker' = "wait" /\ UNCHANGED payload
        /\ UNCHANGED <<configVars, pc, shmVars, signalVars, broadcast, requestVars, crashed>>

(* hub.broadcast <- payload.                                               *)
SendPosition ==
  /\ Alive /\ ticker = "send"
  /\ broadcast' = broadcast \cup {payload}
  /\ ticker' = "wait"
  /\ UNCHANGED <<configVars, pc, shmVars, signalVars, payload, requestVars, crashed>>

TickerStep == NewTicker \/ Tick \/ TestReady \/ ReadShip \/ SendPosition

-----------------------------------------------------------------------------
(* GET /pos is there only with the shared memory.  A request that does not *)
(* find it ready is answered with null.                                    *)
GetPos(r) ==
  /\ Alive /\ served /\ flags.sharedMem
  /\ request[r] = "idle"
  /\ ready
  /\ request' = [request EXCEPT ![r] = "read"]
  /\ UNCHANGED <<configVars, pc, shmVars, signalVars, tickerVars, served, crashed>>

AnswerPos(r) ==
  /\ Alive /\ request[r] = "read"
  /\ \/ ~mapped /\ Crash
     \/ /\ mapped
        /\ request' = [request EXCEPT ![r] = "idle"]
        /\ UNCHANGED <<configVars, pc, shmVars, signalVars, tickerVars, served, crashed>>

(* Ctrl-C ends the process, unless NotifyContext has asked for it.  It     *)
(* keeps asking for it after ctx is done.                                  *)
Interrupt ==
  /\ Alive /\ interrupts < MaxInterrupts
  /\ interrupts' = interrupts + 1
  /\ \/ registered /\ cancelled' = TRUE /\ UNCHANGED pc
     \/ ~registered /\ pc' = "killed" /\ UNCHANGED cancelled
  /\ UNCHANGED <<configVars, shmVars, registered, readerVars, crashed>>

MainStep ==
  \/ ParseConfig \/ Open \/ NotifyContext \/ Dial \/ ImcsWrite \/ StartTicker \/ Listen
  \/ Cancel \/ Unmap \/ CloseHandle \/ ClearReady \/ Return

Next ==
  \/ MainStep \/ Disconnect \/ ImcsTick \/ ListenerFails
  \/ TickerStep
  \/ \E r \in Requests : GetPos(r) \/ AnswerPos(r)
  \/ Interrupt

Spec == Init /\ [][Next]_vars

(* main goes on, and the IMCS server reads or lets the connection fail.    *)
(* Go's select chooses at random, so that a ctx that is done is noticed    *)
(* although the ticker is ready again and again.                           *)
Fairness == WF_vars(MainStep) /\ WF_vars(ImcsTick) /\ SF_vars(Disconnect)

FairSpec == Spec /\ Fairness

-----------------------------------------------------------------------------
(* Whatever the flags and whether the memory could be opened or not, the   *)
(* process crashes only if a reader is between GetOwnShip's test and its   *)
(* read while main, at its end, closes the memory: Close unmaps the view   *)
(* before it clears ready (NewTicker, GetOwnShip).                         *)
CrashOnlyInClose == crashed \in {"no", "closeHandle", "clearReady", "return"}

(* No client is sent null for a position, unless Close has just cleared    *)
(* ready between IsReady and GetOwnShip.                                   *)
NullOnlyAfterClose == "null" \in broadcast => pc \in {"return"} \cup Ended

(* main leaves nothing mapped and no handle open, and closes a handle that *)
(* it has closed before only if Open did so, when the mapping failed.      *)
Released ==
  /\ pc = "exited" => handle # "open" /\ ~mapped
  /\ staleClose => ~ready /\ handle = "closed"

(* The inductive invariant: what main has done so far to the shared memory,*)
(* and how far a reader that has passed a test can be behind.              *)
Unopened ==
  pc \in {"parseConfig", "open"} =>
    handle = "none" /\ ~mapped /\ ~ready /\ ~staleClose
NothingToOpen ==
  ~flags.sharedMem =>
    /\ handle = "none" /\ ~mapped /\ ~ready
    /\ pc \in {"parseConfig", "listen", "serve"} \cup Ended
ReadyInTime ==
  /\ ready /\ pc \notin {"closeHandle", "clearReady"} \cup Ended => mapped
  /\ ready /\ pc \notin {"clearReady"} \cup Ended => handle = "open"
Closing ==
  /\ pc \in {"closeHandle", "clearReady", "return", "exited"} => ~mapped
  /\ pc \in {"clearReady", "return", "exited"} => handle # "open"
  /\ pc \in {"return", "exited"} => ~ready
ReadersBehind ==
  /\ ticker = "read" \/ (\E r \in Requests : request[r] = "read") =>
       mapped \/ pc \in {"closeHandle", "clearReady", "return"} \cup Ended
  /\ ticker = "isReady" => ready \/ pc \in {"return"} \cup Ended
  /\ payload = "null" => pc \in {"return"} \cup Ended
  /\ ticker = "send" => payload # "none"
TickerSet ==
  /\ pc \notin {"parseConfig"} \cup Ended => posUpdateFreq = DefaultFreq
  /\ ticker # "none" => posUpdateFreq = DefaultFreq /\ pc # "parseConfig"

LifecycleInv ==
  /\ TypeOK
  /\ Unopened /\ NothingToOpen /\ ReadyInTime /\ Closing /\ ReadersBehind /\ TickerSet
  /\ CrashOnlyInClose /\ NullOnlyAfterClose /\ Released

(* An interrupt during an IMCS session ends the session.                   *)
InterruptEndsSession == (pc \in InRun /\ cancelled) ~> pc \notin InRun

(* Only a lasting IMCS session keeps the agent from serving (or ending).   *)
ServesAfterImcs ==
  (pc \in Starting \cup Running) ~> (pc \in {"serve"} \cup InRun \cup Ended)

(* README.md:3: the agent is "a small web server that exposes a couple of  *)
(* local Falcon BMS mission/campaign info".                                *)
ServesMaps == <>(pc = "serve" \/ pc \in Ended)
=============================================================================
