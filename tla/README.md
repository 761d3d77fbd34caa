# A formal model of maps-agent

maps-agent is a small program that runs beside the flight simulator Falcon BMS.
It serves the game's mission and campaign files over HTTP, pushes events to
clients over websockets and can report the own aircraft's position to an IMCS
server.  This directory holds TLA+ modules for its parts, configurations that
check small instances of them with TLC, and proofs, checked by TLAPS, of the
properties that matter most for instances of every size.

Line numbers are those of the repository at the modelled commit.
`PROJECT.json` maps every definition to the lines it stands for.


## 1. The system

### Components, their state and their operations

| component | source | state | operations |
|---|---|---|---|
| flight manager | `flight_manager.go` | which of `<callsign>.ini` and `briefing.txt` it has, their texts, the current flight; all under `mu` | `HandleFileChange` (INI or briefing), `GetCurrentFlight`, `BroadcastMissionReady` |
| websocket hub | `websocket_hub.go`, `/ws` in `webserver.go` | the map of clients, touched by the hub's goroutine only | register, unregister, broadcast; one read loop per client |
| file watcher | `file_watcher.go` | one debounce timer per file under `mu`, the list of callbacks | `Add`, `OnChange`, `Start`, `Stop`, the event loop, the timers' functions |
| start-up and shutdown | `main.go`, `config.go` | flags, main's position, the signal registration | the order in which everything is started and closed |
| shared memory reader | `sharedmem.go` | handle, mapped view, `ready`; no lock | `Open`, `Close`, `IsReady`, `GetOwnShip` |
| position ticker, IMCS client | `main.go` 79-96, `collab_client.go` | - | read a position, send it |
| mission manager | `camtac/mission_manager.go` | class table, readers, the mission that was loaded; no lock | `GetMissionFiles`, `ReadMission`, `GetObjectivesByTypes`, `OutputJson` |
| file formats | `camtac/*_reader.go`, `types.go`, `cursor.go` | a cursor over bytes | read a bundle, units, objectives, deltas, a campaign |
| bundle writer | `camtac/bundle_writer.go` | a list of files | write a bundle; nothing in the program calls it |
| LZSS codec | `camtac/lzss.go` | window, binary tree, output buffer | `Compress`, `Expand` |
| the rest | types, constants, the class table's XML, the logger, the game's C headers | - | data layouts and formatting |

### How they interact

    game --writes--> file system --fsnotify--> file watcher --goroutine per
    change--> flight manager --hub.broadcast--> hub --WriteMessage--> clients
                    ^ GET /flight                ^
                    web server                   position ticker --reads--> shared memory
    main: GetMissionFiles, ReadMission, then Open, IMCS session, ticker, web server

- The watcher calls the flight manager on the goroutine of each timer: handlers
  of two changes run concurrently, and nothing orders them.
- The hub's channels are unbuffered.  A flight manager's handler and the ticker
  are blocked until the hub is back at its `select`.
- `main` runs the IMCS session on its own goroutine before it starts anything
  else, and closes the shared memory at its end without stopping the readers.
- Every request of `GET /missionfiles` uses the one mission manager, and the
  game saves into the directory that is being listed.

### What is hard, and what makes each part correct

- **Flight manager.** Reads happen before the lock is taken and announcements
  after it is released.  Correct means: the flight on offer is built of exactly
  the two texts taken over last; every correlation is announced once; a flight
  is withdrawn only for another mission; handlers that run in order end up with
  what is on disk.
- **Hub.** Clients fail, leave, stall and join around the loop of a broadcast.
  Correct means: no gap and no repetition in what a client receives, no write to
  a closed connection, nothing leaks, and nobody is blocked forever.
- **Watcher.** `timer.Stop()` does not stop a timer that has fired.  Correct
  means: one armed timer per file, an empty map at rest, and no reported write
  lost, also one that arrives while the timer of an earlier write is firing.
- **Start-up, shutdown.** Order of deferred calls, readers without a lock.
  Correct means: nothing but the very end of `main` can crash a reader,
  everything is released, and an IMCS session can be ended.
- **Mission files.** Listing while the game saves; errors, panics and `log.Fatal`
  on the goroutine of a request.  Correct means: a broken file hides no other
  one, and no request can end the agent once the class table is loaded.
- **Mission contents.** Some 30 records of different kinds without separators,
  with optional parts and counts; signed counts; classes that are looked up by a
  number in the file.  Correct means: every reader ends where the next record
  begins; every objective carries the last delta of its id; the exported tree
  holds every objective once.
- **The agent as a whole.** Three goroutine-per-event components in a row.
  Correct means: what each assumes of the others is what they do, and a save by
  the game arrives at every client.
- **LZSS.** A binary tree in an array whose node 0 doubles as "none", a window
  that wraps, pairs that overlap themselves, inputs that are cut short.  Correct
  means: what is compressed is expanded to the same symbols, and no index leaves
  its array whatever is read.


## 2. The modules

| module | models | checked by | proved in |
|---|---|---|---|
| `MissionState` | abstract: the mission's phases and the announcements owed | refined by `FlightManager` | |
| `FlightManager` | `flight_manager.go` | `flight`, `flight_ready`, `flight_lost` | `FlightManagerProofs` |
| `WebsocketHub` | `websocket_hub.go`, `/ws` | `hub` | `WebsocketHubProofs` |
| `FileWatcher` | `file_watcher.go` | `watcher` | `FileWatcherProofs` |
| `Agent` | `main.go` 46-60, and the three above as instances | `agent` | `AgentProofs` |
| `Lifecycle` | `main.go`, `config.go`, `sharedmem.go`, `collab_client.go` | `lifecycle`, `lifecycle_serves` | `LifecycleProofs` |
| `MissionFiles` | `mission_manager.go`: the listing, and the loading at start-up | `mission_files` | `MissionManagerProofs` |
| `MissionTypes` | `types.go`: the structs and how long they are | `read_mission` | `MissionManagerProofs` |
| `MissionReaders` | the read functions: how far each moves the cursor | `read_mission` | `MissionManagerProofs` |
| `ReadMission` | `mission_manager.go` 43-89, 240-257, 296-323, and the readers' loops | `read_mission` | `MissionManagerProofs` |
| `LzssCompress` | `lzss.go`: window, tree, literals and pairs | `lzss_compress` | `LzssCompressProofs` |
| `LzssStream` | `lzss.go`: packing into bytes, `Expand` | `lzss_stream` | `LzssStreamProofs` |

`MC<module>` adds what a run needs: symmetry sets and the values of CONSTANTS.
Definitions whose comment begins with "Mutant of" are plausible bugs of the
definition they stand before.  No specification uses them; `PROJECT.json` names,
for each property, the one that breaks it.

### FlightManager

The fields of the Go struct are the variables `hasIni`, `iniContent`,
`hasBriefing`, `briefingContent`, `currentFlight`.  A handler is a goroutine
inside `HandleFileChange`: `pc` says whether it is about to read the file,
about to lock, or blocked in `hub.broadcast <- data`.  What stands between
`Lock` and `Unlock` is one step: all accesses to the fields are under `mu`.
`os.ReadFile` is a step of its own before it and may fail; the announcement is
one after it.

A text is the time of its save and, for a briefing, its plan.
`isBriefingEqual` ignores line 2, the timestamp; so equal plans are equal
briefings.  A file that is read while the game still writes it is one more text,
which a later save replaces.  `SetCurrentFlight`, which only a test uses, is left
out, and so are the returns of `BroadcastMissionReady` for a missing hub and for
an event that cannot be serialized, neither of which can occur.

`HandleFileChange` stands for a timer of the watcher that has fired and whose
goroutine calls the flight manager.  `notify` counts the calls that are owed for
each file.  A save adds one, or none if the watcher is not told of it (`unseen`:
the file is not watched, or fsnotify lost the event); `Coalesce` takes one away
as long as another remains, since the watcher stops a timer that has not fired
when the next write arrives.  That the watcher does no more and no less than
this is what `Agent` checks.

### WebsocketHub

`handler` is the goroutine of `/ws`: at `hub.register <- conn`, in its read loop,
at the deferred `hub.unregister <- conn`, or done.  A send on an unbuffered
channel and its receive are one step.  A broadcast is one step per
`WriteMessage`, in any order, since Go's order of iteration is any.  A client
(`peer`) reads, stalls, or goes; a write to a stalled client blocks, because no
write deadline is set.  A failed upgrade leaves no trace and is no step.

### FileWatcher

One loop, and one function per timer that runs on its own goroutine: it removes
its entry from `debounceTimers` if that is still its own, copies the callbacks
and calls one after the other.  A timer is a number; timers are armed in order.
How long the debounce lasts is left out: an armed timer fires at any time.
Hence the model does not show that a file that is written to without end is
never reported, which is the case.  fsnotify is a bounded queue that loses what
it has no room for and then reports an error.

### Agent

`Agent` has the variables of the watcher, the flight manager and the hub, each
once, and instantiates the three modules over them:

| module | what it left open | in `Agent` |
|---|---|---|
| `FileWatcher` | the callbacks | the one callback `HandleFileChange`; a timer's `Call` is the start of a handler |
| `FlightManager` | `Handlers` | the timers: a handler runs on the goroutine of its timer |
| | `clock`, `disk` | `writes` of the watcher: a save is a write |
| | `notify`, `unseen` | `OwedCalls`: the events in fsnotify's queue and the timers that have not called yet; `lost` |
| | `announced` | `accepted`: the hub's receive is the announcement |
| `WebsocketHub` | `sending` | the handlers at `hub.broadcast <- data` |

An action of one module that has an effect in another is one action here:
`Save` is the watcher's `Write` and the game's change of the file;
`HandleFileChange` is the watcher's `Call` and the handler's start;
`BroadcastMissionReady` is the handler's send and the hub's receive.  `main`
registers the callback, adds the two files and starts the loop one after the
other, beside a game that may already be saving; the watcher may not come into
being and each `Add` may fail, which `main` goes on after.  `FlightSpec` and
`HubSpec` are the `Spec`s of `FlightManager` and `WebsocketHub` under that
substitution, and `Watcher!Spec` that of `FileWatcher`: the agent refines each of
the three, so what is proved of one alone holds in it (section 4).

A handler runs to its end on its timer's goroutine.  Therefore nothing stops
two handlers of one file from running at the same time, and `FlightLost`'s
counterexample needs no more than the agent has.

### Lifecycle

`pc` walks through `main`, with the deferred calls as steps of their own.  The
shared memory reader has no lock, so each test of `ready` and each read of the
view is a step, and `GetOwnShip` may use the value that `IsReady` has read.  A
position is "ship" or "null": that the game writes the position while it is read
is left out.  `mission_manager.go`'s part of start-up is in `MissionFiles`.

Three observations the model made precise, which the runs show or use:

- `-fs-check-freq` and `-pos-update-freq` have no effect: `config.go` converts
  them (41-42) before `flag.Parse` (44).  `ParsedFreq` is therefore the default.
- `signal.NotifyContext` stays registered until `main` returns.  After the IMCS
  session has ended, Ctrl-C no longer ends the agent (`Interrupt`).
- A mapping that fails closes the handle and keeps it (`sharedmem.go` 110), so
  that `Close` closes it again (`staleClose`).

### MissionFiles

A file is what its readers make of it: whole, broken (a reader returns an
error), short (a cursor runs over its end and panics) or vast, and the number of its
save.  The listing is one step per test and load of the class table, per bundle
that is read and parsed, and per `os.Stat`.  A panic ends `main`, but only the
request on a request's goroutine, because `gin.Default` installs the recovery;
`log.Fatal` ends the agent on either.  A vast file is one that makes its readers ask
for more memory than there is: `bundle_reader.go` 65 makes a slice of as many entries
as the file says, up to 2^32, and `lzss.go` 303 one of as many bytes as the campaign's
header says, and neither number is compared with the file's own size.  Running out of
memory is not a panic, so no recovery catches it and the agent ends on any goroutine;
that is the one way in which a request can end the agent once the class table is
loaded (`LateKillsAreVast`).  If there is enough memory after all, such a file is a
broken one, for its directory or its data end too early.  The content that the readers
make of a whole file is in `ReadMission`.

### MissionTypes, MissionReaders and ReadMission

`MissionTypes` translates the structs, `MissionReaders` the functions that read
them; both come down to numbers of bytes, from two independent parts of the code:
the widths of a struct's fields, and the calls of the cursor one after the other.
A record is what both depend on: counts, the bits of a waypoint's `Haves`, the
request flag and the wait cycles of a package.

`ReadMission` goes through the four parts record by record.  What a record holds
is chosen when it is read, so every content of the bounded sets is covered, and
so is an end in the middle of any of them.  Where the cursor stands is
abstracted to `aligned`: whether the next record begins there.  Once a reader has
missed the beginning of a record, whatever follows may be read.  `whole` remembers what
the part held, not how its reading went: that no byte was missing and that every class
was one of the class table's file (`KnownUnit`, `KnownObjective`, which look at the file
and not at the table made of it).  Counts are
`Int16` of the two bytes in the header.  The loops of `applyDeltas` and
`buildObjectiveTree` are one step per turn; a map is a function from the ids to
places in a list, 0 for "no entry", and the tree is a list of children per id and
the list of roots, since `nodes` holds one node per id.  The values of an
objective are named by the delta that they come from.

Four observations:

- A unit of an unknown class is skipped by its first two bytes, not as a whole
  (`SkipUnit`, `ReadNothing`): whatever follows is read from its middle.
- `applyDeltas` writes the owner into `FirstOwner` (line 250), while
  `minimizeObjective` (`webserver.go`) serves `CampaignBase.Owner`: a client of the
  REST endpoint sees the owner from before the delta.
- The class of an objective is looked up without a test of the bounds
  (`obj_reader.go` 48): a class below 100 or above the table ends the agent at
  start-up though no byte is missing.  `WholePartsRead` says that classes which are
  not in the table, and missing bytes, are the only causes of a panic.
- Of two objectives of one id, the later one's node stands for both.  It is
  listed twice, and if one of the two names it as its parent it is below itself:
  the JSON encoder refuses the whole tree and `OutputJson` logs that.
  `ExportIsForest` therefore asks for distinct ids.

### LzssCompress and LzssStream

`LzssCompress` is `Compress` without its output buffer: the window, the tree and
the choice of literals and pairs.  The input is chosen while it is read, so every
input is covered, of any length as long as the tree is sound and for
`MaxSinceDamage` more symbols once it is damaged (see "Node 0" below).  Beside it
`expanded` is the window of an `Expand` that is fed the output so far.

`LzssStream` is the output buffer and `Expand`: literals and pairs come in any
order, the compressed bytes may be cut anywhere, and the size asked for may be
wrong.  `Expansion` is the reference definition: what the items stand for, with
no window and no bytes.

Two facts about the code that the modelling brought up:

- **Node 0.**  The tree uses node 0 for "none", but `contractNode` sets the
  parent of the node it puts in place, also when that is "none" (line 51).  Once
  per turn of the window `deleteString(0)` then believes that position 0 is in
  the tree (line 92) and changes the node that this stale parent names.  The
  model marks the first time this changes a node of the tree (`damaged`) and goes
  on like the code: `TreeIsSearchTree` and `LongestMatch` are about a tree that is
  not damaged, `RoundTrip` about both.  In a damaged tree the code may do two things
  that it never does in a sound one:
  - It may not return: the larger children may go round in a circle, which
    `findNextNode` never leaves (`DeleteReturns` is false, and the model has no
    step), and so may the path that `addString` takes (the model takes it for
    ever).  For a window of eight and look-ahead 3, TLC finds this input of 30 symbols:
    `1 0 1 0 1 1 1 0 1 0 1 0 1 1 0 0 1 0 1 0 1 0 0 1 1 1 1 1 1 1`.
  - It may put out a pair for a string of the look-ahead, which `Expand` does not
    have yet (`strayed`).  For a window of eight and look-ahead 4 this input expands
    to a 0 in place of the 22nd symbol:
    `1 0 1 0 1 1 1 0 1 1 0 1 0 1 0 0 1 1 1 1 1 1 1 1`.

  `RoundTrip` says that nothing else goes wrong: without a stray pair what is put out
  expands to the input, whatever has become of the tree, and a sound tree offers no
  stray pair.  For the window of 4096 no input of either kind is known; random inputs
  damaged the tree, but all of them expanded to themselves again.  No function of the
  program calls `Compress`.
- **The last pair.**  A pair that is longer than what remains of the requested
  size is not copied at all: `remaining` is set to 0 before the length is taken
  from it (line 356).  The output then keeps zeroes at its end, without an
  error.  With the size that belongs to the data this does not happen
  (`WholeExpanded`).


## 3. The runs

| run | instance | shows |
|---|---|---|
| `flight` | 3 handlers, 4 saves, 2 plans | the flight is coherent and announced once per correlation; serial handlers end up serving the disk; the mission state machine is implemented, its liveness included |
| `flight_ready` | 2 handlers, 3 saves | **violated:** a client is told "ready" while there is no flight |
| `flight_lost` | 2 handlers, 3 saves | **violated:** a briefing and then an INI are saved, and no flight is left |
| `hub` | 2 clients, 2 producers, 3 messages | no leak, no gap, no closed client in the map; producers are served, clients that are gone are freed |
| `watcher` | 2 files (1 followed), 3 writes, 1 callback | one armed timer per file, a clean map, no lost write; every reported write, or a later one, reaches the callback |
| `agent` | 2 files, 1 plan, 3 saves, 1 client | the three together implement the flight manager's and the hub's specifications; no client is left with an old flight; a save of briefing and INI reaches the client |
| `lifecycle` | 2 requests, frequencies 0 and 250, 2 interrupts | crashes and nulls only in `Close`, all released; the IMCS session ends when interrupted and the web server follows |
| `lifecycle_serves` | 1 request, no interrupt | **violated:** with an IMCS session that lasts, the web server is never started |
| `mission_files` | 2 requests and main, 3 files (1 excluded), 2 changes | no whole file is hidden, dates are not older than contents, late requests end the agent by exhausting the memory only |
| `read_mission` | 2 deltas, a campaign, 2 units, 3 objectives, 4 ids; counts of 32768 and more | readers go from record to record, the last delta is applied, the export is a forest |
| `lzss_compress` | window 7, look-ahead 3, 2 symbols, inputs of any length up to 30 symbols past the damage | round trip, search tree, longest match |
| `lzss_stream` | bytes of 2 bits, 2 flags per byte, 4 items | no buffer overruns, output is a prefix, all of it if nothing was cut |

The three violated properties state what a comment, a test or the README says
of the program; `PROJECT.json` quotes them under "findings".  In short:

- `flight_ready`: the handler of an INI builds the flight and unlocks; a handler
  of a new briefing withdraws the flight; only then the hub takes the first
  handler's event.
- `flight_lost`: the handler of a new mission's briefing starts first but runs
  last, and clears the INI that was saved after that briefing.
- `lifecycle_serves`: `client.Run` is called and not started as a goroutine.

### Bounds, and why they are enough

- `MaxSaves` = 4 with two plans allows a first correlation, its replacement by
  another plan, that plan's INI and a repetition.  Three handlers can be one in
  each of the stages read, lock and send.
- `MaxMessages` = 3 and two clients: one client can fail during a broadcast
  while the other stalls or joins, and messages follow it.  The four safety
  properties are proved for any number.
- `MaxWrites` = 3: a timer that fires, one that replaces it and one that follows;
  `QueueSize` = 2, so that a third event is lost.  One file is enough: no step of
  one file's timers touches another's, the four safety properties are proved for
  any number, and two files meet in the run `agent`.  Timers are numbered up to
  `MaxWrites`; each stands for a write, so that bound is never met before the
  writes' own.
- `MaxInterrupts` = 2: an interrupt that ends the session and one after it.
- `MaxChanges` = 2: a file changes between its reading and its `Stat` and again,
  or two files change.  The directory starts out with any of its files.
- The window of 7 has look-ahead 3 and pairs of two lengths.  It wraps, and
  replacement, contraction, deletion of nodes with two children and the damage of
  node 0 all occur.  `MaxSinceDamage` = 30 lets a damaged tree live for four turns of
  the window, in which circles arise; while the tree is sound the input has no bound.
  The four properties are proved for any window and any `MaxSinceDamage`.
- In `agent`, three saves are a briefing, its INI, and either of them once more: a
  flight is built, and built again while the message of the one before may still
  be on its way.  One plan is enough, since the watcher and the hub see names and
  messages only; briefings that differ are in `flight`, and `FlightSpec` and
  `NoStaleClient` are proved for any plans.
- In `read_mission`, every kind of unit, the classes below, at, between and above
  the table's bounds, optional parts that are there and not, and counts of 0 and
  more are among the records.  Three objectives allow a chain, a circle of two and
  of three, and a circle with one that hangs below it.
- `MaxItems` = 4 with two flags per byte: groups that are complete, incomplete
  and just complete at the end, and items at both places of a group.  With bytes
  of four values a pair's position still needs both of its bytes.  All five
  properties are proved for any sizes.

### Fairness

Fairness is assumed of goroutines that can run (weak: Go's scheduler is
preemptive) and of timers that are armed.  `select` in Go chooses at random
among the cases that are ready, so a case that is ready again and again is not
passed over forever: strong fairness for the hub's receives and for `ctx.Done()`
in the IMCS client.  Blocked writes go on when the peer reads (strong, since a
client may read and stall alternately).

`Agent` states the same in one condition, since each of its goroutines has only
finitely much to do: the agent as a whole does not for ever pass over what it
could do (`SF_vars(AgentRuns)`).

Two assumptions are about others than this code.  `StallsEnd`: a client that
stopped reading reads again or goes; a client that reads need not ever go.
Without it, one client that stalls forever blocks the hub and every producer,
since no write deadline is set.
`WF(MainStep)` includes the IMCS client's write: the IMCS server reads, or its
connection fails.  Nobody has to save a file, write, register, interrupt or
disconnect.


## 4. The proofs

TLAPS checks every theorem from the modules' named assumptions on their
constants, for any number of handlers, clients, messages, files, writes and
requests, and any contents of a mission.

- **FlightManagerProofs.**  `TypeOK`, `FlightCoherent` and
  `WithdrawnOnlyForNewPlan` need no more than types and coherence together: the
  fields are touched only in the locked section.  `AnnouncedOnce` counts the
  handlers blocked in their announcement; a step adds to or takes from that
  finite set at most one.  `SerialHandlingCorrelates` needs the longest
  invariant, `SerialInv`: as long as no handler overlapped or overtook another,
  at most one is under way (`OneAtATime`), a file with no notification and no
  handler has been taken over as it is on disk (`BriefingKnown`, `IniKnown`),
  and what was read is either current or notified again (`ReadsAreFresh`,
  `InOrder`).  `ImplementsMission` is the refinement: `FlightManager`'s `Spec`
  implements `MissionState`'s, each locked section mapping to `IniAdopted`,
  `FirstBriefing`, `NewBriefing` or a stutter.
- **WebsocketHubProofs.**  `HubInv` adds to the types that the hub has nothing to
  write at its select (`SelectIdle`) and that a connection is open from its
  upgrade until it is dropped or unregistered (`OpenUntilDropped`).  The order of
  delivery needs that a connection has received nothing before it is registered
  (`NothingReceived`), received consecutive numbers (`InSequence`) and, while it
  is a client, all but the one being written (`UpToDate`).
- **FileWatcherProofs.**  `WatcherInv`: timers above `armed` are unused
  (`ArmedSoFar`), so that a new timer is never one of those in the map.
  `NoLostWrite` then follows action by action: each step hands the news of a
  write on from the queue to a timer, from a stopped timer to the one that
  replaces it, and from a fired timer to the list it still has to call.
- **LifecycleProofs.**  `LifecycleInv` says what `main` has done to the shared
  memory at each of its steps (`Unopened`, `ReadyInTime`, `Closing`) and how far
  a reader can be behind it (`ReadersBehind`); the three safety properties are
  among its conjuncts.
- **LzssCompressProofs.**  `TypeOK`, `RoundTrip`, `TreeIsSearchTree` and
  `LongestMatch`, for any window, look-ahead and alphabet.  `Shaped` says which
  sets of nodes are below each node, as a function `B` that exists whenever the
  tree is sound; contracting, replacing, adding and deleting a node are each
  described once, by what they make of `B`.  `Ordered` puts the strings of those
  sets in order.  While a string is looking for its place, `OnPath` says that it
  belongs below the node that is tested and that no string elsewhere would be a
  longer match: the step that skips half of the tree is the one where an error
  would hide.  `Represented` says that a string that left the tree did so for an
  equal, younger one, which is why `FoundLongest` holds of the whole window and
  not only of the tree.  `Agree` compares the two windows outside of what is still
  to be replaced, and `Matched` says that a match lies outside of the
  look-ahead, so that copying it symbol by symbol reads what was written.  The
  invariant has two parts: what holds of any tree, damaged or not (types, counters,
  `Agree` until a pair strays), and `SoundTree`, which ends with the damage and from
  which it follows that until then no pair strays.
- **LzssStreamProofs.**  For any number of flags per byte, any sizes, items and
  cuts.  `StreamInv` has the types of the indices and gives `BufferFits` and
  `OutputFits`.  For `PrefixExpanded` and `WholeExpanded` the two sides are joined
  by a layout, of which `CodecInv` says that it exists: the group, bit and start
  of every item in the compressed bytes.  `Packing` says that each item is held
  at its place, by the bytes that are put out and those in the buffer
  together; `Packed`, once it is all put out, that nothing follows the last one.
  `Decoded` says that `Expand` has written what the first `k` items stand
  for, and that its window holds the latest of that at each position; `Parsed`,
  that the next item starts where `Expand` is about to read.  `Ended` records
  why it stopped.  The lemmas below it: a mask is an even multiple of every smaller
  one, so a flag that was added to the byte is the bit that is tested; two bytes
  hold a pair; a copy within the window, read and written in turn, repeats itself
  just as `Extended` does.
- **MissionManagerProofs.**  Of `MissionFiles`: `FilesTypeOK`, `DateNotOlder` and
  `NothingHidden` from `ListingInv`.  A file that nobody touched is either still
  to be read, once, and not in the result, or in the result once and not to be
  read again (`Accounted`); what was read of it is its save unless somebody touched
  it (`ReadIsCurrent`).  `LateKillsAreVast` from `TableInv`.  While the class
  table is missing, every request under way is an early one, and so is every
  request at `log.Fatal`'s door afterwards (`LoadersAreEarly`); the agent dies of it
  at once, before the request could be repeated as a late one, and so do the files stay
  as they were when one of them exhausted the memory (`KillerKilled`).

  Of `ReadMission`: `LastDeltaApplied` from `DeltaInv`: at each turn the map holds
  the last of the deltas so far, and the objectives so far carry what the full map
  says.  `ExportIsForest` from `TreeInv`: each of the objectives so far is in the
  list of its parent, or among the roots, in one place.  From that
  `ForestOfPlaced` follows: the ids that are not in the export are each below one
  that is not in it either, and a set of ids in which everyone's parent is again in
  the set is a circle; conversely the ids outside of a circle's set are closed
  under going down from the roots.

  `WholePartsRead` from `ReadInv`: as long as nothing is cut off and all classes are
  known, the cursor stands where a record begins and there is one record listed for each
  turn.  That nothing panics needs the class table to be what its file says: it reaches
  to the highest number (`MaxNumIsHighest`), and the last class of a number is the one
  that is found (`LastCounts`).  It rests on
  a lemma for the readers of each kind of record (`ObjectiveRead`, `DeltaRead`,
  `UnitKindsRead`, `CampaignRead`): they go as far as the struct is long, for any
  counts, waypoints, texts and flags that a record may have.  The length of a
  struct is a sum over its fields in no order: `SumIs` shows that it does not
  matter which is added last, and `EndToEnd` that fields with an order in which
  each begins where the one before ends have the end of the last as their sum; a
  `...Size` lemma gives those ends for each struct.  A list of records adds up by `ListSums`.  That records have
  natural numbers for their counts is `RecordsAssumption`, that the class table's file
  is a list of records numbered from 0 is `ClassesAssumption`; that a header holds two
  bytes is `CountsAssumption`, and is what makes a count of 32768 or more negative.

- **AgentProofs.**  `AgentImplementsFlight` is the second refinement: what
  `FlightManager` assumes of its callers is what the watcher does.  `AgentInv`
  says how far `main` has got when a timer runs (`StartInv`: the loop starts after
  the callback was registered, so no timer finds an empty list) and that a timer
  in the map has its file's name, one call to make, and no handler before it
  (`TimerInv`).  The owed calls are a sum of two cardinalities.  A write adds
  one event; an event that is handled turns into a timer, and takes one timer of
  its file away if that has not fired, which is `Coalesce`, possible because the
  event and the timer make two; a call takes its timer away.  `NobodyIsStale`
  joins the hub's delivery (`Delivered`, as in `WebsocketHubProofs`) with
  `Announcing`: the message of the flight on offer is with a handler, or the hub
  has taken one since the flight was built.

  `AgentImplementsHub` and `AgentImplementsWatcher` are the refinements of the
  other two parts.  The hub's module lets its producers send `MaxMessages`
  messages in all; that the agent's handlers stay within that, with the writes
  for a bound, is `CountInv`: a timer's handler, which runs once, builds one
  flight at most, so there are no more flights than timers that were called.
  With the three refinements, what is proved of a part alone is true of the agent:
  `HubHolds`, `WatcherHolds` and `FlightHolds` instantiate the proof modules of
  the parts as `Agent` instantiates the parts.  An instance's theorems hold under
  its assumptions: that the timers are finitely many follows, and that `Nil` is
  neither a timer nor a file, `NoFlight` no flight and `QueueSize` a number are
  assumptions of `Agent` for this.

Recursion over data (a listing, an expansion, a walk down the tree) is written as
recursive functions in the modules that are proved about.  The library's theorems
that would unfold them take operators as parameters, which the provers cannot
instantiate; each such function has a lemma that shows that a function with
its equations exists, by induction on a set (`SetInduction`), and one that then
reads the equations off the definition.

Only model-checked: liveness (`SendersServed`, `GoneClientsFreed`,
`WriteNotified`, `InterruptEndsSession`, `ServesAfterImcs`, `SaveReachesClients`
and the liveness part of `MissionFairSpec`), which needs ENABLED.


## 5. What is not modelled

- The writer of bundles, which nothing in the program calls.  `Compress` has no
  caller either, but it is the only description of what `Expand` reads.
- In `Agent`: the position ticker (a producer like the handlers; `WebsocketHub`
  has any number of them), events of the mission directories, whose names the
  flight manager ignores, and the end of the process, which is in `Lifecycle`.
- What the fields of a record hold, but for counts, flags, ids and classes.
- `GET` handlers that only read (`/ini`, `/briefing`, `/mission/...`): they change
  nothing.  `/flight` is the read of `currentFlight` that the flight manager's
  properties speak of, `/pos` is in `Lifecycle`.
- `IsFlying`, `GetVersion`: they read the shared memory like `GetOwnShip`.
- Durations, formats, JSON, logging, the C headers and the tables of constants.
- `excludedFiles` holds the pattern `te_bms_*`, but `Contains` compares for
  equality: it excludes no file of that pattern.  The model names the excluded
  files and does not spell them.
- Compiler and hardware effects of the data races in the shared memory reader
  and the class table beyond a stale or repeated read.


## 6. Plan

Done, in this order: flight manager with its abstract specification, hub,
watcher, their proofs; the LZSS codec; the life cycle and its proofs; the listing
of mission files; the contents of a mission, from the structs to the exported
tree; the agent as a composition, and its proofs; the proofs of the listing, the
tree of `Compress`, the codec's round trip, and the readers of mission files.

What could follow:

1. `Bundle`: `bundle_writer.go` and `bundle_reader.go`, the round trip over a
   directory of offsets, once the program writes bundles.
2. The position ticker as a second producer in `Agent`.
