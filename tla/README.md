# GRAMS TOF flight software: TLA+ models and proofs

This directory holds a verification development of the GRAMS time-of-flight
flight software (`src/FlightOps`, with `src/Common` and `src/GroundOps` around
it): TLA+ modules translated from the code, TLC configurations that check them
on small instances, and TLAPS proofs. `PROJECT.json` lists the components, the
runs, the mutants that show each property can fail, the map from definitions to
source lines, the hazards and the theorems.

Paths below are relative to `src/FlightOps/src` and drop the `GRAMS_TOF_`
prefix: `CommandDispatch.cpp` is
`src/FlightOps/src/GRAMS_TOF_CommandDispatch.cpp`.

## 1. The system

One process (`daemon/tof_daq.cpp`) runs on the flight computer. It connects as a
client to a hub, once for commands and once for events, executes commands by
running PETsys Python scripts in forked processes, runs a DAQ server thread for
the PETsys tools, and reports status, monitoring data and logs through the event
connection to the ground, where `GroundOps/scripts/tof_bridge.py` stores them.

| Component | State | Operations | Interacts with |
|---|---|---|---|
| Command link (`CommandClient`) | `running_`, `hubConnection_`, `commandQueue_` with `queueMutex_`/`queueCV_`, two threads | `run` (connect, read, acknowledge, queue), `workerLoop`, `start`, `stop` | handler = controller `handleIncomingCommand`; stopped and started by the controller |
| Event link (`EventClient`) | `running_`, `hubConnection_`, one thread | `run`, `sendPacket`, `sendMonitorData`, `sendLogData`, `start`, `stop` | called by every thread that reports |
| Descriptors (`FDManager`, `SafeFD`, `Client`) | a slot per kind of server, a map of client descriptors | set, remove, add, erase, send, receive | both links, the DAQ socket |
| Controller (`DAQController`) | `keepRunning_`, `networkResetRequested_` | `initialize`, `run` (health check every 500 ms, reset of both links), `stop` | owns everything |
| Command dispatch (`CommandDispatch`) | handler table | `dispatch`, `executeSimpleCommand`, the handlers | runs on the worker and on the macro thread |
| — background processes | `activeBackgroundTasks_`, `pidMutex_`, monitor thread | `executeManagedBackground`, `runMonitorThread`, the sweep of `STOP_DAQ` | status callbacks, links to the latest output |
| — macros | `macroLoopRunning_`, `macroLoopThread_`, vault path | seven macro handlers, `executeMacroSequence`, `executeMacroLoop` | dispatches commands itself; operator `STOP_DAQ`/`RESET_DAQ` |
| — DAQ run | `daqRunning_`, `daqThread_`, `daqMutex_` | `START_DAQ`, `STOP_DAQ`, `RESET_DAQ`, `runDAQThread` | `DAQManager::initialize/run/stop` |
| — temperature recorder | `tempRecordRunning_`, `tempRecordThread_` | start, stop | launches silent background processes |
| DAQ server (`DAQManager`) | `globalUserStop`, listening socket | `pollSocket`, `stop`, signal handler | PETsys scripts |
| PETsys acquisition (`external/daqd`, `petsys/daqd.py`, `write_raw`) | ring of frames in shared memory, its two pointers, acquisition mode, worker thread, reply queue | requests of the scripts, `doWork`, `acquire`, `write_raw` | front end over UDP; run by the DAQ server and as background processes |
| Codecs (`CommandCodec`, `MonitorCodec`, `LogCodec`) | none | serialise, parse, CRC | hub, `tof_bridge.py` |
| Configuration and data files (`Config`) | key map, vault path | timestamps, latest file, copy or link | data pipeline handlers |
| Daemon (`tof_daq.cpp`) | journal forwarder thread | start, signal wait, shutdown | controller, event link |
| Servers (`CommandServer`, `EventServer`) | client lists, heartbeat thread | accept, broadcast | test hub |
| Ground (`tof_bridge.py`, `bias_control.py`) | sockets, database, serial line | decode, store; bias commands | hub |

What is hard here is the concurrency. Commands are executed on two threads (the
worker and the macro thread), which share flags, `std::thread` objects and the
process registry with the monitor, recorder, DAQ and controller threads. Several
of these are guarded by a mutex for part of a handler only. The links are torn
down and rebuilt while they are in use; descriptor numbers are re-used by the
kernel; scripts exit, fail or are killed at any time; and a command handler that
waits in a join blocks every later command, `STOP_DAQ` included.

What makes each part correct:

- background processes: every command is answered exactly once and truthfully;
  output is published only when success was reported; no child is lost and no foreign
  process is signalled;
- macros: steps in order and one at a time, success only for a complete
  sequence, a stop that is heeded, a clean state on every way out;
- DAQ run: one DAQ thread, no refusal without a reason, no lost stop, no join
  that waits for ever;
- command link: what is acknowledged is executed, once, in order, urgent commands
  first, across lost links and restarts; `stop()` returns;
- descriptors: nothing leaks, and nobody closes what somebody else has opened;
- event link: packets of several threads are not mixed; controller and daemon: both links come
  back after a reset, the shutdown ends, nothing is used after its end;
- acquisition: what reaches the raw file is whole, in order and of this
  acquisition; a full ring loses no frame it holds; every request is answered;
- files: a name tells the acquisition the content comes from, what is published
  was written with success and is there, a macro uses its own data, and what was
  acquired appears.

## 2. Modules

A module models each handler with its guards, early returns and error paths, at
the grain at which other threads can interfere: one action per stretch of code
between two accesses to shared state. Scripts, payloads, file names and wording
are abstracted away.

| Module | Code | State and actions |
|---|---|---|
| `BackgroundTasks` | `CommandDispatch.cpp` 78-108, 1186-1224, 1384-1417, 1419-1450 | Processes, the registry, `pidMutex_`, the callbacks sent. `Fork`/`Register` are the two halves of `executeManagedBackground`; `StopFork`, `StopRegister`, `StopLock`, `StopKill`, `StopClear` are `STOP_DAQ`; `MonitorLock` ... `MonitorUnlock` one pass of the monitor |
| `MacroEngine` | 71-159, 236-594, 869-1139, 1265-1382, 1419-1476 | The real command sequence of each macro; the worker (operator commands) and the macro thread, each with its program counter, over the flag, the thread object, the registry and the vault; the temperature recorder, which both threads start and stop without a lock (`StartTest` ... `StopJoin`) |
| `DaqLifecycle` | 47-159, 1120-1184, 1253-1263 and `DAQManager.cpp` | The three handlers around `daqMutex_`, both joins, the DAQ thread, stop flag and socket, signal, shutdown |
| `CommandClient` | `CommandClient.cpp` | Connection thread, worker with its condition variable (test, wait, spurious wakeup), `stop()` statement by statement |
| `CommandService` | — | What the command link promises: an urgent stack before a normal queue, one command at a time, each once |
| `FdManager` | `FDManager.h/.cpp`, `Client.cpp`, connection loops of both clients | The kernel's descriptor table with re-use of the lowest number, slots and client map, every open and close |
| `EventLink` | `EventClient.cpp`, `FDManager.h` 34-55, `CommandDispatch.cpp` 1226-1251 | Connection thread, `stop()`/`start()`, and for each sending thread `sendStatusCallback` with its retries and `sendPacket` under the mutex, piece by piece of a packet on the non-blocking socket (`SendPart`, `SendFails`) |
| `DaqController` | `DAQController.cpp`, `daemon/tof_daq.cpp` | Extends `EventLink`: `main()` from its start over the signal to its end, the supervising loop with the reset of both links, the worker (`Execute`) and the other threads that report (`Report`), the journal forwarder with `popen`, `fgets` and two `pclose`, the destruction of the members |
| `FrameServer` | `external/daqd/src/{UDPFrameServer,FrameServer,Client}.cpp`, `petsys/daqd.py`, `rawdata/tools/write_raw.cpp` | The ring and its pointers, the worker between slot, copy and push, the poll thread that executes one request at a time and waits in a join or for a reply, the scripts with what they have read before, datagrams that get lost, scripts that are killed |
| `DataVault` | `CommandDispatch.cpp` 70-159, 330-554, 596-866, 1265-1337, 1384-1412, `external/scripts/acquire_*.py`, `Config.cpp` 164-394, `Config.h` | Files with the acquisition they come from, links, calibration tables, background acquisitions; a processing command as the points at which it reads the vault path and the directories (`Select`, `Locate`, `Name`, `Analyse`, `Publish`, `LinkTable`), on two threads; `STOP_DAQ` and `RESET_DAQ` as far as they sweep the acquisitions (`Sweep`, `StopReturns`) |

`MC*.tla` instantiate them for TLC; `*Proofs.tla` hold the theorems. The modules
share no variables: each takes from the others what its code sees of them. For
instance `MacroEngine` sees a background process as registered or not
(`BackgroundTasks` shows that an entry does leave the registry), and
`CommandClient` sees a socket as up, lost or closed (`FdManager` has its
number). `DaqController` composes the daemon and the controller with the event
link in one state space; of the command client it keeps what the controller sees.
Where another module shows that a wait may have no end, the wait has none here: the
`stop()` of the command client may hang (`CommandClient`, `DaqLifecycle`), and so
may the destructor of the dispatcher (`MacroEngine`, `DaqLifecycle`); likewise a
`RESET_DAQ` in `MacroEngine` (`ResetHangs`, after `DaqLifecycle`).
`DataVault` keeps of the macro engine the vault, the steps and the waiting.

History variables that are not state of the program: `overlapped` in
`MacroEngine` and in `MCDaqLifecycle` (two threads have been in the same
functions at once), `interrupted` in `MCFrameServer` (the acquisitions that
`stop_daq.py` has interrupted, which resets the pointers under a reading
`write_raw`), `done`, `spoiled`, `stopped`, `disturbed` and `report` in
`MacroEngine`, and in `DataVault` what a file remembers: the acquisition it comes
from, the sequence, and whether one that wrote it has reported success (`made`). Properties that hold only without the overlap or the
interruption say so; what happens with it is in the list of hazards.

Undefined behaviour: joining one `std::thread` from two threads (`DaqLifecycle`)
and following a pointer `stop()` has emptied (`CommandClient`) are modelled by
what the build does, a refused join and a crash (`DereferenceNull`, state
`dead`); assigning to or destroying a joinable thread is `std::terminate`
(`Terminate`); a frame read while it is written has any number (`getFrameID`);
closing the journal pipe twice, or reading from it after it was closed, is the
state `crashed` or has no effect; a string read while it is
written (the vault path) has the old or the new value.

In each module the definitions whose comment begins "Mutated form of" are
plausible faults used by the mutants in `PROJECT.json`; no specification uses
them.

## 3. Runs

| Run | Instance | Shows |
|---|---|---|
| `background` | 2 processes, worker, macro thread, recorder | `TypeOK`, `AtMostOneReport`, `ReportIsTrue` (exit, report and publication agree), `NoLostChild`, `NoSignalAfterReap`, `EveryTaskReported` |
| `macro_engine` | the stage 3 macro with its pulse train and its recording, the cyclic macro (0 = unlimited, and 2 cycles), operator acquisitions and recordings | `TypeOK`, `SuccessMeansAllSteps`, `StepsDoNotOverlap`, `StopHeeded`, `RecorderFollowsFlag`, `WorkerReturns` (unless the macro hangs in a `RESET_DAQ` step) |
| `macro_cancelled` | cyclic macro, unlimited | violation of `StopCancelsMacro` |
| `daq` | 2 dispatching threads, 2 DAQ threads | `TypeOK`, `SingleDaqThread`, `RefusalIsJustified`, `StopNotErased`; as long as commands come one at a time `StartReturns` |
| `daq_stop_lost` | 1 dispatching thread, 1 DAQ thread | violation of `StopReturns` |
| `client` | 2 ordinary commands, 1 urgent, 1 corrupt packet, a stop and a restart | `TypeOK`, `AckedIsKept`, `ImplementsService` (refinement of `CommandService`), `AckedIsExecuted`, `StopReturnsIfSeen` |
| `client_lost_wakeup` | 1 command, 1 stop | violation of `ClientStopReturns` |
| `fd_safety` | both clients, another thread, 3 numbers | `TypeOK`, `NoLeak` |
| `fd_new_socket` | 1 client, 1 number | violation of `NewSocketSurvives` |
| `controller` | the daemon, its worker, the monitor thread, the journal forwarder; packets of 2 pieces, 2 tries of the worker | `TypeOK`, `StreamIsWhole`, `NoUseAfterDestroy`, `ReconnectHappens` (both clients are back), `ShutdownEnds`, the last two unless a `stop()` or a destructor hangs |
| `frame_ring` | ring of 2, an acquiring script started twice or with `stop_daq.py`, frames 0-3, socket of 2 datagrams | `TypeOK`, `RingConsistent`, `FileInOrder`, `AtMostOneStale`, `EveryRequestAnswered` |
| `data_path` | 2 moments in different seconds, a sequence that resets, acquires and calibrates, an operator who acquires, calibrates and stops | `TypeOK`, `LineageKept`, `OnlySuccessIsPublished` (links and calibration tables), `SequenceUsesOwnData`, `AcquiredIsPublished` (what no stop has swept) |

Why the bounds are enough to be interesting. Two dispatching threads are all the
code has. Two processes allow a stop script and a task, or two overlapping stops.
Two DAQ thread ids let a second DAQ thread exist if the code allowed it. Two
ordinary commands have an order to lose, and the urgent one overtakes them. With
as many descriptor numbers as threads every number is re-used. A packet of two
pieces can be torn, and two tries are one retry; the monitor thread tries once, like the
journal forwarder: the retry of the worker is the same step. A ring of two slots has both an
empty and a full state with both turns of its pointers, half of it is one block,
and four frames take its pointers once around; `MaxLag` lets the time tag of a
synchronisation be ahead of the frames sent. Two moments let two sequences, or a
sequence and the operator, each acquire; the earlier one has more milliseconds, so
that the order of the parts of a name matters. The counter bounds are `MaxResets`,
`MaxStarts`, `MaxTries`, `MaxFrame`, `MaxFile` and the length of `Clock`; the cycle
count of a macro is bounded by its own limit and not counted when there is none.

Deadlock checking is off except for `FdManager`: a dispatcher may be destroyed,
the client may be stopped for good, the daemon exits, process ids, frames or
moments are used up, and a thread
that waits in a join for ever is what the liveness properties are about.

### Fairness

- Threads keep running (weak fairness of the monitor, worker, macro, DAQ and
  connection threads and of a handler once begun).
- A thread that waits for a mutex others take and release gets it in the end
  (strong fairness of the lock steps): critical sections are short, and the
  monitor and the recorder sleep between passes.
- Scripts end: each is given a duration or a fixed amount of work. In
  `frame_ring` nothing is assumed of the front end: what needs a frame or a reply
  ends by its own timeout.
- `data_path` needs the monitor thread only (weak fairness of `Reap`).
- `controller`: the threads go on (strong where they wait for a mutex, and where
  the supervising loop looks every 500 ms at a flag that a link loss may also have
  handled). Nothing is assumed of `journalctl`: it inherits the signals that the
  daemon blocks before `popen`, so that the code does not make it end. That it has
  ended, or that the forwarder is done, is a premise of `ShutdownEnds`. Nor is
  anything assumed of the `stop()` of the command client and the destructor of the
  dispatcher: if they do not return, `command = "hung"` or `main = "stuck"`, which
  the two liveness properties name.
- `epoll_pwait` times out after 100 ms, and the polling loop of the macro gets a
  poll into a pause of the recorder (strong fairness of `Wait`).
- Nothing is assumed of the operator, the hub, the network, signals or spurious
  wakeups.

### Where the code does not do what it says

Four runs end in a violation, and the findings in `PROJECT.json` quote the
comment concerned:

- `daq_stop_lost`: `DAQManager::run` clears the stop flag when the new thread
  gets going, so a `STOP_DAQ` right after `START_DAQ` is erased and joins for
  ever, and the worker with it. Once the thread polls, no stop is erased
  (`StopNotErased`, proved).
- `client_lost_wakeup`: `stop()` changes `running_` and notifies without the
  mutex; between the worker's test and its wait both go unseen. At any other
  moment `stop()` returns (`StopReturnsIfSeen`).
- `macro_cancelled`: the macro thread raises `macroLoopRunning_` at the start of
  every sequence and after every `RESET_DAQ` step, so a stop just before is lost.
  A stop inside a step or between cycles is heeded (`StopHeeded`).
- `fd_new_socket`: after a lost link the kernel returns the number the slot still
  remembers, and `setServerFD` closes the new socket; the first reconnection
  always fails.

What else the code does against expectation, and why no property says the contrary:

- `sendPacket` returns "true on success, false otherwise" (`EventClient.cpp:89`),
  but takes the -1 of a failed `sendData` for success (109). A callback lost on a
  dead, closed or congested connection counts as sent and is not repeated, and on a
  congested one the next packet follows the torn one. Only a packet that found no
  connection at all is tried again.
- `EventClient::run` ends with `removeServerFD` (279), which closes the number in
  the slot without a mutex: if the connection is still open, under a thread that is
  sending on it (`RunEnd`). `NoUseAfterDestroy` is about objects, not about the
  descriptor.
- The sweep of `STOP_DAQ` (`CommandDispatch.cpp:94-108`), also inside `RESET_DAQ`,
  removes the tasks without their callbacks. An acquisition that has ended with 0
  and was not yet reaped is reported as interrupted, and its files are never linked.
- The acquisition scripts ignore the result of their work (`acquire_*.py`, `main`):
  after a caught exception they exit with 0, and what they have written so far is
  linked as a success.
- A second `PROCESS_*_CALIBRATION` writes to the same file and truncates what the
  first one published; if it fails, link and table lead to an incomplete file.
  Hence `OnlySuccessIsPublished` says that success was reported for the file once,
  and not that it is complete.
- `CONVERT_STG1_TO_STG2` and the QA commands ask for the directory of their output
  twice (`CommandDispatch.cpp:776` and `779`, `802` and `806`, `829` and `835`); if
  a sequence begins or ends in between, they write in one place and link in another,
  where an older file of this name, of an analysis that failed, may lie.

The models reach some further states that a comment excludes and that no
property is stated for; the ones most likely to be met are in the list of hazards
with a note (a process
forked but not registered survives a stop; two overlapping stops kill each
other's stop script; a finished macro is taken for a running one by
`RESET_DAQ`; the cyclic macro reports success after a failed cycle; the
connection made during `stop()` survives it; a double close hits another
client's socket; shutdown during `START_DAQ`; a
reconnect requested while one is being finished is forgotten; the journal pipe is
closed twice, or read after it was closed; a recording started again while it is stopped ends the program or
never ends; one frame of before a synchronisation is acquired, where a comment
says all are discarded; torn frames in the file when `stop_daq.py` interrupts an
acquisition; unfinished data taken as the latest; within a second the older data
taken as the latest).

## 4. Proofs

TLAPS checks the following for every value of the constants (any number of
processes, threads, dispatchers, senders, commands, macros, retries and restarts),
from the named assumptions of the modules only (`ThreadsAssumption`,
`ActorsAssumption`, `FdsAssumption`, `LinkAssumption`, `PacketsAssumption`,
`MacrosAssumption`, `CycleLimitsAssumption`, `ClockAssumption`,
`CommandsAssumption`, `FrameAssumption`: the special values differ from the ordinary ones, the bounds
are natural numbers, the clock goes on, the commands are those of the code), which TLC evaluates in the runs. Each module has an
inductive invariant `IInv`, which TLC has checked on the instance of the run as
well, a lemma for each of its parts, and a theorem `Invariance`.

`BackgroundTasksProofs`: `TypeCorrect`, `ReportedAtMostOnce`,
`SignalsOnlyUncollected`, `ReportsAreTrue`, `NoChildIsLost`. At most one report is
not inductive by itself: the sweep reports entry by entry and clears the registry
only at its end, so a reported task stays registered meanwhile. The invariant
`IInv` adds that the entries still to visit are registered (`TodoRegistered`), that
a process not yet forked has left no trace (`UnbornClean`), that one forked and
not registered has not been touched (`ForkedClean`), that the pid a `STOP_DAQ`
holds is its stop script (`StopPid`), and, the core, that a registered task has
not been collected, and has not been reported either unless a sweep holds the
mutex and is done with it (`TaskPending`). That reports are true and that no child
is lost follow from the same invariant and one step of their own each
(`ReportStep`, `ChildStep`): a task reported a second time, or collected by the
monitor after a sweep has reported it, would break both.

`MacroEngineProofs`: `TypeCorrect`, `SuccessIsEarned`, `StepsAreApart`,
`StopIsHeeded`, `RecorderIsConsistent`. Success needs the count: the steps done so
far and the pulse trains skipped with their acquisition add up to the position in
the sequence at each point of the loop (`Counted`), and a step that failed has
ended the sequence (`SpoiledEnds`). That steps are apart needs that the flag is
down whenever the macro stops waiting early (`StepsApart`); that a stop is heeded
needs that nobody raises the flag again after it (`StopLeavesFlagDown`); the
recorder needs where each thread may stand in its functions (`RecorderPlaces`).

`DaqLifecycleProofs`: `TypeCorrect`, `OneDaqThread`, `RefusalJustified`,
`StopIsNotErased`. The invariant adds that `daqThread_` stands for the one thread
there is (`HandleTracksThread`) and that `START_DAQ` past its join has no thread
left (`StartHasJoined`). That a stop is not erased needs both: only a starting
thread clears the flag, and it cannot exist beside a polling one.

`CommandClientProofs`: `TypeCorrect`, `AckedStaysKept` and `ClientIsService`, the
refinement of `CommandService`. The mapping cuts the queue behind its leading
urgent commands (`Lead`). The invariant says that what is still to be parsed is
there once and was never taken over (`Fresh`; otherwise a command could be
accepted twice), that the connection thread pushes the command it acknowledged
(`Pushing`), that no urgent command waits behind another one (`UrgentFirst`;
otherwise taking the head of the queue would not be a step of the service) and
that the threads are joined when `stop()` goes on (`Joined`). A push is an
`Accept`, the worker's check of a queue that is not empty a `BeginUrgent` or
`BeginNormal`, the return of the handler an `End`, and every other step, among
them lost connections and restarts, does not show. Lemmas about the two parts of
a sequence under insertion at either end and removal of the head carry this.

`FdManagerProofs`: `TypeCorrect`, `NothingLeaks`, for any descriptor numbers and
any number of other threads. That a client has at most one socket does not carry
itself through a step: the invariant adds that the client still knows its
socket's number, at each point of its loop in the place from which it will be
closed: the local variable, the slot, the connection and the client map
(`SocketKnown`), and that a stopped client has no thread left to start over
(`StoppedIsJoined`).

`DaqControllerProofs`: `TypeCorrect`, `StreamStaysWhole` and
`NothingUsedAfterDestroy`, for the daemon with the event link and any number of
threads of the dispatcher that report beside the worker and the forwarder. The link needs that
a packet has pieces out only while it is being sent (`PartsOutside`) and that a
connection in use is there (`ConnectionHeld`); the daemon, that each thread
sends only while the part it belongs to is there (`SendersKnown`), that the supervising loop has the clients
stopped where its code says so (`LoopStops`), and that `main()` destroys an object
only when all threads that know it are joined (`MainOrder`). The steps of the
daemon are first reduced to what they do to the link (`NextMovesLink`), so that
the link's lemmas are proved once.

`DataVaultProofs`: `TypeCorrect`, `LineageIsKept`, `OnlySuccessPublished` and
`OwnDataOnly`, for any clock, any commands of the operator and any steps of the
sequence. The invariant says that a timestamp which was taken and not yet used is
new (`StampedInv`; otherwise two acquisitions would write one file), that what a
handler has chosen is of the past and its names carry the chosen timestamp
(`Chosen`), that no one has reported success for the files of a running task and
somebody has for those of a successful one (`OutputsInv`), and that what an analysis
has opened is its output or was replaced by a link to a file that may be linked
(`AnalysisAt`). For the tables
it needs `NewVaultInv`: a sequence that began while the operator's analysis was
under way has nothing of that time in its vault, so it cannot replace the file
whose table is about to be linked. Writing and linking take from no path what it leads to (`Grows`, `WriteEffect`, `LinkEffect`). `getLatestTimestamp` returns
an existing file, since names are ordered by seconds and then by the *text* of the
milliseconds, and this order has a greatest element in any set that is not empty
(`TextOrder`, `LatestIsCandidate`). `OnlySuccessPublished` supposes that no command of the operator or of the sequence
asks for the directory of its output twice (`NamesOutputOnce`): with
`CONVERT_STG1_TO_STG2` or a QA command it is false, see above. `OwnDataOnly` supposes that the steps which
process something read what acquisitions write (`StepsReadAcquisitions`), as in
`THERMAL_CALIB` and `STAGE0` to `STAGE2`. For `AUTO_RUN` and `STAGE3`, which go on
with what analyses have written, it does not hold in general: TLC shows that an
operator's analysis under way may leave an older file in the sequence's vault,
which the sequence takes as the latest if both moments are in the same
second (`.100` sorts before `.20`). With the moments in different seconds TLC finds
no such state.

`FrameServerProofs`: `TypeCorrect`, `RingIsConsistent`, `FileIsInOrder` and
`OneStaleFrame`, for any size of the ring and of the socket buffer, any number of
attempts and starts, and any losses. All but the first suppose one acquiring script
(`OneAcquirer`): the program does not prevent a second one, but two of them set one
read pointer, and the reading protocol makes no sense of that. `stop_daq.py`
takes part in any case. The invariant follows a frame on its way:

- the ring: a worker that has chosen a slot found the ring not full, and only it
  adds (`RingInv`); while it lives, the pointers a script holds are in the filled
  part (`ReaderInv`), so that the pointer it sets releases frames and brings none
  back. The pointers are reset only with the worker told to end; the second
  reset, after the join, wipes out the push it may still have made;
- the network: a reply, a command or a datagram is known by its serial number or
  synchronisation (`NetInv`). When a script has seen the reply to its
  synchronisation, nothing of an earlier one is under way any more, and this stays
  so until the worker has been stopped again (`SettledInv`). Without it the worker
  could copy a frame of before the reset, whose number may be larger;
- the order: the datagrams on the wire, the worker's, those in the ring and those
  in the file follow one another (`WireInv`, `PacketInv`, `OrderInv`, `FileInv`,
  with `Sent`, `Past` and `Early` for the frames before a place), and the slot
  that the worker is about to publish holds its datagram (`SlotInv`);
- the stale frame: once `minimumFrameID` is the script's time tag (`ScriptInv`),
  only the datagram that has passed the comparison already may be older, and it
  is the first to be read (`StaleInv`).

The steps are first reduced to what they do to the ring: they release frames at
its beginning, or add one at its end, or both pointers are reset (`Released`,
`Grown`, `RingFlow`), and a step of a reading script moves only what it has read
of them (`ReadingStep`).

Only model-checked: all liveness properties, which are outside this prover (as
are `ENABLED` and induction over recursive definitions). Every safety property of
a passing run is also a theorem, under the hypotheses named above.

## 5. Not modelled

- Byte layouts: the codecs, the arguments of commands, the contents of monitor
  and log packets. They are sequential and without state.
- What an analysis, a conversion or a calibration computes (`Analyzer`,
  `RootConverter`, `src/Analysis`, the conversion programs of PETsys): numerical
  code over ROOT files.
- Of the PETsys software the configuration of the ASICs and the requests that
  only read; events inside a frame; times, in particular the length of timeouts.
- Two acquisitions at a time: the program allows them, and the reading protocol
  makes no sense of them.
- The servers of the test hub, the ground bridge, the bias controller, the command
  line tools: they run on other machines or in tests and share nothing with the
  flight process but the two connections, whose far ends are the environment of
  the link modules.
- Accepting clients in the poll loop of the DAQ server, the key lookup of the
  configuration, the Python integration, the wrapper around the logger.
- The vendored logging library quill with fmt, most of the implementation
  lines of the repository. It is not this program's logic, which
  is why the map's share of all lines stays small: the lines it covers are
  those of the flight process, of the acquisition path and of the data files.

Process ids are not re-used, creating a thread does not fail, and no two
acquisitions or vaults have the same millisecond. `PROJECT.json` gives the reason
for each component left out.

## 6. Plan

The safety properties of the runs are proved. What remains is outside the prover
(liveness) or a matter of hypotheses: `OwnDataOnly` for sequences that process what
analyses wrote, with moments in different seconds.

Modules that could follow: the poll loop of `DAQManager` with its clients, and the
servers of the test hub with their client lists.
