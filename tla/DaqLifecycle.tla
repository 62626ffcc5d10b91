------------------------------ MODULE DaqLifecycle ------------------------------
(***************************************************************************)
(* Starting and stopping the DAQ thread: the START_DAQ, STOP_DAQ and       *)
(* RESET_DAQ handlers of GRAMS_TOF_CommandDispatch with daqThread_,        *)
(* daqRunning_ and daqMutex_, the DAQ thread itself (runDAQThread around   *)
(* GRAMS_TOF_DAQManager::run), DAQManager::stop, the signal handler, and   *)
(* the end of the process (DAQController::stop, ~CommandDispatch).         *)
(*                                                                         *)
(* Handlers run on several threads (the command client's worker and the    *)
(* macro thread).  Only START_DAQ and the last statement of STOP_DAQ hold  *)
(* daqMutex_; STOP_DAQ signals and joins without it.                       *)
(*                                                                         *)
(* std::thread::join on one object from two threads is undefined; what the *)
(* build does is modelled: pthread_join refuses a thread that has a joiner *)
(* and std::thread::join refuses a thread that is no longer joinable, both *)
(* as a std::system_error that executeSimpleCommand turns into a failure.  *)
(* Creating a thread is assumed to succeed.                                *)
(***************************************************************************)
CONSTANTS Dispatchers,  \* threads that run command handlers
          Owner,        \* the thread that owns the controller
          Threads,      \* DAQ threads; an id is free again once joined
          Nobody,       \* no holder, no joiner
          NoThread      \* daqThread_ is not joinable

Actors == Dispatchers \cup {Owner}

ASSUME ActorsAssumption ==
    /\ Owner \notin Dispatchers
    /\ Nobody \notin Actors
    /\ NoThread \notin Threads

VARIABLES
    pc,              \* where each actor is
    op,              \* the command a dispatcher is executing
    daqMutex,        \* the holder of daqMutex_
    daqRunning,      \* daqRunning_
    daqThread,       \* the thread daqThread_ stands for
    run,             \* where each DAQ thread is
    joiner,          \* who is inside pthread_join for a thread
    globalUserStop,  \* the stop flag of DAQManager.cpp
    socket,          \* the listening socket in the DAQ slot of the FDManager
    signalsCaught    \* initialize() has installed catchUserStop

vars == <<pc, op, daqMutex, daqRunning, daqThread, run, joiner,
          globalUserStop, socket, signalsCaught>>

Ops == {"none", "START_DAQ", "STOP_DAQ", "RESET_DAQ"}
StartHolds == {"startCheck", "startTest", "startJoin", "startJoining",
               "startInit", "startSpawn"}
StartStates == StartHolds \cup {"startLock"}
StopStates == {"stopSignal", "stopTest", "stopJoin", "stopJoining", "stopClear"}
Joining == {"startJoining", "stopJoining", "dtorJoining"}
PcStates == {"idle"} \cup StartStates \cup StopStates
                     \cup {"stopped", "dtorJoining", "down"}
RunStates == {"none", "started", "setup", "polling", "exiting", "finished"}
Live == RunStates \ {"none", "finished"}

\* In no-FPGA mode nothing is initialised before the first START_DAQ;
\* otherwise DAQController::initialize has called initialize() once.
Init ==
    /\ pc = [a \in Actors |-> "idle"]
    /\ op = [d \in Dispatchers |-> "none"]
    /\ daqMutex = Nobody
    /\ daqRunning = FALSE
    /\ daqThread = NoThread
    /\ run = [t \in Threads |-> "none"]
    /\ joiner = [t \in Threads |-> Nobody]
    /\ globalUserStop = FALSE
    /\ \E noFpgaMode \in BOOLEAN :
        /\ socket = IF noFpgaMode THEN "none" ELSE "open"
        /\ signalsCaught = ~noFpgaMode

-----------------------------------------------------------------------------
\* Commands.

\* Until the destructor runs, the worker and the macro thread may still start
\* a command, even after DAQController::stop().
Command(d, code) ==
    /\ pc[d] = "idle"
    /\ pc[Owner] \in {"idle", "stopped"}
    /\ op' = [op EXCEPT ![d] = code]
    /\ pc' = [pc EXCEPT ![d] = IF code = "START_DAQ" THEN "startLock"
                                                     ELSE "stopSignal"]
    /\ UNCHANGED <<daqMutex, daqRunning, daqThread, run, joiner,
                   globalUserStop, socket, signalsCaught>>

\* The command, or the second half of RESET_DAQ, returns.
Return(d) ==
    /\ pc' = [pc EXCEPT ![d] = "idle"]
    /\ op' = [op EXCEPT ![d] = "none"]

\* STOP_DAQ returns; inside RESET_DAQ, which ignores its result, START_DAQ
\* follows.
StopReturn(d) ==
    IF op[d] = "RESET_DAQ"
    THEN pc' = [pc EXCEPT ![d] = "startLock"] /\ UNCHANGED op
    ELSE Return(d)

-----------------------------------------------------------------------------
\* START_DAQ.

\* Mutant: START_DAQ does not wait for daqMutex_.
StartLockUnguarded(d) ==
    /\ pc[d] = "startLock"
    /\ daqMutex' = d
    /\ pc' = [pc EXCEPT ![d] = "startCheck"]
    /\ UNCHANGED <<op, daqRunning, daqThread, run, joiner, globalUserStop,
                   socket, signalsCaught>>

StartLock(d) ==
    /\ pc[d] = "startLock"
    /\ daqMutex = Nobody
    /\ daqMutex' = d
    /\ pc' = [pc EXCEPT ![d] = "startCheck"]
    /\ UNCHANGED <<op, daqRunning, daqThread, run, joiner, globalUserStop,
                   socket, signalsCaught>>

\* Mutant: START_DAQ does not refuse while a thread is running.
StartCheckNever(d) ==
    /\ pc[d] = "startCheck"
    /\ pc' = [pc EXCEPT ![d] = "startTest"]
    /\ UNCHANGED <<op, daqMutex, daqRunning, daqThread, run, joiner,
                   globalUserStop, socket, signalsCaught>>

StartCheck(d) ==
    /\ pc[d] = "startCheck"
    /\ IF daqRunning
       THEN Return(d) /\ daqMutex' = Nobody
       ELSE pc' = [pc EXCEPT ![d] = "startTest"] /\ UNCHANGED <<op, daqMutex>>
    /\ UNCHANGED <<daqRunning, daqThread, run, joiner, globalUserStop, socket,
                   signalsCaught>>

\* Mutant: START_DAQ does not join the previous thread.
StartTestNoJoin(d) ==
    /\ pc[d] = "startTest"
    /\ pc' = [pc EXCEPT ![d] = "startInit"]
    /\ UNCHANGED <<op, daqMutex, daqRunning, daqThread, run, joiner,
                   globalUserStop, socket, signalsCaught>>

StartTest(d) ==
    /\ pc[d] = "startTest"
    /\ pc' = [pc EXCEPT ![d] = IF daqThread = NoThread THEN "startInit"
                                                       ELSE "startJoin"]
    /\ UNCHANGED <<op, daqMutex, daqRunning, daqThread, run, joiner,
                   globalUserStop, socket, signalsCaught>>

\* DAQManager::initialize: the handlers are installed first; it fails before
\* or after the new socket has replaced the old one.
StartInitFails(d) ==
    /\ pc[d] = "startInit"
    /\ signalsCaught' = TRUE
    /\ socket' \in {socket, "open"}
    /\ daqMutex' = Nobody
    /\ Return(d)
    /\ UNCHANGED <<daqRunning, daqThread, run, joiner, globalUserStop>>

StartInit(d) ==
    /\ pc[d] = "startInit"
    /\ signalsCaught' = TRUE
    /\ socket' = "open"
    /\ pc' = [pc EXCEPT ![d] = "startSpawn"]
    /\ UNCHANGED <<op, daqMutex, daqRunning, daqThread, run, joiner,
                   globalUserStop>>

StartSpawn(d, t) ==
    /\ pc[d] = "startSpawn"
    /\ run[t] = "none"
    /\ daqRunning' = TRUE
    /\ run' = [run EXCEPT ![t] = "started"]
    /\ daqThread' = t
    /\ daqMutex' = Nobody
    /\ Return(d)
    /\ UNCHANGED <<joiner, globalUserStop, socket, signalsCaught>>

-----------------------------------------------------------------------------
\* STOP_DAQ from "SIGNAL SOFTWARE STOP" on; what precedes it is in
\* BackgroundTasks and MacroEngine.

\* DAQManager::stop
RequestStop ==
    /\ globalUserStop' = TRUE
    /\ socket' = IF socket = "open" THEN "shut" ELSE socket

StopSignal(d) ==
    /\ pc[d] = "stopSignal"
    /\ RequestStop
    /\ pc' = [pc EXCEPT ![d] = "stopTest"]
    /\ UNCHANGED <<op, daqMutex, daqRunning, daqThread, run, joiner,
                   signalsCaught>>

StopTest(d) ==
    /\ pc[d] = "stopTest"
    /\ pc' = [pc EXCEPT ![d] = IF daqThread = NoThread THEN "stopClear"
                                                       ELSE "stopJoin"]
    /\ UNCHANGED <<op, daqMutex, daqRunning, daqThread, run, joiner,
                   globalUserStop, socket, signalsCaught>>

StopClear(d) ==
    /\ pc[d] = "stopClear"
    /\ daqMutex = Nobody
    /\ daqRunning' = FALSE
    /\ StopReturn(d)
    /\ UNCHANGED <<daqMutex, daqThread, run, joiner, globalUserStop, socket,
                   signalsCaught>>

-----------------------------------------------------------------------------
\* daqThread_.join() in the three places that call it.

CanJoin == daqThread # NoThread /\ joiner[daqThread] = Nobody

JoinEnter(d) ==
    /\ pc[d] \in {"startJoin", "stopJoin"}
    /\ CanJoin
    /\ joiner' = [joiner EXCEPT ![daqThread] = d]
    /\ pc' = [pc EXCEPT ![d] = IF @ = "startJoin" THEN "startJoining"
                                                  ELSE "stopJoining"]
    /\ UNCHANGED <<op, daqMutex, daqRunning, daqThread, run, globalUserStop,
                   socket, signalsCaught>>

StartJoinThrows(d) ==
    /\ pc[d] = "startJoin"
    /\ ~CanJoin
    /\ daqMutex' = Nobody
    /\ Return(d)
    /\ UNCHANGED <<daqRunning, daqThread, run, joiner, globalUserStop, socket,
                   signalsCaught>>

StopJoinThrows(d) ==
    /\ pc[d] = "stopJoin"
    /\ ~CanJoin
    /\ StopReturn(d)
    /\ UNCHANGED <<daqMutex, daqRunning, daqThread, run, joiner,
                   globalUserStop, socket, signalsCaught>>

\* What follows the join in START_DAQ, STOP_DAQ and the destructor.
AfterJoin == [ startJoining |-> "startInit",
               stopJoining |-> "stopClear",
               dtorJoining |-> "down" ]

JoinReturn(a, t) ==
    /\ pc[a] \in Joining
    /\ joiner[t] = a
    /\ run[t] = "finished"
    /\ run' = [run EXCEPT ![t] = "none"]
    /\ joiner' = [joiner EXCEPT ![t] = Nobody]
    /\ daqThread' = NoThread
    /\ pc' = [pc EXCEPT ![a] = AfterJoin[@]]
    /\ UNCHANGED <<op, daqMutex, daqRunning, globalUserStop, socket,
                   signalsCaught>>

-----------------------------------------------------------------------------
\* The DAQ thread.

\* Mutant: run() clears the flag after its set-up instead of before it.
RunBeginLate(t) ==
    \/ /\ run[t] = "started"
       /\ run' = [run EXCEPT ![t] = "setup"]
       /\ UNCHANGED <<pc, op, daqMutex, daqRunning, daqThread, joiner,
                      globalUserStop, socket, signalsCaught>>
    \/ /\ run[t] = "polling"
       /\ globalUserStop' = FALSE
       /\ UNCHANGED <<pc, op, daqMutex, daqRunning, daqThread, run, joiner,
                      socket, signalsCaught>>

\* DAQManager::run forgets any stop requested before it.
RunBegin(t) ==
    /\ run[t] = "started"
    /\ globalUserStop' = FALSE
    /\ run' = [run EXCEPT ![t] = "setup"]
    /\ UNCHANGED <<pc, op, daqMutex, daqRunning, daqThread, joiner, socket,
                   signalsCaught>>

\* pollSocket sets up its epoll instance; it returns at once, leaving the
\* socket alone, when that fails (always so without a socket).
PollSetup(t) ==
    /\ run[t] = "setup"
    /\ \/ socket # "none" /\ run' = [run EXCEPT ![t] = "polling"]
       \/ run' = [run EXCEPT ![t] = "exiting"]
    /\ UNCHANGED <<pc, op, daqMutex, daqRunning, daqThread, joiner,
                   globalUserStop, socket, signalsCaught>>

\* The loop tests the flag at least every 100 ms (the epoll timeout); on the
\* way out the clients and the socket are closed and the slot is emptied.
PollStop(t) ==
    /\ run[t] = "polling"
    /\ globalUserStop
    /\ socket' = "none"
    /\ run' = [run EXCEPT ![t] = "exiting"]
    /\ UNCHANGED <<pc, op, daqMutex, daqRunning, daqThread, joiner,
                   globalUserStop, signalsCaught>>

\* Mutant: daqRunning_ is left up when the thread ends by itself.
RunEndKeepsFlag(t) ==
    /\ run[t] = "exiting"
    /\ daqMutex = Nobody
    /\ run' = [run EXCEPT ![t] = "finished"]
    /\ UNCHANGED <<pc, op, daqMutex, daqRunning, daqThread, joiner,
                   globalUserStop, socket, signalsCaught>>

\* The end of runDAQThread.
RunEnd(t) ==
    /\ run[t] = "exiting"
    /\ daqMutex = Nobody
    /\ daqRunning' = FALSE
    /\ run' = [run EXCEPT ![t] = "finished"]
    /\ UNCHANGED <<pc, op, daqMutex, daqThread, joiner, globalUserStop,
                   socket, signalsCaught>>

\* SIGINT, SIGTERM or SIGHUP in a process that does not block them.
CatchUserStop ==
    /\ signalsCaught
    /\ globalUserStop' = TRUE
    /\ UNCHANGED <<pc, op, daqMutex, daqRunning, daqThread, run, joiner,
                   socket, signalsCaught>>

-----------------------------------------------------------------------------
\* The end of the process.

ControllerStop ==
    /\ pc[Owner] = "idle"
    /\ RequestStop
    /\ pc' = [pc EXCEPT ![Owner] = "stopped"]
    /\ UNCHANGED <<op, daqMutex, daqRunning, daqThread, run, joiner,
                   signalsCaught>>

\* ~CommandDispatch: the worker and the macro thread have been joined.
Destroy ==
    /\ pc[Owner] = "stopped"
    /\ \A d \in Dispatchers : pc[d] = "idle"
    /\ daqRunning' = FALSE
    /\ IF daqThread = NoThread
       THEN pc' = [pc EXCEPT ![Owner] = "down"] /\ UNCHANGED joiner
       ELSE /\ pc' = [pc EXCEPT ![Owner] = "dtorJoining"]
            /\ joiner' = [joiner EXCEPT ![daqThread] = Owner]
    /\ UNCHANGED <<op, daqMutex, daqThread, run, globalUserStop, socket,
                   signalsCaught>>

-----------------------------------------------------------------------------
StartStep(d) ==
    \/ StartLock(d) \/ StartCheck(d) \/ StartTest(d)
    \/ StartInitFails(d) \/ StartInit(d)
    \/ \E t \in Threads : StartSpawn(d, t)

StopStep(d) == StopSignal(d) \/ StopTest(d) \/ StopClear(d)

JoinStep(d) == JoinEnter(d) \/ StartJoinThrows(d) \/ StopJoinThrows(d)

Handler(d) ==
    StartStep(d) \/ StopStep(d) \/ JoinStep(d)

DaqStep(t) == RunBegin(t) \/ PollSetup(t) \/ PollStop(t) \/ RunEnd(t)

Next ==
    \/ \E d \in Dispatchers, code \in Ops \ {"none"} : Command(d, code)
    \/ \E d \in Dispatchers : Handler(d)
    \/ \E a \in Actors, t \in Threads : JoinReturn(a, t)
    \/ \E t \in Threads : DaqStep(t)
    \/ CatchUserStop
    \/ ControllerStop
    \/ Destroy

Spec == Init /\ [][Next]_vars

\* Commands, signals and the shutdown come or do not come.  A thread that can
\* take a step takes it; a thread waiting for daqMutex_ gets it in the end if
\* it is free again and again, since commands are short and far apart.
Fairness ==
    /\ \A d \in Dispatchers :
        /\ WF_vars(Handler(d))
        /\ SF_vars(StartLock(d))
        /\ SF_vars(StopClear(d))
    /\ \A a \in Actors, t \in Threads : WF_vars(JoinReturn(a, t))
    /\ \A t \in Threads :
        /\ WF_vars(DaqStep(t))
        /\ SF_vars(RunEnd(t))

FairSpec == Spec /\ Fairness

-----------------------------------------------------------------------------
\* The state keeps its shape, and exactly the thread inside the critical
\* section of START_DAQ holds daqMutex_ (CommandDispatch.cpp:50).
TypeOK ==
    /\ pc \in [Actors -> PcStates]
    /\ op \in [Dispatchers -> Ops]
    /\ daqMutex \in Dispatchers \cup {Nobody}
    /\ daqRunning \in BOOLEAN
    /\ daqThread \in Threads \cup {NoThread}
    /\ run \in [Threads -> RunStates]
    /\ joiner \in [Threads -> Actors \cup {Nobody}]
    /\ globalUserStop \in BOOLEAN
    /\ socket \in {"none", "open", "shut"}
    /\ signalsCaught \in BOOLEAN
    /\ \A d \in Dispatchers : pc[d] \in StartHolds <=> daqMutex = d

\* Although STOP_DAQ joins without daqMutex_, there is never a second DAQ
\* thread, and START_DAQ re-initialises the hardware and assigns daqThread_
\* only when no DAQ thread is left: otherwise initialize() would close the
\* socket under a polling thread and the assignment would call std::terminate
\* (CommandDispatch.cpp:54-64).
SingleDaqThread ==
    /\ \A t, u \in Threads : run[t] # "none" /\ run[u] # "none" => t = u
    /\ \A d \in Dispatchers : pc[d] \in {"startInit", "startSpawn"}
                              => \A t \in Threads : run[t] = "none"

\* START_DAQ refuses only while a DAQ thread is alive: daqRunning_ never
\* stays up without one, whatever path the thread took out of run() and
\* however STOP_DAQ's join ended (CommandDispatch.cpp:52, 1152-1155).
RefusalIsJustified == daqRunning => \E t \in Threads : run[t] \in Live

\* A stop requested while the DAQ thread polls is never erased: run() clears
\* the flag only at its start, and no other thread can start meanwhile
\* (DAQManager.cpp:96, 103).
StopNotErased ==
    [][\A t \in Threads :
         run[t] = "polling" /\ run'[t] = "polling" /\ globalUserStop
         => globalUserStop']_vars

\* STOP_DAQ stops the software: a handler that has signalled the stop and
\* waits for the DAQ thread gets through (CommandDispatch.cpp:110-117).
StopReturns ==
    \A d \in Dispatchers : pc[d] \in StopStates ~> pc[d] \notin StopStates

=============================================================================
