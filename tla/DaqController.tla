------------------------------ MODULE DaqController ------------------------------
(***************************************************************************)
(* The daemon process around its links: main() of daemon/tof_daq.cpp, the  *)
(* supervising loop of GRAMS_TOF_DAQController, the journal forwarder and  *)
(* the event link they all use.  Composes EventLink; of the command client *)
(* only what the controller sees of it is kept: whether it runs, and a     *)
(* worker that executes commands and answers each with a callback (its     *)
(* details, and when its stop() does not return, are in CommandClient).    *)
(***************************************************************************)
EXTENDS EventLink

CONSTANTS Worker,   \* the worker thread of the command client
          Journal   \* the thread of the journal forwarder

ASSUME ThreadsAssumption ==
    /\ Worker \in Callers
    /\ Journal \in Telemetry

VARIABLES
    main,          \* where main() is
    loop,          \* where DAQController::run() is; "none": not joinable
    keepRunning,   \* keepRunning_
    resetWanted,   \* networkResetRequested_
    command,       \* the command client: "up", "stopping" or "down"
    alive,         \* what tof_ptr has not destroyed yet
    forwarder,     \* where the forwarder's thread is; "none": not joinable
    forwarding,    \* running_ of the forwarder
    file,          \* the FILE behind pipe_
    pipe,          \* pipe_ is not null
    child          \* journalctl

daemonVars == <<main, loop, keepRunning, resetWanted, command, alive, forwarder,
                forwarding, file, pipe, child>>
vars == <<linkVars, daemonVars>>

Init ==
    /\ LinkInit
    /\ main = "start"
    /\ loop = "none"
    /\ keepRunning = TRUE
    /\ resetWanted = FALSE
    /\ command = "down"
    /\ alive = {"dispatch", "command", "event"}
    /\ forwarder = "none"
    /\ forwarding = FALSE
    /\ file = "none"
    /\ pipe = FALSE
    /\ child = "none"

MainGoto(from, to) == main = from /\ main' = to
LoopGoto(from, to) == loop = from /\ loop' = to

-----------------------------------------------------------------------------
\* StartTofProcess and DAQController::initialize, in no-FPGA mode.

StartClients ==
    /\ MainGoto("start", "connecting")
    /\ Start
    /\ command' = "up"
    /\ UNCHANGED <<loop, keepRunning, resetWanted, alive, forwarder, forwarding,
                   file, pipe, child>>

\* There is no configuration and main() goes straight to its end, or the
\* constructor throws and main() waits for a signal with nothing to serve.
StartFails ==
    /\ main = "start"
    /\ main' \in {"exited", "unserved"}
    /\ alive' = {}
    /\ UNCHANGED <<linkVars, loop, keepRunning, resetWanted, command, forwarder,
                   forwarding, file, pipe, child>>

\* Both links are up, or five seconds are over.
SpawnRun ==
    /\ MainGoto("connecting", "forward")
    /\ loop' = "check"
    /\ UNCHANGED <<linkVars, keepRunning, resetWanted, command, alive, forwarder,
                   forwarding, file, pipe, child>>

StartForwarder ==
    /\ MainGoto("forward", "serving")
    /\ forwarding' = TRUE
    /\ forwarder' = "popen"
    /\ UNCHANGED <<linkVars, loop, keepRunning, resetWanted, command, alive, file,
                   pipe, child>>

\* sigwait returns.
Signal ==
    /\ MainGoto("serving", "signalled") \/ MainGoto("unserved", "exited")
    /\ UNCHANGED <<linkVars, loop, keepRunning, resetWanted, command, alive,
                   forwarder, forwarding, file, pipe, child>>

-----------------------------------------------------------------------------
\* The supervising loop.

\* The links are healthy and no reset is wanted: sleep 500 ms, no change.
\* Otherwise stop both: the command client may miss its heartbeat at any time,
\* and the event client is healthy as long as it runs.
Unhealthy ==
    /\ keepRunning
    /\ LoopGoto("check", "stopCommand")
    /\ UNCHANGED <<linkVars, main, keepRunning, resetWanted, command, alive,
                   forwarder, forwarding, file, pipe, child>>

\* commandClient_->stop(): the worker takes no other command, and is waited
\* for in the handler it is in.
StopCommand ==
    /\ loop \in {"stopCommand", "finalCommand"}
    /\ command = "up"
    /\ command' = "stopping"
    /\ UNCHANGED <<linkVars, main, loop, keepRunning, resetWanted, alive, forwarder,
                   forwarding, file, pipe, child>>

\* It may never return: stop() loses its wakeup, or the worker is in a STOP_DAQ
\* that waits for a DAQ thread (CommandClient and DaqLifecycle have both).
JoinCommand ==
    /\ loop \in {"stopCommand", "finalCommand"}
    /\ command = "stopping"
    /\ snd[Worker] = "idle"
    /\ \/ /\ command' = "down"
          /\ loop' = IF loop = "stopCommand" THEN "stopEvent" ELSE "finalEvent"
       \/ command' = "hung" /\ UNCHANGED loop
    /\ UNCHANGED <<linkVars, main, keepRunning, resetWanted, alive, forwarder,
                   forwarding, file, pipe, child>>

\* eventClient_->stop().
StopEvent ==
    /\ loop \in {"stopEvent", "finalEvent"}
    /\ \/ StopFlag \/ StopShut
       \/ StopJoin
    /\ loop' = IF ctl' # "down" THEN loop
               ELSE IF loop = "stopEvent" THEN "startCommand" ELSE "done"
    /\ UNCHANGED <<main, keepRunning, resetWanted, command, alive, forwarder,
                   forwarding, file, pipe, child>>

StartCommand ==
    /\ LoopGoto("startCommand", "startEvent")
    /\ command' = "up"
    /\ UNCHANGED <<linkVars, main, keepRunning, resetWanted, alive, forwarder,
                   forwarding, file, pipe, child>>

\* Mutated form of StartEvent: only the command link is restarted.
StartEventNot ==
    /\ LoopGoto("startEvent", "clear")
    /\ UNCHANGED <<linkVars, main, keepRunning, resetWanted, command, alive,
                   forwarder, forwarding, file, pipe, child>>

StartEvent ==
    /\ LoopGoto("startEvent", "clear")
    /\ Start
    /\ UNCHANGED <<main, keepRunning, resetWanted, command, alive, forwarder,
                   forwarding, file, pipe, child>>

ClearRequest ==
    /\ LoopGoto("clear", "check")
    /\ resetWanted' = FALSE
    /\ UNCHANGED <<linkVars, main, keepRunning, command, alive, forwarder,
                   forwarding, file, pipe, child>>

\* Mutated form of LeaveLoop: the loop goes round once more and is not left.
LeaveLoopNot ==
    /\ ~keepRunning
    /\ LoopGoto("check", "stopCommand")
    /\ UNCHANGED <<linkVars, main, keepRunning, resetWanted, command, alive,
                   forwarder, forwarding, file, pipe, child>>

LeaveLoop ==
    /\ ~keepRunning
    /\ LoopGoto("check", "finalCommand")
    /\ UNCHANGED <<linkVars, main, keepRunning, resetWanted, command, alive,
                   forwarder, forwarding, file, pipe, child>>

-----------------------------------------------------------------------------
\* The threads that report.

\* The worker executes a command, RECONNECT_NETWORK or another, and answers.
Execute(isReconnect) ==
    /\ command = "up"
    /\ Begin(Worker)
    /\ resetWanted' = (resetWanted \/ isReconnect)
    /\ UNCHANGED <<threadVars, connVars, mutex, main, loop, keepRunning, command,
                   alive, forwarder, forwarding, file, pipe, child>>

\* The monitor thread reports the end of a task, the macro thread that of a
\* command of its sequence.
Report(s) ==
    /\ s \notin {Worker, Journal}
    /\ "dispatch" \in alive /\ main # "start"
    /\ Begin(s)
    /\ UNCHANGED <<threadVars, connVars, mutex, daemonVars>>

-----------------------------------------------------------------------------
\* The journal forwarder's thread.

Popen ==
    /\ forwarder = "popen"
    /\ \/ /\ forwarder' = "test"
          /\ file' = "open" /\ pipe' = TRUE /\ child' = "running"
       \/ /\ forwarder' = "done"
          /\ UNCHANGED <<file, pipe, child>>
    /\ UNCHANGED <<linkVars, main, loop, keepRunning, resetWanted, command, alive,
                   forwarding>>

ForwarderTest ==
    /\ forwarder = "test"
    /\ forwarder' = IF forwarding THEN "enter" ELSE "close"
    /\ UNCHANGED <<linkVars, main, loop, keepRunning, resetWanted, command, alive,
                   forwarding, file, pipe, child>>

\* fgets takes the lock of the stream.  If main() has closed it since, that is
\* undefined: the process dies or nothing is read.
ForwarderReads ==
    /\ forwarder = "enter"
    /\ \/ file = "open" /\ forwarder' = "fgets" /\ UNCHANGED main
       \/ /\ file = "closed"
          /\ forwarder' = "close"
          /\ UNCHANGED main \/ main' = "crashed"
    /\ UNCHANGED <<linkVars, loop, keepRunning, resetWanted, command, alive,
                   forwarding, file, pipe, child>>

\* fgets returns a line.  Without a connection, or if it is empty, the line is
\* dropped.
Line ==
    /\ forwarder = "fgets"
    /\ child = "running"
    /\ \/ /\ mutex = Nobody /\ hub # "null"
          /\ Begin(Journal)
          /\ forwarder' = "send"
       \/ /\ forwarder' = "test"
          /\ UNCHANGED sendVars
    /\ UNCHANGED <<threadVars, connVars, mutex, main, loop, keepRunning,
                   resetWanted, command, alive, forwarding, file, pipe, child>>

LineSent ==
    /\ forwarder = "send"
    /\ snd[Journal] = "idle"
    /\ forwarder' = "test"
    /\ UNCHANGED <<linkVars, main, loop, keepRunning, resetWanted, command, alive,
                   forwarding, file, pipe, child>>

\* journalctl has ended.
EndOfFile ==
    /\ forwarder = "fgets"
    /\ child = "gone"
    /\ forwarder' = "close"
    /\ UNCHANGED <<linkVars, main, loop, keepRunning, resetWanted, command, alive,
                   forwarding, file, pipe, child>>

\* pclose, first half: close the stream.  Closing it a second time is
\* undefined; the process dies or nothing happens.
ClosePipe ==
    \/ file = "open" /\ file' = "closed" /\ UNCHANGED main
    \/ file = "closed" /\ UNCHANGED file /\ (UNCHANGED main \/ main' = "crashed")

ForwarderClose ==
    /\ forwarder = "close"
    /\ IF pipe
       THEN ClosePipe /\ forwarder' = "wait"
       ELSE forwarder' = "done" /\ UNCHANGED <<file, main>>
    /\ UNCHANGED <<linkVars, loop, keepRunning, resetWanted, command, alive,
                   forwarding, pipe, child>>

\* pclose, second half: wait for the child.
ForwarderWait ==
    /\ forwarder = "wait"
    /\ child = "gone"
    /\ forwarder' = "done"
    /\ pipe' = FALSE
    /\ UNCHANGED <<linkVars, main, loop, keepRunning, resetWanted, command, alive,
                   forwarding, file, child>>

\* journalctl ends when it likes, or never: it inherits the blocked signals.
ChildEnds ==
    /\ child = "running"
    /\ child' = "gone"
    /\ UNCHANGED <<linkVars, main, loop, keepRunning, resetWanted, command, alive,
                   forwarder, forwarding, file, pipe>>

-----------------------------------------------------------------------------
\* The shutdown in main().

\* JournalLogForwarder::stop().
ForwarderStop ==
    /\ main = "signalled"
    /\ forwarding' = FALSE
    /\ main' = IF pipe THEN "pclose" ELSE "joinForwarder"
    /\ UNCHANGED <<linkVars, loop, keepRunning, resetWanted, command, alive,
                   forwarder, file, pipe, child>>

\* The lock of the stream is held by the reader while it waits for a line.
MainPclose ==
    /\ main = "pclose"
    /\ forwarder # "fgets"
    /\ \/ file = "open" /\ file' = "closed" /\ main' = "waitChild"
       \/ file = "closed" /\ UNCHANGED file /\ main' \in {"waitChild", "crashed"}
    /\ UNCHANGED <<linkVars, loop, keepRunning, resetWanted, command, alive,
                   forwarder, forwarding, pipe, child>>

MainWaitChild ==
    /\ MainGoto("waitChild", "joinForwarder")
    /\ child = "gone"
    /\ pipe' = FALSE
    /\ UNCHANGED <<linkVars, loop, keepRunning, resetWanted, command, alive,
                   forwarder, forwarding, file, child>>

JoinForwarder ==
    /\ MainGoto("joinForwarder", "stopController")
    /\ forwarder = "done"
    /\ forwarder' = "none"
    /\ UNCHANGED <<linkVars, loop, keepRunning, resetWanted, command, alive,
                   forwarding, file, pipe, child>>

StopController ==
    /\ MainGoto("stopController", "joinRun")
    /\ keepRunning' = FALSE
    /\ UNCHANGED <<linkVars, loop, resetWanted, command, alive, forwarder,
                   forwarding, file, pipe, child>>

\* Mutated form of JoinRun: the timeout of WaitForThreadJoin works.
JoinRunTimeout ==
    /\ MainGoto("joinRun", "destroyDispatch")
    /\ loop' = IF loop = "done" THEN "none" ELSE loop
    /\ UNCHANGED <<linkVars, keepRunning, resetWanted, command, alive, forwarder,
                   forwarding, file, pipe, child>>

\* WaitForThreadJoin gives up after five seconds, but destroying the future of
\* std::async waits for the join all the same.
JoinRun ==
    /\ MainGoto("joinRun", "destroyDispatch")
    /\ loop = "done"
    /\ loop' = "none"
    /\ UNCHANGED <<linkVars, keepRunning, resetWanted, command, alive, forwarder,
                   forwarding, file, pipe, child>>

\* tof_ptr.reset(): the members go in the reverse order of their declaration.
\* The dispatcher joins the macro, the monitor and the DAQ thread, of which the
\* first may be in a macro that goes on and the last in a run that nobody
\* stops (MacroEngine and DaqLifecycle have that).
DestroyDispatch ==
    /\ main = "destroyDispatch"
    /\ \/ /\ \A s \in Senders \ {Worker, Journal} : snd[s] = "idle"
          /\ main' = "destroyCommand"
          /\ alive' = alive \ {"dispatch"}
       \/ main' = "stuck" /\ UNCHANGED alive
    /\ UNCHANGED <<linkVars, loop, keepRunning, resetWanted, command, forwarder,
                   forwarding, file, pipe, child>>

\* The clients have been stopped: their stop() returns at once.
DestroyCommand ==
    /\ MainGoto("destroyCommand", "destroyEvent")
    /\ alive' = alive \ {"command"}
    /\ UNCHANGED <<linkVars, loop, keepRunning, resetWanted, command, forwarder,
                   forwarding, file, pipe, child>>

DestroyEvent ==
    /\ MainGoto("destroyEvent", "exited")
    /\ alive' = alive \ {"event"}
    /\ hub' = "null"
    /\ DropLink
    /\ UNCHANGED <<threadVars, mutex, sendVars, loop, keepRunning, resetWanted,
                   command, forwarder, forwarding, file, pipe, child>>

-----------------------------------------------------------------------------
LoopNext ==
    \/ StopCommand \/ JoinCommand \/ StopEvent \/ StartCommand \/ StartEvent
    \/ ClearRequest \/ LeaveLoop

MainNext ==
    \/ StartClients \/ StartFails \/ SpawnRun \/ StartForwarder
    \/ ForwarderStop \/ MainPclose \/ MainWaitChild \/ JoinForwarder
    \/ StopController \/ JoinRun
    \/ DestroyDispatch \/ DestroyCommand \/ DestroyEvent

ForwarderNext ==
    \/ Popen \/ ForwarderTest \/ ForwarderReads \/ LineSent \/ EndOfFile \/ ForwarderClose
    \/ ForwarderWait

Running == main # "crashed"

Next ==
    /\ Running
    /\ \/ LinkNext /\ UNCHANGED daemonVars
       \/ MainNext
       \/ Signal
       \/ Unhealthy
       \/ LoopNext
       \/ \E isReconnect \in BOOLEAN : Execute(isReconnect)
       \/ \E s \in Senders : Report(s)
       \/ ForwarderNext
       \/ Line
       \/ ChildEnds

Spec == Init /\ [][Next]_vars

\* The threads run on.  A thread that waits for connectionMutex_ gets it in the
\* end although senders take it again and again (they are seconds apart):
\* strong fairness of the connection thread, the supervising loop and the
\* senders.  connect() returns.  The hub, heartbeats, signals, journalctl and
\* its lines, commands and reports owe nothing.
Fairness ==
    /\ WF_vars(MainNext)
    /\ SF_vars(LoopNext \/ (resetWanted /\ Unhealthy))
    /\ WF_vars(ForwarderNext)
    /\ SF_vars(RunStep /\ UNCHANGED daemonVars)
    /\ \A s \in {Worker, Journal} : SF_vars(SendStep(s) /\ UNCHANGED daemonVars)
    /\ \A s \in Senders \ {Worker, Journal} :
         WF_vars(SendStep(s) /\ UNCHANGED daemonVars)

FairSpec == Spec /\ Fairness

-----------------------------------------------------------------------------
\* The shape of the state.
TypeOK ==
    /\ LinkTypeOK
    /\ main \in {"start", "connecting", "forward", "serving", "unserved", "signalled",
                 "pclose", "waitChild", "joinForwarder", "stopController",
                 "joinRun", "destroyDispatch", "destroyCommand", "destroyEvent",
                 "exited", "stuck", "crashed"}
    /\ loop \in {"none", "check", "stopCommand", "stopEvent", "startCommand",
                 "startEvent", "clear", "finalCommand", "finalEvent", "done"}
    /\ keepRunning \in BOOLEAN /\ resetWanted \in BOOLEAN
    /\ command \in {"up", "stopping", "down", "hung"}
    /\ alive \subseteq {"dispatch", "command", "event"}
    /\ forwarder \in {"none", "popen", "test", "enter", "fgets", "send", "close",
                      "wait", "done"}
    /\ forwarding \in BOOLEAN /\ pipe \in BOOLEAN
    /\ file \in {"none", "open", "closed"}
    /\ child \in {"none", "running", "gone"}

\* No thread uses the event client or the dispatcher after tof_ptr has
\* destroyed it: the worker, the forwarder, the connection thread, the
\* supervising loop and the threads of the dispatcher have all been joined by
\* then, although the join has a timeout (tof_daq.cpp:171-179, 224-236,
\* 284-289).  Before that, the connection object whose address the connection
\* thread took under connectionMutex_ and uses after the unlock is still there,
\* and the object a thread is sending through is neither destroyed nor closed
\* through its closeFD (EventClient.cpp:234-266).  Its descriptor may be: see
\* RunEnd.
NoUseAfterDestroy ==
    /\ "dispatch" \notin alive => /\ command = "down" /\ loop = "none"
                                  /\ \A s \in Senders : snd[s] = "idle"
    /\ "event" \notin alive => run = "none" /\ forwarder = "none"
    /\ run \in {"recv", "close"} => hub # "null"
    /\ \A s \in Senders : snd[s] = "sending" => hub = "open"

\* A RECONNECT_NETWORK that is pending when the loop looks at the links is
\* followed by a reset after which both clients are running again, although
\* links fail and threads send meanwhile (DAQController.cpp:126-149), unless the
\* process is told to stop or the stop() of the command client does not return
\* (CommandClient.cpp:48-54, CommandDispatch.cpp:115).
ReconnectHappens ==
    (resetWanted /\ loop = "check")
    ~> \/ ~keepRunning
       \/ command = "hung"
       \/ /\ loop = "check" /\ ~resetWanted
          /\ command = "up" /\ running /\ run # "none"

\* Once signalled, the daemon comes to its end if journalctl does, although the
\* forwarder's thread, the links and the sends under way have to be waited for;
\* unless the stop() of the command client never returns, or the destructor of
\* the dispatcher (CommandClient.cpp:48-54, CommandDispatch.cpp:115, 1119-1135).
ShutdownEnds ==
    (/\ main \in {"signalled", "pclose", "waitChild", "joinForwarder"}
     /\ child = "gone" \/ forwarder = "done")
    ~> main \in {"exited", "crashed", "stuck"} \/ command = "hung"

=============================================================================
