---------------------------- MODULE BackgroundTasks ----------------------------
(***************************************************************************)
(* The registry of background processes of GRAMS_TOF_CommandDispatch       *)
(* (activeBackgroundTasks_, guarded by pidMutex_) and everything that      *)
(* touches it: executeManagedBackground (fork, then register), the monitor *)
(* thread (waitpid, completion callback, status callback, erase), the part *)
(* of STOP_DAQ that interrupts every registered task, the ASIC temperature *)
(* recording thread, and the shutdown of the monitor by the destructor.    *)
(*                                                                         *)
(* A pid is used for one process only: handing a pid out again needs a     *)
(* full wrap of the kernel's pid counter.  So the contents of a registry   *)
(* entry are a function of its pid, kept in kind[p].                       *)
(***************************************************************************)
EXTENDS Naturals, Sequences

CONSTANTS Pids,         \* the process ids the kernel can hand out
          Dispatchers,  \* threads that run command handlers: the command
                        \* client's worker and the macro thread
          Recorders,    \* the ASIC temperature recording thread
          Monitor,      \* monitorThread_
          NoPid,        \* the result of a failed fork
          Nobody        \* pidMutex_ is free

Threads == Dispatchers \cup Recorders

ASSUME ThreadsAssumption ==
    /\ Dispatchers \cap Recorders = {}
    /\ Monitor \notin Threads
    /\ Nobody \notin Threads \cup {Monitor}
    /\ NoPid \notin Pids

VARIABLES
    pc,          \* where each thread is in its handler
    mine,        \* the pid a thread's last fork returned
    todo,        \* pids the holder of pidMutex_ has still to visit
    owner,       \* the holder of pidMutex_
    registry,    \* the keys of activeBackgroundTasks_
    kind,        \* the entry of a pid: commandCode and sendCallback
    proc,        \* the process behind a pid
    reaped,      \* pids a waitpid has collected
    signalled,   \* pids that were sent SIGTERM
    sent,        \* the status callbacks sent for a pid, in order
    linked,      \* pids whose output postCompletionCallback published
    monitorRunning

vars == <<pc, mine, todo, owner, registry, kind, proc, reaped, signalled,
          sent, linked, monitorRunning>>

\* command: code of the command, sendCallback = true, a completion callback.
\* record:  READ_TEMPERATURE_SENSORS, sendCallback = false, no callback.
\* stop:    STOP_DAQ, sendCallback = true (the default), no callback.
Kinds == {"command", "record", "stop"}

\* sendStatusCallback: 0 = Success, 1 = Fail, 2 = Interrupted
Success == 0
Fail == 1
Interrupted == 2
Status == {Success, Fail, Interrupted}

Init ==
    /\ pc = [t \in Threads |-> "idle"]
    /\ mine = [t \in Threads |-> NoPid]
    /\ todo = {}
    /\ owner = Nobody
    /\ registry = {}
    /\ kind = [p \in Pids |-> "none"]
    /\ proc = [p \in Pids |-> "unborn"]
    /\ reaped = {}
    /\ signalled = {}
    /\ sent = [p \in Pids |-> <<>>]
    /\ linked = {}
    /\ monitorRunning = TRUE

-----------------------------------------------------------------------------
\* The operating system: fork, exit, kill and waitpid.

Spawn(t, p, k) ==
    /\ proc[p] = "unborn"
    /\ proc' = [proc EXCEPT ![p] = "running"]
    /\ kind' = [kind EXCEPT ![p] = k]
    /\ mine' = [mine EXCEPT ![t] = p]

\* A script ends on its own or because of a SIGTERM.  A signalled script may
\* still reach its own exit first, so both results stay possible.
Exit(p) ==
    /\ proc[p] = "running"
    /\ \E result \in {"ok", "bad"} : proc' = [proc EXCEPT ![p] = result]
    /\ UNCHANGED <<pc, mine, todo, owner, registry, kind, reaped, signalled,
                   sent, linked, monitorRunning>>

\* sendStatusCallback(code of p, status)
Report(p, status) == sent' = [sent EXCEPT ![p] = Append(@, status)]

-----------------------------------------------------------------------------
\* executeManagedBackground: fork, then register under pidMutex_.

\* Dispatchers run commands until the destructor has joined them; the
\* recording thread is joined last and may launch after that.
MayLaunch(t, k) ==
    \/ t \in Dispatchers /\ k = "command" /\ monitorRunning
    \/ t \in Recorders /\ k = "record"

Fork(t, p, k) ==
    /\ pc[t] = "idle"
    /\ MayLaunch(t, k)
    /\ Spawn(t, p, k)
    /\ pc' = [pc EXCEPT ![t] = "forked"]
    /\ UNCHANGED <<todo, owner, registry, reaped, signalled, sent, linked,
                   monitorRunning>>

Register(t) ==
    /\ pc[t] = "forked"
    /\ owner = Nobody
    /\ registry' = registry \cup {mine[t]}
    /\ pc' = [pc EXCEPT ![t] = "idle"]
    /\ UNCHANGED <<mine, todo, owner, kind, proc, reaped, signalled, sent,
                   linked, monitorRunning>>

-----------------------------------------------------------------------------
\* STOP_DAQ, steps 1 and 2.

\* The stop script is forked first; a fork that fails leaves no pid and
\* skips the registration.
StopFork(t) ==
    /\ pc[t] = "idle"
    /\ t \in Dispatchers
    /\ monitorRunning
    /\ \/ /\ \E p \in Pids : Spawn(t, p, "stop")
          /\ pc' = [pc EXCEPT ![t] = "stopForked"]
       \/ /\ mine' = [mine EXCEPT ![t] = NoPid]
          /\ pc' = [pc EXCEPT ![t] = "stopWait"]
          /\ UNCHANGED <<kind, proc>>
    /\ UNCHANGED <<todo, owner, registry, reaped, signalled, sent, linked,
                   monitorRunning>>

StopRegister(t) ==
    /\ pc[t] = "stopForked"
    /\ owner = Nobody
    /\ registry' = registry \cup {mine[t]}
    /\ pc' = [pc EXCEPT ![t] = "stopWait"]
    /\ UNCHANGED <<mine, todo, owner, kind, proc, reaped, signalled, sent,
                   linked, monitorRunning>>

\* Mutated form of StopLock: the sweep does not take pidMutex_ first.
StopLockUnguarded(t) ==
    /\ pc[t] = "stopWait"
    /\ owner' = t
    /\ todo' = registry \ {mine[t]}
    /\ pc' = [pc EXCEPT ![t] = "stopKill"]
    /\ UNCHANGED <<mine, registry, kind, proc, reaped, signalled, sent,
                   linked, monitorRunning>>

\* pidMutex_ is released between the registration and the sweep.
StopLock(t) ==
    /\ pc[t] = "stopWait"
    /\ owner = Nobody
    /\ owner' = t
    /\ todo' = registry \ {mine[t]}
    /\ pc' = [pc EXCEPT ![t] = "stopKill"]
    /\ UNCHANGED <<mine, registry, kind, proc, reaped, signalled, sent,
                   linked, monitorRunning>>

\* Mutated form of StopKill: the interrupted task is not reported.
StopKillSilent(t, p) ==
    /\ pc[t] = "stopKill"
    /\ p \in todo
    /\ signalled' = signalled \cup {p}
    /\ todo' = todo \ {p}
    /\ UNCHANGED <<pc, mine, owner, registry, kind, proc, reaped, sent, linked,
                   monitorRunning>>

\* kill(b_pid, SIGTERM); sendStatusCallback(task.commandCode, 2), whatever
\* the entry's sendCallback says.
StopKill(t, p) ==
    /\ pc[t] = "stopKill"
    /\ p \in todo
    /\ signalled' = signalled \cup {p}
    /\ Report(p, Interrupted)
    /\ todo' = todo \ {p}
    /\ UNCHANGED <<pc, mine, owner, registry, kind, proc, reaped, linked,
                   monitorRunning>>

\* Mutated form of StopClear: activeBackgroundTasks_.clear() is missing.
StopClearKeeps(t) ==
    /\ pc[t] = "stopKill"
    /\ todo = {}
    /\ owner' = Nobody
    /\ pc' = [pc EXCEPT ![t] = "idle"]
    /\ UNCHANGED <<mine, todo, registry, kind, proc, reaped, signalled, sent,
                   linked, monitorRunning>>

\* The whole map is cleared, then the stop script is put back.
StopClear(t) ==
    /\ pc[t] = "stopKill"
    /\ todo = {}
    /\ registry' = {mine[t]} \ {NoPid}
    /\ owner' = Nobody
    /\ pc' = [pc EXCEPT ![t] = "idle"]
    /\ UNCHANGED <<mine, todo, kind, proc, reaped, signalled, sent, linked,
                   monitorRunning>>

-----------------------------------------------------------------------------
\* runMonitorThread: one pass over the registry with pidMutex_ held.

MonitorLock ==
    /\ monitorRunning
    /\ owner = Nobody
    /\ owner' = Monitor
    /\ todo' = registry
    /\ UNCHANGED <<pc, mine, registry, kind, proc, reaped, signalled, sent,
                   linked, monitorRunning>>

\* Mutated form of MonitorReap: postCompletionCallback ignores success.
MonitorReapLinksAll(p) ==
    /\ owner = Monitor
    /\ p \in todo
    /\ proc[p] \in {"ok", "bad"} /\ p \notin reaped
    /\ reaped' = reaped \cup {p}
    /\ linked' = linked \cup {p}
    /\ Report(p, IF proc[p] = "ok" THEN Success ELSE Fail)
    /\ registry' = registry \ {p}
    /\ todo' = todo \ {p}
    /\ UNCHANGED <<pc, mine, owner, kind, proc, signalled, monitorRunning>>

\* Mutated form of MonitorReap: a silent task is collected but not erased.
MonitorReapKeepsSilent(p) ==
    /\ owner = Monitor
    /\ p \in todo
    /\ proc[p] \in {"ok", "bad"} /\ p \notin reaped
    /\ reaped' = reaped \cup {p}
    /\ registry' = IF kind[p] = "record" THEN registry ELSE registry \ {p}
    /\ todo' = todo \ {p}
    /\ UNCHANGED <<pc, mine, owner, kind, proc, signalled, sent, linked,
                   monitorRunning>>

\* waitpid(p, WNOHANG) > 0: collect, publish the output of a command that
\* succeeded, report if the entry asks for it, erase.
MonitorReap(p) ==
    /\ owner = Monitor
    /\ p \in todo
    /\ proc[p] \in {"ok", "bad"} /\ p \notin reaped
    /\ reaped' = reaped \cup {p}
    /\ linked' = IF kind[p] = "command" /\ proc[p] = "ok"
                 THEN linked \cup {p} ELSE linked
    /\ IF kind[p] = "record"
       THEN UNCHANGED sent
       ELSE Report(p, IF proc[p] = "ok" THEN Success ELSE Fail)
    /\ registry' = registry \ {p}
    /\ todo' = todo \ {p}
    /\ UNCHANGED <<pc, mine, owner, kind, proc, signalled, monitorRunning>>

\* Mutated form of MonitorForget: the test is waitpid(...) <= 0.
MonitorForgetRunning(p) ==
    /\ owner = Monitor
    /\ p \in todo
    /\ p \in reaped \/ proc[p] = "running"
    /\ registry' = registry \ {p}
    /\ todo' = todo \ {p}
    /\ UNCHANGED <<pc, mine, owner, kind, proc, reaped, signalled, sent,
                   linked, monitorRunning>>

\* waitpid returns -1 (no such child): erase without a word.
MonitorForget(p) ==
    /\ owner = Monitor
    /\ p \in todo
    /\ p \in reaped
    /\ registry' = registry \ {p}
    /\ todo' = todo \ {p}
    /\ UNCHANGED <<pc, mine, owner, kind, proc, reaped, signalled, sent,
                   linked, monitorRunning>>

\* waitpid returns 0 (still running): next entry.
MonitorSkip(p) ==
    /\ owner = Monitor
    /\ p \in todo
    /\ proc[p] = "running"
    /\ todo' = todo \ {p}
    /\ UNCHANGED <<pc, mine, owner, registry, kind, proc, reaped, signalled,
                   sent, linked, monitorRunning>>

MonitorUnlock ==
    /\ owner = Monitor
    /\ todo = {}
    /\ owner' = Nobody
    /\ UNCHANGED <<pc, mine, todo, registry, kind, proc, reaped, signalled,
                   sent, linked, monitorRunning>>

\* The destructor, once the dispatching threads are joined: no further pass.
StopMonitor ==
    /\ monitorRunning
    /\ \A t \in Dispatchers : pc[t] = "idle"
    /\ monitorRunning' = FALSE
    /\ UNCHANGED <<pc, mine, todo, owner, registry, kind, proc, reaped,
                   signalled, sent, linked>>

-----------------------------------------------------------------------------
MonitorNext ==
    \/ MonitorLock
    \/ \E p \in Pids : MonitorReap(p) \/ MonitorForget(p) \/ MonitorSkip(p)
    \/ MonitorUnlock

StopNext(t) ==
    \/ StopFork(t)
    \/ StopRegister(t)
    \/ StopLock(t)
    \/ \E p \in Pids : StopKill(t, p)
    \/ StopClear(t)

Next ==
    \/ \E t \in Threads, p \in Pids, k \in {"command", "record"} : Fork(t, p, k)
    \/ \E t \in Threads : Register(t)
    \/ \E t \in Dispatchers : StopNext(t)
    \/ MonitorNext
    \/ StopMonitor
    \/ \E p \in Pids : Exit(p)

Spec == Init /\ [][Next]_vars

\* The steps that take pidMutex_, and those a thread takes inside its section.
LockStep(t) ==
    Register(t) \/ (t \in Dispatchers /\ (StopRegister(t) \/ StopLock(t)))

StopSection(t) == StopClear(t) \/ \E p \in Pids : StopKill(t, p)

MonitorSection ==
    MonitorUnlock \/ \E p \in Pids : MonitorReap(p) \/ MonitorForget(p) \/ MonitorSkip(p)

(***************************************************************************)
(* Fairness.  Inside a critical section a thread runs on (weak).  A thread *)
(* that waits for pidMutex_ gets it although others keep taking it in      *)
(* between (strong): the monitor sleeps a second between passes, and the   *)
(* other sections are short.  Scripts end: each is started with a duration *)
(* or a fixed amount of work.  Nobody has to launch, to stop or to quit.   *)
(***************************************************************************)
Fairness ==
    /\ SF_vars(MonitorLock)
    /\ WF_vars(MonitorSection)
    /\ WF_vars(\E p \in Pids : Exit(p))
    /\ \A t \in Threads : SF_vars(LockStep(t))
    /\ \A t \in Dispatchers : WF_vars(StopSection(t))

FairSpec == Spec /\ Fairness

-----------------------------------------------------------------------------
\* The shape of the state; of it, only that pidMutex_ is held exactly by a
\* thread inside its sweep or by the monitor inside its pass.
TypeOK ==
    /\ pc \in [Threads -> {"idle", "forked", "stopForked", "stopWait", "stopKill"}]
    /\ mine \in [Threads -> Pids \cup {NoPid}]
    /\ todo \in SUBSET Pids
    /\ owner \in Threads \cup {Monitor, Nobody}
    /\ \A t \in Threads : owner = t <=> pc[t] = "stopKill"
    /\ registry \in SUBSET Pids
    /\ kind \in [Pids -> Kinds \cup {"none"}]
    /\ proc \in [Pids -> {"unborn", "running", "ok", "bad"}]
    /\ reaped \in SUBSET Pids
    /\ signalled \in SUBSET Pids
    /\ sent \in [Pids -> Seq(Status)]
    /\ linked \in SUBSET Pids
    /\ monitorRunning \in BOOLEAN

\* A background task is reported to the ground at most once, although the
\* monitor thread and any number of STOP_DAQ sweeps compete to report it.
\* (The stop script itself is registered twice by its STOP_DAQ and is outside
\* this guarantee.)
AtMostOneReport ==
    \A p \in Pids : kind[p] # "stop" => Len(sent[p]) <= 1

\* A reported status tells what happened: 0 and 1 are the exit status the
\* monitor's waitpid collected, 2 follows a SIGTERM from a sweep.  And the
\* output of a command is published by postCompletionCallback exactly if the
\* ground is told of its success and nothing else: an interrupted run is never
\* linked into the original directory.
ReportIsTrue ==
    \A p \in Pids :
        /\ \A i \in 1..Len(sent[p]) :
              /\ sent[p][i] = Success => p \in reaped /\ proc[p] = "ok"
              /\ sent[p][i] = Fail => p \in reaped /\ proc[p] = "bad"
              /\ sent[p][i] = Interrupted => p \in signalled
        /\ kind[p] = "command" => (p \in linked <=> sent[p] = <<Success>>)

\* A child that nobody will wait for has been interrupted by a STOP_DAQ: the
\* registry never loses a task that runs on.
NoLostChild ==
    \A p \in Pids :
        \/ proc[p] = "unborn"
        \/ p \in registry \cup reaped \cup signalled
        \/ \E t \in Threads : mine[t] = p /\ pc[t] \in {"forked", "stopForked"}

\* STOP_DAQ never sends SIGTERM to the pid of a task that was already
\* collected, a pid the kernel may have given to another process.  (Not so
\* for a stop script, which a STOP_DAQ may put back after it was collected.)
NoSignalAfterReap ==
    [][\A p \in Pids : p \in signalled' \ signalled /\ kind[p] # "stop"
                       => p \notin reaped]_vars

\* Every registered command is reported in the end (by the monitor or by a
\* STOP_DAQ), unless the dispatcher is destroyed first.
EveryTaskReported ==
    \A p \in Pids : (p \in registry /\ kind[p] = "command")
                    ~> (sent[p] # <<>> \/ ~monitorRunning)

=============================================================================
