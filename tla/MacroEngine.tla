------------------------------ MODULE MacroEngine ------------------------------
(***************************************************************************)
(* The macro engine of GRAMS_TOF_CommandDispatch: the flag                 *)
(* macroLoopRunning_, the thread macroLoopThread_, executeMacroSequence    *)
(* and executeMacroLoop, against the commands an operator sends meanwhile  *)
(* on the worker thread: further macros, STOP_DAQ, RESET_DAQ, background   *)
(* commands, temperature recording, and the destructor.                    *)
(*                                                                         *)
(* Background processes are a set of <<code, launcher>> (BackgroundTasks   *)
(* is their detailed model); whether a step succeeds is a free choice.     *)
(***************************************************************************)
EXTENDS Naturals, Sequences

CONSTANTS Macros,         \* the macro commands the operator may send
          OperatorCodes,  \* the background commands the operator may send
          CycleLimits,    \* arguments of MACRO_AUTO_RUN_CYCLE (0: unlimited)
          NoMacro

ASSUME CycleLimitsAssumption == CycleLimits \subseteq Nat

\* The command sequences, as the handlers pass them.  Apart from arguments and
\* the points SpawnMacro notes the handlers are alike, so a sequence stands for
\* its handler.
ThermalCalib ==
    << "READ_TEMPERATURE_SENSORS", "ACQUIRE_THRESHOLD_CALIBRATION_BN",
       "ACQUIRE_THRESHOLD_CALIBRATION_D", "PROCESS_THRESHOLD_CALIBRATION",
       "MAKE_SIMPLE_DISC_SET_TABLE", "ACQUIRE_TDC_CALIBRATION",
       "ACQUIRE_QDC_CALIBRATION", "PROCESS_TDC_CALIBRATION",
       "PROCESS_QDC_CALIBRATION" >>

AutoRun ==
    << "RESET_DAQ", "READ_TEMPERATURE_SENSORS", "ACQUIRE_THRESHOLD_CALIBRATION_BN",
       "PROCESS_THRESHOLD_CALIBRATION", "MAKE_SIMPLE_DISC_SET_TABLE",
       "ACQUIRE_SIPM_DATA", "CONVERT_RAW_TO_RAW", "CONVERT_STG1_TO_STG2",
       "PROCESS_QA_COIN", "PROCESS_QA_IRIDIUM" >>

Stage0 ==
    << "RESET_DAQ", "READ_TEMPERATURE_SENSORS", "ACQUIRE_THRESHOLD_CALIBRATION_BN",
       "PROCESS_THRESHOLD_CALIBRATION", "MAKE_SIMPLE_DISC_SET_TABLE",
       "READ_TEMPERATURE_SENSORS_SINGLE" >>

Stage1 ==
    << "RESET_DAQ", "READ_TEMPERATURE_SENSORS_SINGLE", "ACQUIRE_TDC_CALIBRATION",
       "PROCESS_TDC_CALIBRATION", "READ_TEMPERATURE_SENSORS_SINGLE" >>

Stage2 ==
    << "RESET_DAQ", "READ_TEMPERATURE_SENSORS_SINGLE", "ACQUIRE_QDC_CALIBRATION",
       "PROCESS_QDC_CALIBRATION", "READ_TEMPERATURE_SENSORS_SINGLE" >>

Stage3 ==
    << "RESET_DAQ", "READ_TEMPERATURE_SENSORS_SINGLE",
       "ACQUIRE_THRESHOLD_CALIBRATION_D", "START_ASIC_TEMP_RECORD",
       "ACQUIRE_SIPM_DATA", "SEND_PULSE_TRAIN", "STOP_ASIC_TEMP_RECORD",
       "CONVERT_RAW_TO_RAW", "CONVERT_STG1_TO_STG2", "PROCESS_QA_IRIDIUM",
       "READ_TEMPERATURE_SENSORS_SINGLE" >>

AutoRunCycle ==
    << "RESET_DAQ", "READ_TEMPERATURE_SENSORS", "ACQUIRE_THRESHOLD_CALIBRATION_D",
       "ACQUIRE_SIPM_DATA", "CONVERT_RAW_TO_RAW", "CONVERT_STG1_TO_STG2",
       "PROCESS_QA_COIN", "PROCESS_QA_IRIDIUM" >>

Cyclic == "MACRO_AUTO_RUN_CYCLE"
StartRecord == "START_ASIC_TEMP_RECORD"
StopRecord == "STOP_ASIC_TEMP_RECORD"

SequenceOf ==
    [ MACRO_THERMAL_CALIB |-> ThermalCalib,
      MACRO_AUTO_RUN_SEQUENCE |-> AutoRun,
      MACRO_STAGE0_PREBREAKDOWN_BN |-> Stage0,
      MACRO_STAGE1_UNBIASED_TDC |-> Stage1,
      MACRO_STAGE2_PREBREAKDOWN_QDC |-> Stage2,
      MACRO_STAGE3_OPERATIONAL_D |-> Stage3,
      MACRO_AUTO_RUN_CYCLE |-> AutoRunCycle ]

\* The commands whose handler ends in executeManagedBackground; the scripts
\* and arguments they pass are not told apart.
Background ==
    { "READ_TEMPERATURE_SENSORS", "READ_TEMPERATURE_SENSORS_SINGLE",
      "ACQUIRE_THRESHOLD_CALIBRATION", "ACQUIRE_THRESHOLD_CALIBRATION_BN",
      "ACQUIRE_THRESHOLD_CALIBRATION_D", "ACQUIRE_QDC_CALIBRATION",
      "ACQUIRE_TDC_CALIBRATION", "ACQUIRE_SIPM_DATA" }

ASSUME MacrosAssumption ==
    Macros \subseteq DOMAIN SequenceOf /\ NoMacro \notin DOMAIN SequenceOf
    /\ OperatorCodes \subseteq Background

VARIABLES
    flag,       \* macroLoopRunning_
    thread,     \* macroLoopThread_: "none" (not joinable), "live", "done"
    macro,      \* the macro the thread runs
    request,    \* the macro whose handler waits in macroLoopThread_.join()
    pc,         \* where the worker and the macro thread are
    was,        \* RESET_DAQ's local wasMacroRunning
    step,       \* i + 1 in executeMacroSequence
    limit,      \* numCycles
    cycle,      \* currentCycle (not counted when numCycles is 0)
    ok,         \* what executeMacroSequence or executeMacroLoop returns
    vault,      \* vaultPath_ is set
    tasks,      \* registered background processes: <<code, launcher>>
    recording,  \* tempRecordRunning_
    recorder,   \* tempRecordThread_: "none" (not joinable), "live", "ended"
    done,       \* history: steps of the current sequence that returned true
    spoiled,    \* history: a step of the current macro failed
    stopped,    \* history: an operator's STOP_DAQ caught the macro in a step
    disturbed,  \* history: an operator's RESET_DAQ restored the flag meanwhile
    report,     \* history: the status the last macro reported
    overlapped  \* history: both threads were in start- or stopTempRecord

vars == <<flag, thread, macro, request, pc, was, step, limit, cycle, ok, vault,
          tasks, recording, recorder, done, spoiled, stopped, disturbed, report,
          overlapped>>

Worker == "worker"
Macro == "macro"
Launchers == {Worker, Macro, "recorder", "earlier"}  \* earlier: a previous macro

Init ==
    /\ flag = FALSE
    /\ thread = "none"
    /\ macro = NoMacro
    /\ request = NoMacro
    /\ pc = [t \in {Worker, Macro} |-> "idle"]
    /\ was = [t \in {Worker, Macro} |-> FALSE]
    /\ step = 0 /\ limit = 0 /\ cycle = 0
    /\ ok = FALSE
    /\ vault = FALSE
    /\ tasks = {}
    /\ recording = FALSE
    /\ recorder = "none"
    /\ overlapped = FALSE
    /\ done = 0
    /\ spoiled = FALSE /\ stopped = FALSE /\ disturbed = FALSE
    /\ report = "none"

Goto(t, from, to) ==
    /\ pc[t] = from
    /\ pc' = [pc EXCEPT ![t] = to]

historyVars == <<done, spoiled, stopped, disturbed, report>>
macroVars == <<macro, step, limit, cycle, ok, vault>>
recorderVars == <<recording, recorder, overlapped>>

-----------------------------------------------------------------------------
\* The worker thread: one operator command at a time.

\* A macro command while the flag is up is refused with status 1; nothing
\* else changes.  Otherwise the handler first joins the previous thread.
RequestMacro(m) ==
    /\ ~flag
    /\ Goto(Worker, "idle", "join")
    /\ request' = m
    /\ UNCHANGED <<flag, thread, was, tasks, recorderVars, macroVars, historyVars>>

\* macroLoopThread_.join() has returned, or there was nothing to join: raise
\* the flag (MACRO_AUTO_RUN_CYCLE leaves that to its thread) and start it.
SpawnMacro ==
    /\ pc[Worker] = "join"
    /\ thread # "live"
    /\ pc' = [pc EXCEPT ![Worker] = "idle",
                        ![Macro] = IF request = Cyclic THEN "loop" ELSE "begin"]
    /\ flag' = IF request = Cyclic THEN flag ELSE TRUE
    /\ thread' = "live"
    /\ macro' = request
    /\ request' = NoMacro
    /\ \E n \in CycleLimits : limit' = IF macro' = Cyclic THEN n ELSE 1
    /\ cycle' = 0 /\ step' = 0
    /\ done' = 0 /\ report' = "none"
    /\ spoiled' = FALSE /\ stopped' = FALSE /\ disturbed' = FALSE
    /\ tasks' = {<<task[1], IF task[2] = Macro THEN "earlier" ELSE task[2]>> :
                    task \in tasks}
    /\ UNCHANGED <<was, ok, vault, recorderVars>>

\* A background command of the operator, registered or not (fork failed).
OperatorLaunch(c) ==
    /\ pc[Worker] = "idle"
    /\ tasks' = tasks \cup {<<c, Worker>>}
    /\ UNCHANGED <<flag, thread, request, pc, was, recorderVars, macroVars, historyVars>>

\* STOP_DAQ, step 0: cancel macro loops.
OperatorStop ==
    /\ Goto(Worker, "idle", "stopSweep")
    /\ flag' = FALSE
    /\ stopped' = (stopped \/ pc[Macro] \in {"cycle", "check", "pulse", "wait",
                                            "returned"})
    /\ UNCHANGED <<thread, request, was, tasks, recorderVars, macroVars, done,
                   spoiled, disturbed, report>>

\* The rest of STOP_DAQ: every registered process is interrupted, and the DAQ
\* thread joined, which may never end (DaqLifecycle).
OperatorSweep ==
    /\ \E place \in {"idle", "hung"} : Goto(Worker, "stopSweep", place)
    /\ tasks' = {}
    /\ UNCHANGED <<flag, thread, request, was, recorderVars, macroVars, historyVars>>

\* The destructor: lower the flag, then join the macro thread.
Destroy ==
    /\ Goto(Worker, "idle", "destroy")
    /\ flag' = FALSE
    /\ UNCHANGED <<thread, request, was, tasks, recorderVars, macroVars, historyVars>>

\* std::terminate: no thread of the process goes on.
Terminate == pc' = [t \in {Worker, Macro} |-> "terminated"]

\* The macro thread is joined, stopTempRecord comes last.  A thread object that
\* is still joinable then must not be destroyed.
Destroyed ==
    /\ pc[Worker] = "destroy" /\ thread # "live"
    /\ \/ recording /\ Goto(Worker, "destroy", "destroyRecorder")
       \/ ~recording /\ recorder = "none" /\ Goto(Worker, "destroy", "gone")
       \/ ~recording /\ recorder # "none" /\ Terminate
    /\ thread' = "none"
    /\ recording' = FALSE
    /\ UNCHANGED <<flag, request, was, tasks, recorder, overlapped, macroVars,
                   historyVars>>

DestroyedRecorder ==
    /\ recorder # "live"
    /\ Goto(Worker, "destroyRecorder", "gone")
    /\ recorder' = "none"
    /\ UNCHANGED <<flag, thread, request, was, tasks, recording, overlapped,
                   macroVars, historyVars>>

-----------------------------------------------------------------------------
\* RESET_DAQ, run by the worker for the operator or by the macro thread as a
\* step: remember, STOP_DAQ, START_DAQ, restore.

\* bool wasMacroRunning = macroLoopThread_.joinable()
ResetBegin(t, from) ==
    /\ Goto(t, from, "resetStop")
    /\ was' = [was EXCEPT ![t] = thread # "none"]

OperatorReset ==
    /\ ResetBegin(Worker, "idle")
    /\ UNCHANGED <<flag, thread, request, tasks, recorderVars, macroVars, historyVars>>

ResetStop(t) ==
    /\ Goto(t, "resetStop", "resetSweep")
    /\ flag' = FALSE
    /\ UNCHANGED <<thread, request, was, tasks, recorderVars, macroVars, historyVars>>

ResetSweep(t) ==
    /\ Goto(t, "resetSweep", "resetStart")
    /\ tasks' = {}
    /\ UNCHANGED <<flag, thread, request, was, recorderVars, macroVars, historyVars>>

\* Neither the join of the DAQ thread at the end of STOP_DAQ nor that in
\* START_DAQ need return (DaqLifecycle).
ResetHangs(t) ==
    /\ Goto(t, "resetStart", "hung")
    /\ UNCHANGED <<flag, thread, request, was, tasks, recorderVars, macroVars, historyVars>>

\* What RESET_DAQ does to the flag once START_DAQ has returned.
ResetRestore(t, started) == flag' = (flag \/ (started /\ was[t]))

OperatorResetStart ==
    /\ Goto(Worker, "resetStart", "idle")
    /\ \E started \in BOOLEAN : ResetRestore(Worker, started)
    /\ stopped' = (stopped /\ ~flag')
    /\ disturbed' = (disturbed \/ (flag' /\ ~flag))
    /\ UNCHANGED <<thread, request, was, tasks, recorderVars, macroVars, done,
                   spoiled, report>>

-----------------------------------------------------------------------------
\* The macro thread: executeMacroLoop around executeMacroSequence.

seq == SequenceOf[macro]

LoopBegin ==
    /\ Goto(Macro, "loop", "cycle")
    /\ flag' = TRUE
    /\ UNCHANGED <<thread, request, was, tasks, recorderVars, macroVars, historyVars>>

\* while (macroLoopRunning_)
LoopTest ==
    /\ Goto(Macro, "cycle", IF flag THEN "begin" ELSE "finish")
    /\ cycle' = IF flag /\ limit # 0 THEN cycle + 1 ELSE cycle
    /\ ok' = (ok \/ ~flag)
    /\ UNCHANGED <<flag, thread, macro, request, was, step, limit, vault, tasks,
                   recorderVars, historyVars>>

\* The head of executeMacroSequence: raise the flag, open the vault; if that
\* fails the flag goes down again and the sequence has failed.
SequenceBegin ==
    /\ \E opened \in BOOLEAN :
          /\ Goto(Macro, "begin", IF opened THEN "check" ELSE "returned")
          /\ flag' = opened
          /\ vault' = opened
          /\ ok' = FALSE
          /\ spoiled' = (spoiled \/ ~opened)
    /\ step' = 1 /\ done' = 0
    /\ UNCHANGED <<thread, macro, request, was, limit, cycle, tasks, recorderVars,
                   stopped, disturbed, report>>

\* return of executeMacroSequence, after config.clearVaultPath()
Return(result) ==
    /\ vault' = FALSE
    /\ ok' = result

\* Mutated form of Check: the flag is not tested before a step.
CheckNoFlag ==
    /\ pc[Macro] = "check"
    /\ IF step <= Len(seq)
       THEN Goto(Macro, "check", "dispatch") /\ UNCHANGED <<vault, ok>>
       ELSE Goto(Macro, "check", "returned") /\ Return(TRUE)
    /\ UNCHANGED <<flag, thread, macro, request, was, step, limit, cycle, tasks,
                   recorderVars, historyVars>>

\* The head of the for loop: out of steps, aborted by the flag, or next step.
Check ==
    /\ pc[Macro] = "check"
    /\ \/ step <= Len(seq) /\ flag
          /\ Goto(Macro, "check", "dispatch") /\ UNCHANGED <<vault, ok>>
       \/ step <= Len(seq) /\ ~flag
          /\ Goto(Macro, "check", "returned") /\ Return(FALSE)
       \/ step > Len(seq)
          /\ Goto(Macro, "check", "returned") /\ Return(TRUE)
    /\ UNCHANGED <<flag, thread, macro, request, was, step, limit, cycle, tasks,
                   recorderVars, historyVars>>

\* dispatch(cmd) of a step returned true; RESET_DAQ and the temperature
\* recording are below.
StepSucceeds ==
    /\ Goto(Macro, "dispatch", "pulse")
    /\ seq[step] \notin {"RESET_DAQ", StartRecord, StopRecord}
    /\ tasks' = IF seq[step] \in Background
                THEN tasks \cup {<<seq[step], Macro>>} ELSE tasks
    /\ done' = done + 1
    /\ UNCHANGED <<flag, thread, request, was, recorderVars, macroVars, spoiled,
                   stopped, disturbed, report>>

\* dispatch(cmd) returned false: "Aborting macro."
Abort ==
    /\ flag' = FALSE
    /\ Return(FALSE)
    /\ spoiled' = TRUE
    /\ UNCHANGED <<thread, macro, request, was, step, limit, cycle, tasks,
                   recorderVars, done, stopped, disturbed, report>>

\* Mutated form of StepFails: a failed step is logged and skipped.
StepFailsOn ==
    /\ Goto(Macro, "dispatch", "pulse")
    /\ seq[step] # "RESET_DAQ"
    /\ spoiled' = TRUE
    /\ UNCHANGED <<flag, thread, request, was, macroVars, tasks, recorderVars, done,
                   stopped, disturbed, report>>

StepFails ==
    /\ Goto(Macro, "dispatch", "returned")
    /\ seq[step] \notin {"RESET_DAQ", StartRecord, StopRecord}
    /\ Abort

StepReset ==
    /\ ResetBegin(Macro, "dispatch")
    /\ seq[step] = "RESET_DAQ"
    /\ UNCHANGED <<flag, thread, request, tasks, recorderVars, macroVars, historyVars>>

StepResetSucceeds ==
    /\ Goto(Macro, "resetStart", "afterReset")
    /\ ResetRestore(Macro, TRUE)
    /\ done' = done + 1
    /\ UNCHANGED <<thread, request, was, tasks, recorderVars, macroVars, spoiled,
                   stopped, disturbed, report>>

StepResetFails ==
    /\ Goto(Macro, "resetStart", "returned")
    /\ Abort

\* if (cmd == RESET_DAQ) macroLoopRunning_ = true
AfterReset ==
    /\ Goto(Macro, "afterReset", "pulse")
    /\ flag' = TRUE
    /\ UNCHANGED <<thread, request, was, tasks, recorderVars, macroVars, historyVars>>

\* ACQUIRE_SIPM_DATA followed by SEND_PULSE_TRAIN: both belong to one step, and
\* the result of the pulse train is ignored.
Paired(i) ==
    /\ seq[i] = "ACQUIRE_SIPM_DATA"
    /\ i + 1 <= Len(seq)
    /\ seq[i + 1] = "SEND_PULSE_TRAIN"

\* The pulse of a paired step, if the flag is up, and on to the wait: nothing
\* depends on whether and with what result the pulse train was sent.
Pulse ==
    /\ Goto(Macro, "pulse", "wait")
    /\ UNCHANGED <<flag, thread, request, was, tasks, recorderVars, macroVars,
                   historyVars>>

\* No entry of the registry carries the code of the step.
NoneRunning(cmd) == \A task \in tasks : task[1] # cmd

\* Mutated form of Wait: the step's background process is not waited for.
WaitNot ==
    /\ Goto(Macro, "wait", "check")
    /\ step' = IF Paired(step) THEN step + 2 ELSE step + 1
    /\ UNCHANGED <<flag, thread, macro, request, was, limit, cycle, ok, vault,
                   tasks, recorderVars, historyVars>>

\* Mutated form of Wait: is_running is not reset before each poll.
WaitNoReset ==
    /\ ~flag
    /\ Goto(Macro, "wait", "check")
    /\ step' = IF Paired(step) THEN step + 2 ELSE step + 1
    /\ UNCHANGED <<flag, thread, macro, request, was, limit, cycle, ok, vault,
                   tasks, recorderVars, historyVars>>

\* The polling loop ends when nothing with the step's code is registered or
\* the flag is down.
Wait ==
    /\ Goto(Macro, "wait", "check")
    /\ ~flag \/ NoneRunning(seq[step])
    /\ step' = IF Paired(step) THEN step + 2 ELSE step + 1
    /\ UNCHANGED <<flag, thread, macro, request, was, limit, cycle, ok, vault,
                   tasks, recorderVars, historyVars>>

\* Mutated form of Returned: the cycle limit is tested with > instead of >=.
ReturnedOneMore ==
    /\ LET last == ~ok \/ (limit > 0 /\ cycle > limit)
       IN  /\ Goto(Macro, "returned",
                   IF macro # Cyclic \/ last THEN "finish" ELSE "cycle")
           /\ flag' = (flag /\ ~(macro = Cyclic /\ last))
           /\ ok' = (ok \/ macro = Cyclic)
    /\ UNCHANGED <<thread, macro, request, was, step, limit, cycle, vault, tasks,
                   recorderVars, historyVars>>

\* Back in the thread function, or in executeMacroLoop: a failed cycle or the
\* last one ends the loop, and the loop always returns true.
Returned ==
    /\ pc[Macro] = "returned"
    /\ \/ /\ macro # Cyclic
          /\ Goto(Macro, "returned", "finish")
          /\ UNCHANGED <<flag, ok>>
       \/ /\ macro = Cyclic
          /\ ~ok \/ (limit > 0 /\ cycle >= limit)
          /\ Goto(Macro, "returned", "finish")
          /\ flag' = FALSE
          /\ ok' = TRUE
       \/ /\ macro = Cyclic
          /\ ok /\ ~(limit > 0 /\ cycle >= limit)
          /\ Goto(Macro, "returned", "cycle")
          /\ UNCHANGED <<flag, ok>>
    /\ UNCHANGED <<thread, macro, request, was, step, limit, cycle, vault, tasks,
                   recorderVars, historyVars>>

\* The last two statements of the thread: lower the flag, report.
Finish ==
    /\ Goto(Macro, "finish", "report")
    /\ flag' = FALSE
    /\ UNCHANGED <<thread, request, was, tasks, recorderVars, macroVars, historyVars>>

ReportMacro ==
    /\ Goto(Macro, "report", "idle")
    /\ report' = IF ok THEN "success" ELSE "fail"
    /\ thread' = "done"
    /\ UNCHANGED <<flag, request, was, tasks, recorderVars, macroVars, done, spoiled,
                   stopped, disturbed>>

-----------------------------------------------------------------------------
\* The recording of the ASIC temperatures, started and stopped by the operator
\* on the worker or by a step of the macro thread: the flag and the thread
\* object, without a lock.

Given(t, cmd) ==
    IF t = Worker THEN pc[t] = "idle"
    ELSE pc[t] = "dispatch" /\ seq[step] = cmd

InRecorder(place) == place \in {"recStart", "recSpawn", "recStop", "recJoin"}

RecordGoto(t, place) ==
    /\ pc' = [pc EXCEPT ![t] = place]
    /\ overlapped' = (overlapped \/ \A u \in {Worker, Macro} : InRecorder(pc'[u]))
    /\ UNCHANGED <<done, ok, vault, flag, spoiled>>

\* The handler returns true.
RecordReturns(t) ==
    /\ pc' = [pc EXCEPT ![t] = IF t = Worker THEN "idle" ELSE "pulse"]
    /\ done' = IF t = Worker THEN done ELSE done + 1
    /\ UNCHANGED <<overlapped, ok, vault, flag, spoiled>>

\* The handler has caught an exception.
RecordFails(t) ==
    \/ t = Worker /\ RecordReturns(t)
    \/ /\ t = Macro
       /\ pc' = [pc EXCEPT ![t] = "returned"]
       /\ flag' = FALSE
       /\ Return(FALSE)
       /\ spoiled' = TRUE
       /\ UNCHANGED <<overlapped, done>>

othersVars == <<thread, macro, request, was, step, limit, cycle, tasks, stopped,
                disturbed, report>>

\* startTempRecord: the flag is tested,
StartTest(t) ==
    /\ Given(t, StartRecord)
    /\ IF recording THEN RecordReturns(t) ELSE RecordGoto(t, "recStart")
    /\ UNCHANGED <<recording, recorder, othersVars>>

StartStore(t) ==
    /\ pc[t] = "recStart"
    /\ recording' = TRUE
    /\ RecordGoto(t, "recSpawn")
    /\ UNCHANGED <<recorder, othersVars>>

\* and the new thread assigned, which ends the program if the object still
\* has one.
StartSpawn(t) ==
    /\ pc[t] = "recSpawn"
    /\ \/ recorder = "none" /\ recorder' = "live" /\ RecordReturns(t)
       \/ /\ recorder # "none" /\ Terminate
          /\ UNCHANGED <<recorder, overlapped, done, ok, vault, flag, spoiled>>
    /\ UNCHANGED <<recording, othersVars>>

StopTest(t) ==
    /\ Given(t, StopRecord)
    /\ IF recording THEN RecordGoto(t, "recStop") ELSE RecordReturns(t)
    /\ UNCHANGED <<recording, recorder, othersVars>>

StopStore(t) ==
    /\ pc[t] = "recStop"
    /\ recording' = FALSE
    /\ RecordGoto(t, "recJoin")
    /\ UNCHANGED <<recorder, othersVars>>

\* Mutated form of StopJoin: the thread is left to end by itself.
StopJoinNot(t) ==
    /\ pc[t] = "recJoin"
    /\ RecordReturns(t)
    /\ UNCHANGED <<recording, recorder, othersVars>>

\* A thread that somebody else has joined meanwhile: join may throw.
StopJoin(t) ==
    /\ pc[t] = "recJoin"
    /\ recorder # "live"
    /\ recorder' = "none"
    /\ RecordReturns(t) \/ (recorder = "none" /\ RecordFails(t))
    /\ UNCHANGED <<recording, othersVars>>

RecordNext(t) ==
    StartTest(t) \/ StartStore(t) \/ StartSpawn(t)
    \/ StopTest(t) \/ StopStore(t) \/ StopJoin(t)

RecorderLaunch ==
    /\ recorder = "live" /\ recording
    /\ tasks' = tasks \cup {<<"READ_TEMPERATURE_SENSORS", "recorder">>}
    /\ UNCHANGED <<flag, thread, request, pc, was, recorderVars, macroVars,
                   historyVars>>

RecorderEnds ==
    /\ recorder = "live" /\ ~recording
    /\ recorder' = "ended"
    /\ UNCHANGED <<flag, thread, request, pc, was, tasks, recording, overlapped,
                   macroVars, historyVars>>

-----------------------------------------------------------------------------
\* The monitor thread erases a process that ended.
TaskEnds(task) ==
    /\ task \in tasks
    /\ tasks' = tasks \ {task}
    /\ UNCHANGED <<flag, thread, request, pc, was, recorderVars, macroVars, historyVars>>

WorkerNext ==
    \/ \E m \in Macros : RequestMacro(m)
    \/ SpawnMacro
    \/ \E c \in OperatorCodes : OperatorLaunch(c)
    \/ RecordNext(Worker)
    \/ OperatorStop \/ OperatorSweep
    \/ OperatorReset \/ ResetStop(Worker) \/ ResetSweep(Worker)
    \/ ResetHangs(Worker) \/ OperatorResetStart
    \/ Destroy \/ Destroyed \/ DestroyedRecorder

MacroNext ==
    \/ LoopBegin \/ LoopTest \/ SequenceBegin \/ Check
    \/ StepSucceeds \/ StepFails
    \/ StepReset \/ ResetStop(Macro) \/ ResetSweep(Macro) \/ ResetHangs(Macro)
    \/ StepResetSucceeds \/ StepResetFails \/ AfterReset
    \/ RecordNext(Macro)
    \/ Pulse \/ Wait \/ Returned \/ Finish \/ ReportMacro

Next ==
    \/ WorkerNext
    \/ MacroNext
    \/ \E task \in tasks : TaskEnds(task)
    \/ RecorderLaunch \/ RecorderEnds

Spec == Init /\ [][Next]_vars

(***************************************************************************)
(* Fairness.  The macro thread keeps running until it hangs in a join.  A  *)
(* handler the worker has begun is carried on.  Scripts end and are        *)
(* collected, and since the recorder pauses between two read-outs (strong) *)
(* one of the polls of the waiting loop falls into a pause.  The operator  *)
(* owes nothing.                                                           *)
(***************************************************************************)
Fairness ==
    /\ WF_vars(MacroNext)
    /\ SF_vars(Wait)
    /\ WF_vars(SpawnMacro)
    /\ WF_vars(OperatorSweep)
    /\ WF_vars(ResetStop(Worker) \/ ResetSweep(Worker) \/ OperatorResetStart)
    /\ WF_vars(Destroyed \/ DestroyedRecorder)
    /\ WF_vars(StartStore(Worker) \/ StartSpawn(Worker) \/ StopStore(Worker)
               \/ StopJoin(Worker))
    /\ WF_vars(RecorderEnds)
    /\ \A c \in Background, who \in Launchers :
          WF_vars(TaskEnds(<<c, who>>))

FairSpec == Spec /\ Fairness

-----------------------------------------------------------------------------
\* The shape of the state: in particular a cyclic macro never runs more cycles
\* than it was asked for, and no sequence runs past its end.
TypeOK ==
    /\ flag \in BOOLEAN
    /\ thread \in {"none", "live", "done"}
    /\ macro \in Macros \cup {NoMacro}
    /\ request \in Macros \cup {NoMacro}
    /\ pc[Worker] \in {"idle", "join", "stopSweep", "resetStop", "resetSweep",
                       "resetStart", "hung", "destroy", "destroyRecorder", "gone",
                       "recStart", "recSpawn", "recStop", "recJoin", "terminated"}
    /\ pc[Macro] \in {"idle", "loop", "cycle", "begin", "check", "dispatch",
                      "resetStop", "resetSweep", "resetStart", "hung", "afterReset",
                      "pulse", "wait", "returned", "finish", "report",
                      "recStart", "recSpawn", "recStop", "recJoin", "terminated"}
    /\ was \in [{Worker, Macro} -> BOOLEAN]
    /\ limit \in CycleLimits \cup {0, 1}
    /\ cycle \in 0..limit
    /\ macro # NoMacro => step \in 0..(Len(seq) + 1) /\ done \in 0..Len(seq)
    /\ ok \in BOOLEAN /\ vault \in BOOLEAN /\ recording \in BOOLEAN
    /\ recorder \in {"none", "live", "ended"} /\ overlapped \in BOOLEAN
    /\ tasks \subseteq Background \X Launchers
    /\ spoiled \in BOOLEAN /\ stopped \in BOOLEAN /\ disturbed \in BOOLEAN
    /\ report \in {"none", "success", "fail"}

\* A macro other than the cyclic one reports success only if every one of its
\* steps was dispatched and returned true (a paired pulse train counts with
\* its acquisition).
SuccessMeansAllSteps ==
    report = "success" /\ macro # Cyclic /\ thread = "done" =>
        /\ ~spoiled
        /\ done + (IF \E i \in 1..Len(seq) : Paired(i) THEN 1 ELSE 0) = Len(seq)

\* No step begins while the background process of an earlier step of the macro
\* is still registered, whatever the operator stops or launches.  (Only an
\* operator's RESET_DAQ that restores the flag under the macro breaks this.)
StepsDoNotOverlap ==
    pc[Macro] = "dispatch" /\ ~disturbed => \A task \in tasks : task[2] # Macro

\* Once an operator's STOP_DAQ has caught a macro inside a sequence (RESET_DAQ
\* steps aside) or between cycles, the macro begins no further step.
StopHeeded ==
    stopped => pc[Macro] \in {"idle", "cycle", "check", "pulse", "wait",
                              "returned", "finish", "report", "terminated"}

\* As long as the worker and the macro thread have never been in startTempRecord
\* and stopTempRecord at the same time, whatever else they do, the thread
\* object follows the flag: between two calls it has a thread that records
\* exactly when the flag is up, and no assignment or destruction meets a thread
\* that was not joined, which would end the program
\* (CommandDispatch.cpp:1420-1427, 1465-1474, 1136).
RecorderFollowsFlag ==
    ~overlapped =>
        /\ pc[Worker] # "terminated"
        /\ recording => recorder # "ended"
        /\ (\A t \in {Worker, Macro} : ~InRecorder(pc[t]))
             /\ pc[Worker] # "destroyRecorder"
           => IF recording THEN recorder = "live" ELSE recorder = "none"

\* A macro command that waits for the previous macro thread gets its turn, and
\* the worker becomes free for the next command, unless that thread runs an
\* unlimited cycle (CommandDispatch.cpp:1067), may wait for a recording that
\* the operator started again while it was being stopped (1474), or is in a
\* RESET_DAQ step whose join of the DAQ thread never returns (115).
WorkerReturns ==
    pc[Worker] = "join" /\ ~(macro = Cyclic /\ limit = 0) /\ ~overlapped
        ~> pc[Worker] = "idle" \/ pc[Macro] = "hung"

-----------------------------------------------------------------------------
\* "0. Cancel macro loops": once STOP_DAQ has lowered the flag, the macro that
\* was running ends, if it does not hang in a RESET_DAQ step.
StopCancelsMacro ==
    (pc[Worker] = "stopSweep" /\ thread = "live")
        ~> thread # "live" \/ pc[Macro] = "hung"

=============================================================================
