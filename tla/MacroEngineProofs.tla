--------------------------- MODULE MacroEngineProofs ---------------------------
(***************************************************************************)
(* For any set of the macros, of operator commands and of cycle limits: a  *)
(* macro that reports success has dispatched all of its steps, the scripts *)
(* of two steps do not overlap, a STOP_DAQ that catches a macro between    *)
(* its steps lets it begin no other, and the thread of the temperature     *)
(* recording follows its flag.                                             *)
(***************************************************************************)
EXTENDS MacroEngine, TLAPS

-----------------------------------------------------------------------------
\* Truth values, in the implementation bool and std::atomic<bool>.
Flags ==
    /\ flag \in BOOLEAN
    /\ was \in [{Worker, Macro} -> BOOLEAN]
    /\ ok \in BOOLEAN /\ vault \in BOOLEAN /\ recording \in BOOLEAN
    /\ overlapped \in BOOLEAN
    /\ spoiled \in BOOLEAN /\ stopped \in BOOLEAN /\ disturbed \in BOOLEAN

\* Where the two threads can be.
Places ==
    /\ pc[Worker] \in {"idle", "join", "stopSweep", "resetStop", "resetSweep",
                       "resetStart", "hung", "destroy", "destroyRecorder", "gone",
                       "recStart", "recSpawn", "recStop", "recJoin", "terminated"}
    /\ pc[Macro] \in {"idle", "loop", "cycle", "begin", "check", "dispatch",
                      "resetStop", "resetSweep", "resetStart", "hung", "afterReset",
                      "pulse", "wait", "returned", "finish", "report",
                      "recStart", "recSpawn", "recStop", "recJoin", "terminated"}

\* The values of the other variables.
Contents ==
    /\ thread \in {"none", "live", "done"}
    /\ macro \in Macros \cup {NoMacro}
    /\ request \in Macros \cup {NoMacro}
    /\ limit \in CycleLimits \cup {0, 1}
    /\ recorder \in {"none", "live", "ended"}
    /\ tasks \subseteq Background \X Launchers
    /\ report \in {"none", "success", "fail"}

\* Places of the macro thread: inside the command of a step, and after it.
InCommand == {"dispatch", "resetStop", "resetSweep", "resetStart", "hung", "recStart",
              "recSpawn", "recStop", "recJoin"}
AfterCommand == {"afterReset", "pulse", "wait"}

\* The macro thread object has a thread exactly while there is one to run, and
\* the worker waits with the macro it will start.
ThreadsMatch ==
    /\ pc = [t \in {Worker, Macro} |-> pc[t]]
    /\ pc[Macro] \notin {"idle", "terminated"} => thread = "live" /\ macro \in Macros
    /\ pc[Macro] \in {"loop", "cycle"} => macro = Cyclic
    /\ pc[Worker] = "join" => request \in Macros
    /\ pc[Worker] \in {"destroyRecorder", "gone"} => thread = "none"
    /\ pc[Worker] = "terminated" <=> pc[Macro] = "terminated"
    /\ thread = "live" => report = "none"

\* The counters; another cycle is due only below the limit.
Counters ==
    /\ step \in Nat /\ done \in Nat
    /\ limit \in Nat /\ cycle \in 0..limit
    /\ pc[Macro] \in {"loop", "cycle"} => limit = 0 \/ cycle < limit

\* ACQUIRE_SIPM_DATA and SEND_PULSE_TRAIN at i and i + 1 of a sequence, and the
\* number (0 or 1) of such pairs that begin before n.
PairedAt(s, i) ==
    /\ s[i] = "ACQUIRE_SIPM_DATA"
    /\ i + 1 <= Len(s)
    /\ s[i + 1] = "SEND_PULSE_TRAIN"

Pairs(s, n) == IF \E j \in 1..Len(s) : PairedAt(s, j) /\ j < n THEN 1 ELSE 0

AllDone == done + Pairs(seq, Len(seq) + 1) = Len(seq)

\* Every step before the current one has returned true, and the macro knows.
Counted ==
    /\ pc[Macro] \in InCommand \cup {"check"} => done + Pairs(seq, step) + 1 = step
    /\ pc[Macro] \in InCommand \cup AfterCommand => step \in 1..Len(seq)
    /\ pc[Macro] = "check" => step \in 1..Len(seq) + 1
    /\ pc[Macro] \in AfterCommand => done + Pairs(seq, step) = step
    /\ pc[Macro] \in {"returned", "finish", "report"} /\ ok /\ macro # Cyclic
          => AllDone
    /\ thread = "done" /\ report = "success" /\ macro # Cyclic => AllDone /\ ~spoiled

\* The step and the count stay inside the sequence.
InSequence == macro # NoMacro => step \in 0..(Len(seq) + 1) /\ done \in 0..Len(seq)

\* A step that failed ends the macro.
SpoiledEnds ==
    spoiled =>
        /\ pc[Macro] \in {"idle", "returned", "finish", "report", "terminated"}
        /\ \/ pc[Macro] = "returned"
           \/ pc[Macro] \in {"finish", "report"} /\ macro # Cyclic
           => ~ok

\* No background process of the macro is registered.
NoneOfMacro == \A task \in tasks : task[2] # Macro

\* Until an operator's RESET_DAQ interferes, the processes of a macro are those
\* of its current step, or the flag is down.
StepsApart ==
    ~disturbed =>
        /\ pc[Macro] \in InCommand \cup {"loop", "begin", "afterReset"} => NoneOfMacro
        /\ pc[Macro] \in {"pulse", "wait"} =>
              \A task \in tasks : task[2] = Macro => task[1] = seq[step]
        /\ pc[Macro] \in {"check", "cycle"} => ~flag \/ NoneOfMacro
        /\ pc[Macro] = "returned" /\ ok => ~flag \/ NoneOfMacro

\* A STOP_DAQ that caught the macro has left the flag down.
StopLeavesFlagDown ==
    stopped /\ pc[Macro] \in {"cycle", "check", "pulse", "wait", "returned"} => ~flag

\* Where each thread is in startTempRecord, stopTempRecord and the destructor
\* determines the flag and the thread object of the recording.
RecorderPlaces ==
    ~overlapped =>
        /\ ~(InRecorder(pc[Worker]) /\ InRecorder(pc[Macro]))
        /\ \A t \in {Worker, Macro} :
              /\ pc[t] = "recStart" => ~recording /\ recorder = "none"
              /\ pc[t] = "recSpawn" => recording /\ recorder = "none"
              /\ pc[t] = "recStop" => recording /\ recorder = "live"
              /\ pc[t] = "recJoin" => ~recording /\ recorder # "none"
        /\ pc[Worker] = "destroyRecorder" => ~recording

IInv ==
    /\ TypeOK /\ ThreadsMatch /\ Counters
    /\ Counted /\ SpoiledEnds
    /\ StepsApart
    /\ StopHeeded /\ StopLeavesFlagDown
    /\ RecorderFollowsFlag /\ RecorderPlaces

-----------------------------------------------------------------------------
\* The threads and the recorder launch tasks, and the read-out is a background task.
LEMMA LaunchersKnown ==
    /\ {Worker, Macro, "recorder", "earlier"} \subseteq Launchers
    /\ "READ_TEMPERATURE_SENSORS" \in Background
  BY DEF Launchers, Background

\* The worker thread and the macro thread are different threads.
LEMMA WorkerIsNotMacro == Worker # Macro
  BY DEF Worker, Macro

\* No sequence has more than one acquisition with a pulse train.
LEMMA OnePair ==
    \A m \in DOMAIN SequenceOf :
        /\ Len(SequenceOf[m]) \in Nat
        /\ \A i, j \in 1..Len(SequenceOf[m]) :
              PairedAt(SequenceOf[m], i) /\ PairedAt(SequenceOf[m], j) => i = j
<1> DEFINE Fine(s) ==
      /\ Len(s) \in Nat
      /\ \A i, j \in 1..Len(s) : PairedAt(s, i) /\ PairedAt(s, j) => i = j
<1>1. Fine(ThermalCalib)
  BY DEF ThermalCalib, PairedAt
<1>2. Fine(AutoRun)
  BY DEF AutoRun, PairedAt
<1>3. Fine(Stage0)
  BY DEF Stage0, PairedAt
<1>4. Fine(Stage1)
  BY DEF Stage1, PairedAt
<1>5. Fine(Stage2)
  BY DEF Stage2, PairedAt
<1>6. Fine(Stage3)
  BY DEF Stage3, PairedAt
<1>7. Fine(AutoRunCycle)
  BY DEF AutoRunCycle, PairedAt
<1> HIDE DEF Fine
<1>8. \A m \in DOMAIN SequenceOf : Fine(SequenceOf[m])
  BY <1>1, <1>2, <1>3, <1>4, <1>5, <1>6, <1>7 DEF SequenceOf
<1> QED
  BY <1>8 DEF Fine

\* How the number of pairs passed grows with the step.
LEMMA PairsGrow ==
    ASSUME NEW m \in Macros
    PROVE  LET s == SequenceOf[m] IN
           /\ Len(s) \in Nat
           /\ Pairs(s, 1) = 0
           /\ \A n \in 1..Len(s) + 1 : Pairs(s, n) \in {0, 1}
           /\ \A n \in 1..Len(s) :
                 /\ PairedAt(s, n) => /\ n + 1 <= Len(s)
                                      /\ Pairs(s, n) = 0
                                      /\ Pairs(s, n + 2) = 1
                 /\ ~PairedAt(s, n) => Pairs(s, n + 1) = Pairs(s, n)
<1> DEFINE s == SequenceOf[m]
<1>1. /\ Len(s) \in Nat
      /\ \A i, j \in 1..Len(s) : PairedAt(s, i) /\ PairedAt(s, j) => i = j
  BY OnePair, MacrosAssumption
<1> HIDE DEF s
<1>2. Pairs(s, 1) = 0 /\ \A n \in 1..Len(s) + 1 : Pairs(s, n) \in {0, 1}
  BY <1>1 DEF Pairs
<1>3. ASSUME NEW n \in 1..Len(s), PairedAt(s, n)
      PROVE  n + 1 <= Len(s) /\ Pairs(s, n) = 0 /\ Pairs(s, n + 2) = 1
  <2>1. n + 1 <= Len(s)
    BY <1>3 DEF PairedAt
  <2>2. Pairs(s, n) = 0
    BY <1>1, <1>3 DEF Pairs
  <2>3. Pairs(s, n + 2) = 1
    BY <1>1, <1>3 DEF Pairs
  <2> QED
    BY <2>1, <2>2, <2>3
<1>4. ASSUME NEW n \in 1..Len(s), ~PairedAt(s, n)
      PROVE  Pairs(s, n + 1) = Pairs(s, n)
  <2>1. \A j \in 1..Len(s) : j < n + 1 <=> (j < n \/ j = n)
    BY <1>1
  <2> QED
    BY <1>4, <2>1 DEF Pairs
<1> QED
  BY <1>1, <1>2, <1>3, <1>4 DEF s

-----------------------------------------------------------------------------
\* What the first step of startTempRecord and stopTempRecord does: the call is
\* over, or its thread is inside.
LEMMA RecordTest ==
    ASSUME ThreadsMatch, NEW t \in {Worker, Macro}, StartTest(t) \/ StopTest(t)
    PROVE  /\ UNCHANGED <<recording, recorder, ok, vault, flag, spoiled, othersVars>>
           /\ pc' = [pc EXCEPT ![t] = pc'[t]]
           /\ t = Worker => /\ pc[t] = "idle"
                            /\ pc'[t] \in {"idle", "recStart", "recStop"}
                            /\ done' = done
           /\ t = Macro => /\ pc[t] = "dispatch"
                           /\ pc'[t] \in {"pulse", "recStart", "recStop"}
                           /\ done' = IF pc'[t] = "pulse" THEN done + 1 ELSE done
           /\ pc'[t] = "recStart" => ~recording
           /\ pc'[t] = "recStop" => recording
           /\ ~overlapped' => ~overlapped
           /\ ~overlapped' /\ InRecorder(pc'[t])
                 => \E u \in {Worker, Macro} : ~InRecorder(pc'[u])
<1> USE WorkerIsNotMacro DEF ThreadsMatch, InRecorder
<1>1. CASE StartTest(t) /\ recording
  BY <1>1 DEF StartTest, Given, RecordReturns
<1>2. CASE StartTest(t) /\ ~recording
  <2>1. /\ UNCHANGED <<recording, recorder, ok, vault, flag, spoiled, othersVars, done>>
        /\ pc' = [pc EXCEPT ![t] = "recStart"]
        /\ pc[t] \in {"idle", "dispatch"}
        /\ t = Worker => pc[t] = "idle"
        /\ t = Macro => pc[t] = "dispatch"
    BY <1>2 DEF StartTest, Given, RecordGoto
  <2>2. overlapped \/ (\A u \in {Worker, Macro} : InRecorder(pc'[u])) => overlapped'
    BY <1>2 DEF StartTest, RecordGoto
  <2> QED
    BY <1>2, <2>1, <2>2
<1>3. CASE StopTest(t) /\ recording
  <2>1. /\ UNCHANGED <<recording, recorder, ok, vault, flag, spoiled, othersVars, done>>
        /\ pc' = [pc EXCEPT ![t] = "recStop"]
        /\ pc[t] \in {"idle", "dispatch"}
        /\ t = Worker => pc[t] = "idle"
        /\ t = Macro => pc[t] = "dispatch"
    BY <1>3 DEF StopTest, Given, RecordGoto
  <2>2. overlapped \/ (\A u \in {Worker, Macro} : InRecorder(pc'[u])) => overlapped'
    BY <1>3 DEF StopTest, RecordGoto
  <2> QED
    BY <1>3, <2>1, <2>2
<1>4. CASE StopTest(t) /\ ~recording
  BY <1>4 DEF StopTest, Given, RecordReturns
<1> QED
  BY <1>1, <1>2, <1>3, <1>4

-----------------------------------------------------------------------------
\* Every step keeps the flags Boolean.
LEMMA FlagsStep == TypeOK /\ ThreadsMatch /\ [Next]_vars => Flags'
<1> SUFFICES ASSUME TypeOK, ThreadsMatch, [Next]_vars PROVE Flags'
  OBVIOUS
<1> USE WorkerIsNotMacro
    DEF TypeOK, ThreadsMatch, Flags, macroVars, recorderVars, historyVars,
        othersVars
<1>1. ASSUME NEW m \in Macros, RequestMacro(m) PROVE Flags'
  BY <1>1 DEF RequestMacro, Goto
<1>2. CASE SpawnMacro \/ OperatorStop
  BY <1>2 DEF SpawnMacro, OperatorStop, Goto
<1>3. ASSUME NEW c \in OperatorCodes, OperatorLaunch(c) PROVE Flags'
  BY <1>3 DEF OperatorLaunch
<1>4. CASE OperatorSweep
  BY <1>4 DEF OperatorSweep, Goto
<1>5. CASE OperatorReset
  BY <1>5 DEF OperatorReset, ResetBegin, Goto
<1>6. ASSUME NEW t \in {Worker, Macro}, ResetStop(t) PROVE Flags'
  BY <1>6 DEF ResetStop, Goto
<1>7. ASSUME NEW t \in {Worker, Macro}, ResetSweep(t) \/ ResetHangs(t) \/ StartTest(t) PROVE Flags'
  BY <1>7 DEF ResetSweep, ResetHangs, Goto, StartTest, Given, RecordGoto, RecordReturns
<1>8. CASE OperatorResetStart
  BY <1>8 DEF OperatorResetStart, ResetRestore, Goto
<1>9. CASE Destroy \/ Destroyed
  BY <1>9 DEF Destroy, Goto, Destroyed, Terminate
<1>10. CASE DestroyedRecorder
  BY <1>10 DEF DestroyedRecorder, Goto
<1>11. CASE LoopBegin \/ LoopTest
  BY <1>11 DEF LoopBegin, Goto, LoopTest
<1>12. CASE SequenceBegin \/ Check
  BY <1>12 DEF SequenceBegin, Goto, Check, Return
<1>13. CASE StepSucceeds
  BY <1>13 DEF StepSucceeds, Goto
<1>14. CASE StepFails
  BY <1>14 DEF StepFails, Abort, Return, Goto
<1>15. CASE StepReset
  BY <1>15 DEF StepReset, ResetBegin, Goto
<1>16. CASE StepResetSucceeds \/ StepResetFails
  BY <1>16 DEF StepResetSucceeds, ResetRestore, Goto, StepResetFails, Abort, Return
<1>17. CASE AfterReset
  BY <1>17 DEF AfterReset, Goto
<1>18. CASE Pulse \/ Wait
  BY <1>18 DEF Pulse, Goto, Wait
<1>19. CASE Returned \/ Finish
  BY <1>19 DEF Returned, Goto, Finish
<1>20. CASE ReportMacro \/ RecorderLaunch \/ RecorderEnds
  BY <1>20 DEF ReportMacro, Goto, RecorderLaunch, RecorderEnds
<1>21. ASSUME NEW t \in {Worker, Macro}, StartStore(t) PROVE Flags'
  BY <1>21 DEF StartStore, RecordGoto
<1>22. ASSUME NEW t \in {Worker, Macro}, StartSpawn(t) \/ StopTest(t) PROVE Flags'
  BY <1>22 DEF StartSpawn, RecordReturns, Terminate, StopTest, Given, RecordGoto
<1>23. ASSUME NEW t \in {Worker, Macro}, StopStore(t) \/ StopJoin(t) PROVE Flags'
  BY <1>23 DEF StopStore, RecordGoto, StopJoin, RecordReturns, RecordFails, Return
<1>24. ASSUME NEW task \in tasks, TaskEnds(task) PROVE Flags'
  BY <1>24 DEF TaskEnds
<1>25. CASE UNCHANGED vars
  BY <1>25 DEF vars
<1> HIDE DEF TypeOK, ThreadsMatch, Flags
<1> QED
  BY <1>1, <1>2, <1>3, <1>4, <1>5, <1>6, <1>7, <1>8, <1>9, <1>10, <1>11, <1>12,
     <1>13, <1>14, <1>15, <1>16, <1>17, <1>18, <1>19, <1>20, <1>21, <1>22, <1>23,
     <1>24, <1>25
  DEF Next, WorkerNext, MacroNext, RecordNext

\* Every step keeps the threads and the places of the worker matched.
LEMMA ThreadsStep == IInv /\ [Next]_vars => ThreadsMatch'
<1> SUFFICES ASSUME IInv, [Next]_vars PROVE ThreadsMatch'
  OBVIOUS
<1> USE WorkerIsNotMacro, CycleLimitsAssumption
    DEF IInv, TypeOK, ThreadsMatch, macroVars, recorderVars, historyVars, othersVars
<1>1. ASSUME NEW m \in Macros, RequestMacro(m) PROVE ThreadsMatch'
  BY <1>1 DEF RequestMacro, Goto
<1>2. CASE SpawnMacro \/ OperatorStop
  BY <1>2 DEF SpawnMacro, OperatorStop, Goto
<1>3. ASSUME NEW c \in OperatorCodes, OperatorLaunch(c) PROVE ThreadsMatch'
  BY <1>3 DEF OperatorLaunch
<1>4. CASE OperatorSweep \/ OperatorReset \/ OperatorResetStart
  BY <1>4
  DEF OperatorSweep, Goto, OperatorReset, ResetBegin, OperatorResetStart,
      ResetRestore
<1>5. ASSUME NEW t \in {Worker, Macro}, ResetStop(t) PROVE ThreadsMatch'
  BY <1>5 DEF ResetStop, Goto
<1>6. ASSUME NEW t \in {Worker, Macro}, ResetSweep(t) \/ ResetHangs(t)
      PROVE  ThreadsMatch'
  BY <1>6 DEF ResetSweep, ResetHangs, Goto
<1>7. CASE Destroy \/ Destroyed
  BY <1>7 DEF Destroy, Goto, Destroyed, Terminate
<1>8. CASE DestroyedRecorder \/ LoopBegin \/ LoopTest
  BY <1>8 DEF DestroyedRecorder, Goto, LoopBegin, LoopTest
<1>9. CASE SequenceBegin \/ Check \/ StepSucceeds \/ StepFails \/ StepReset
  BY <1>9
  DEF SequenceBegin, Goto, Check, Return, StepSucceeds, StepFails, Abort, StepReset,
      ResetBegin
<1>10. CASE StepResetSucceeds \/ StepResetFails
  BY <1>10 DEF StepResetSucceeds, ResetRestore, Goto, StepResetFails, Abort, Return
<1>11. CASE AfterReset \/ Pulse \/ Wait
  BY <1>11 DEF AfterReset, Goto, Pulse, Wait
<1>12. CASE Returned \/ Finish
  BY <1>12 DEF Returned, Goto, Finish
<1>13. CASE ReportMacro
  BY <1>13 DEF ReportMacro, Goto
<1>14. ASSUME NEW t \in {Worker, Macro}, StartTest(t) PROVE ThreadsMatch'
  BY <1>14, RecordTest
<1>15. ASSUME NEW t \in {Worker, Macro}, StartStore(t) PROVE ThreadsMatch'
  BY <1>15 DEF StartStore, RecordGoto
<1>16. ASSUME NEW t \in {Worker, Macro}, StartSpawn(t) PROVE ThreadsMatch'
  BY <1>16 DEF StartSpawn, RecordReturns, Terminate
<1>17. ASSUME NEW t \in {Worker, Macro}, StopTest(t) PROVE ThreadsMatch'
  BY <1>17, RecordTest
<1>18. ASSUME NEW t \in {Worker, Macro}, StopStore(t) PROVE ThreadsMatch'
  BY <1>18 DEF StopStore, RecordGoto
<1>19. ASSUME NEW t \in {Worker, Macro}, StopJoin(t) PROVE ThreadsMatch'
  BY <1>19 DEF StopJoin, RecordReturns, RecordFails, Return
<1>20. ASSUME NEW task \in tasks, TaskEnds(task) PROVE ThreadsMatch'
  BY <1>20 DEF TaskEnds
<1>21. CASE RecorderLaunch \/ RecorderEnds
  BY <1>21 DEF RecorderLaunch, RecorderEnds
<1>22. CASE UNCHANGED vars
  BY <1>22 DEF vars
<1> HIDE DEF IInv, TypeOK, ThreadsMatch
<1> QED
  BY <1>1, <1>2, <1>3, <1>4, <1>5, <1>6, <1>7, <1>8, <1>9, <1>10, <1>11, <1>12,
     <1>13, <1>14, <1>15, <1>16, <1>17, <1>18, <1>19, <1>20, <1>21, <1>22
  DEF Next, WorkerNext, MacroNext, RecordNext

\* Every step keeps the counters in their ranges.
LEMMA CountersStep == IInv /\ [Next]_vars => Counters'
<1> SUFFICES ASSUME IInv, [Next]_vars PROVE Counters'
  OBVIOUS
<1> USE WorkerIsNotMacro, CycleLimitsAssumption
    DEF IInv, ThreadsMatch, Counters, macroVars, recorderVars, historyVars,
        othersVars
<1>1. ASSUME NEW m \in Macros, RequestMacro(m) PROVE Counters'
  BY <1>1 DEF RequestMacro, Goto
<1>2. CASE SpawnMacro
  BY <1>2 DEF SpawnMacro
<1>3. ASSUME NEW c \in OperatorCodes, OperatorLaunch(c) PROVE Counters'
  BY <1>3 DEF OperatorLaunch
<1>4. CASE OperatorStop
  BY <1>4 DEF OperatorStop, Goto
<1>5. CASE OperatorSweep \/ OperatorReset \/ OperatorResetStart
  BY <1>5
  DEF OperatorSweep, Goto, OperatorReset, ResetBegin, OperatorResetStart,
      ResetRestore
<1>6. ASSUME NEW t \in {Worker, Macro},
            ResetStop(t) \/ ResetSweep(t) \/ ResetHangs(t)
      PROVE  Counters'
  BY <1>6 DEF ResetStop, Goto, ResetSweep, ResetHangs
<1>7. CASE Destroy \/ Destroyed
  BY <1>7 DEF Destroy, Goto, Destroyed, Terminate
<1>8. CASE DestroyedRecorder \/ LoopBegin \/ LoopTest
  BY <1>8 DEF DestroyedRecorder, Goto, LoopBegin, LoopTest
<1>9. CASE SequenceBegin \/ Check \/ StepSucceeds \/ StepFails \/ StepReset
  BY <1>9
  DEF SequenceBegin, Goto, Check, Return, StepSucceeds, StepFails, Abort, StepReset,
      ResetBegin
<1>10. CASE StepResetSucceeds \/ StepResetFails \/ AfterReset \/ Pulse \/ Wait
  BY <1>10
  DEF StepResetSucceeds, ResetRestore, Goto, StepResetFails, Abort, Return,
      AfterReset, Pulse, Wait
<1>11. CASE Returned \/ Finish \/ ReportMacro \/ RecorderLaunch \/ RecorderEnds
  BY <1>11 DEF Returned, Goto, Finish, ReportMacro, RecorderLaunch, RecorderEnds
<1>12. ASSUME NEW t \in {Worker, Macro}, StartTest(t) PROVE Counters'
  BY <1>12 DEF StartTest, Given, RecordGoto, RecordReturns
<1>13. ASSUME NEW t \in {Worker, Macro},
            StartStore(t) \/ StartSpawn(t)
      PROVE  Counters'
  BY <1>13 DEF StartStore, RecordGoto, StartSpawn, RecordReturns, Terminate
<1>14. ASSUME NEW t \in {Worker, Macro}, StopTest(t) PROVE Counters'
  BY <1>14 DEF StopTest, Given, RecordGoto, RecordReturns
<1>15. ASSUME NEW t \in {Worker, Macro}, StopStore(t) \/ StopJoin(t) PROVE Counters'
  BY <1>15 DEF StopStore, RecordGoto, StopJoin, RecordReturns, RecordFails, Return
<1>16. ASSUME NEW task \in tasks, TaskEnds(task) PROVE Counters'
  BY <1>16 DEF TaskEnds
<1>17. CASE UNCHANGED vars
  BY <1>17 DEF vars
<1> HIDE DEF IInv, ThreadsMatch, Counters
<1> QED
  BY <1>1, <1>2, <1>3, <1>4, <1>5, <1>6, <1>7, <1>8, <1>9, <1>10, <1>11, <1>12,
     <1>13, <1>14, <1>15, <1>16, <1>17
  DEF Next, WorkerNext, MacroNext, RecordNext

\* Every step keeps the two threads at places of their code.
LEMMA PlacesStep == IInv /\ [Next]_vars => Places'
<1> SUFFICES ASSUME IInv, [Next]_vars PROVE Places'
  OBVIOUS
<1> USE WorkerIsNotMacro
    DEF IInv, TypeOK, ThreadsMatch, Places, macroVars, recorderVars, historyVars,
        othersVars
<1>1. ASSUME NEW m \in Macros, RequestMacro(m) PROVE Places'
  BY <1>1 DEF RequestMacro, Goto
<1>2. CASE SpawnMacro \/ OperatorStop \/ OperatorSweep \/ OperatorReset \/
            OperatorResetStart
  BY <1>2
  DEF SpawnMacro, OperatorStop, Goto, OperatorSweep, OperatorReset, ResetBegin,
      OperatorResetStart, ResetRestore
<1>3. ASSUME NEW c \in OperatorCodes, OperatorLaunch(c) PROVE Places'
  BY <1>3 DEF OperatorLaunch
<1>4. ASSUME NEW t \in {Worker, Macro}, ResetStop(t) PROVE Places'
  BY <1>4 DEF ResetStop, Goto
<1>5. ASSUME NEW t \in {Worker, Macro}, ResetSweep(t) \/ ResetHangs(t)
      PROVE  Places'
  BY <1>5 DEF ResetSweep, ResetHangs, Goto
<1>6. CASE Destroy \/ Destroyed \/ DestroyedRecorder \/ LoopBegin \/ LoopTest
  BY <1>6
  DEF Destroy, Goto, Destroyed, Terminate, DestroyedRecorder, LoopBegin, LoopTest
<1>7. CASE SequenceBegin \/ Check \/ StepSucceeds \/ StepFails \/ StepReset
  BY <1>7
  DEF SequenceBegin, Goto, Check, Return, StepSucceeds, StepFails, Abort, StepReset,
      ResetBegin
<1>8. CASE StepResetSucceeds \/ StepResetFails \/ AfterReset \/ Pulse \/ Wait
  BY <1>8
  DEF StepResetSucceeds, ResetRestore, Goto, StepResetFails, Abort, Return,
      AfterReset, Pulse, Wait
<1>9. CASE Returned \/ Finish \/ ReportMacro \/ RecorderLaunch \/ RecorderEnds
  BY <1>9 DEF Returned, Goto, Finish, ReportMacro, RecorderLaunch, RecorderEnds
<1>10. ASSUME NEW t \in {Worker, Macro}, StartTest(t) PROVE Places'
  BY <1>10, RecordTest
<1>11. ASSUME NEW t \in {Worker, Macro}, StartStore(t) PROVE Places'
  BY <1>11 DEF StartStore, RecordGoto
<1>12. ASSUME NEW t \in {Worker, Macro}, StartSpawn(t) PROVE Places'
  BY <1>12 DEF StartSpawn, RecordReturns, Terminate
<1>13. ASSUME NEW t \in {Worker, Macro}, StopTest(t) PROVE Places'
  BY <1>13, RecordTest
<1>14. ASSUME NEW t \in {Worker, Macro}, StopStore(t) PROVE Places'
  BY <1>14 DEF StopStore, RecordGoto
<1>15. ASSUME NEW t \in {Worker, Macro}, StopJoin(t) PROVE Places'
  BY <1>15 DEF StopJoin, RecordReturns, RecordFails, Return
<1>16. ASSUME NEW task \in tasks, TaskEnds(task) PROVE Places'
  BY <1>16 DEF TaskEnds
<1>17. CASE UNCHANGED vars
  BY <1>17 DEF vars
<1> HIDE DEF IInv, TypeOK, ThreadsMatch, Places
<1> QED
  BY <1>1, <1>2, <1>3, <1>4, <1>5, <1>6, <1>7, <1>8, <1>9, <1>10, <1>11, <1>12,
     <1>13, <1>14, <1>15, <1>16, <1>17
  DEF Next, WorkerNext, MacroNext, RecordNext

\* Every step keeps the values of the other variables.
LEMMA ContentsStep == IInv /\ [Next]_vars => Contents'
<1> SUFFICES ASSUME IInv, [Next]_vars PROVE Contents'
  OBVIOUS
<1> USE MacrosAssumption
    DEF IInv, TypeOK, ThreadsMatch, Contents, macroVars, recorderVars, historyVars,
        othersVars
<1>1. ASSUME NEW m \in Macros, RequestMacro(m) PROVE Contents'
  BY <1>1 DEF RequestMacro, Goto
<1>2. CASE SpawnMacro
  <2>1. tasks' \subseteq Background \X Launchers
    <3>1. \A task \in tasks : /\ task[1] \in Background
                            /\ (IF task[2] = Macro THEN "earlier" ELSE task[2])
                                  \in Launchers
      BY LaunchersKnown
    <3>2. tasks' = {<<task[1], IF task[2] = Macro THEN "earlier" ELSE task[2]>> :
                       task \in tasks}
      BY <1>2 DEF SpawnMacro
    <3> QED
      BY <3>1, <3>2
  <2>2. limit' \in CycleLimits \cup {0, 1}
    BY <1>2 DEF SpawnMacro
  <2> QED
    BY <1>2, <2>1, <2>2 DEF SpawnMacro
<1>3. ASSUME NEW c \in OperatorCodes, OperatorLaunch(c) PROVE Contents'
  <2>1. <<c, Worker>> \in Background \X Launchers
    BY LaunchersKnown
  <2> QED
    BY <1>3, <2>1 DEF OperatorLaunch
<1>4. CASE OperatorStop \/ OperatorSweep \/ OperatorReset \/ OperatorResetStart \/
            Destroy
  BY <1>4
  DEF OperatorStop, Goto, OperatorSweep, OperatorReset, ResetBegin,
      OperatorResetStart, ResetRestore, Destroy
<1>5. ASSUME NEW t \in {Worker, Macro},
            ResetStop(t) \/ ResetSweep(t) \/ ResetHangs(t)
      PROVE  Contents'
  BY <1>5 DEF ResetStop, Goto, ResetSweep, ResetHangs
<1>6. CASE Destroyed \/ DestroyedRecorder \/ LoopBegin \/ LoopTest \/ SequenceBegin
  BY <1>6
  DEF Destroyed, Terminate, Goto, DestroyedRecorder, LoopBegin, LoopTest,
      SequenceBegin
<1>7. CASE Check \/ StepFails \/ StepReset \/ StepResetSucceeds \/ StepResetFails
  BY <1>7
  DEF Check, Return, Goto, StepFails, Abort, StepReset, ResetBegin,
      StepResetSucceeds, ResetRestore, StepResetFails
<1>8. CASE StepSucceeds
  <2>1. \A c \in Background : <<c, Macro>> \in Background \X Launchers
    BY LaunchersKnown
  <2>2. tasks' \subseteq Background \X Launchers
    BY <1>8, <2>1 DEF StepSucceeds
  <2> QED
    BY <1>8, <2>2 DEF StepSucceeds
<1>9. CASE AfterReset \/ Pulse \/ Wait \/ Returned \/ Finish
  BY <1>9 DEF AfterReset, Goto, Pulse, Wait, Returned, Finish
<1>10. CASE ReportMacro \/ RecorderEnds \/ UNCHANGED vars
  BY <1>10 DEF ReportMacro, Goto, RecorderEnds, vars
<1>11. ASSUME NEW t \in {Worker, Macro}, StartTest(t) PROVE Contents'
  BY <1>11 DEF StartTest, Given, RecordGoto, RecordReturns
<1>12. ASSUME NEW t \in {Worker, Macro},
            StartStore(t) \/ StartSpawn(t)
      PROVE  Contents'
  BY <1>12 DEF StartStore, RecordGoto, StartSpawn, RecordReturns, Terminate
<1>13. ASSUME NEW t \in {Worker, Macro}, StopTest(t) PROVE Contents'
  BY <1>13 DEF StopTest, Given, RecordGoto, RecordReturns
<1>14. ASSUME NEW t \in {Worker, Macro}, StopStore(t) \/ StopJoin(t) PROVE Contents'
  BY <1>14 DEF StopStore, RecordGoto, StopJoin, RecordReturns, RecordFails, Return
<1>15. ASSUME NEW task \in tasks, TaskEnds(task) PROVE Contents'
  BY <1>15 DEF TaskEnds
<1>16. CASE RecorderLaunch
  <2>1. <<"READ_TEMPERATURE_SENSORS", "recorder">> \in Background \X Launchers
    BY LaunchersKnown
  <2> QED
    BY <1>16, <2>1 DEF RecorderLaunch
<1> HIDE DEF IInv, TypeOK, ThreadsMatch, Contents
<1> QED
  BY <1>1, <1>2, <1>3, <1>4, <1>5, <1>6, <1>7, <1>8, <1>9, <1>10, <1>11, <1>12,
     <1>13, <1>14, <1>15, <1>16
  DEF Next, WorkerNext, MacroNext, RecordNext

\* Every step keeps the count of the steps that returned true.
LEMMA CountStep == IInv /\ [Next]_vars => Counted' /\ InSequence'
<1> SUFFICES ASSUME IInv, [Next]_vars PROVE Counted' /\ InSequence'
  OBVIOUS
<1>1. \A m \in Macros :
         LET s == SequenceOf[m] IN
         /\ Len(s) \in Nat
         /\ Pairs(s, 1) = 0
         /\ \A n \in 1..Len(s) + 1 : Pairs(s, n) \in {0, 1}
  BY PairsGrow
<1> USE WorkerIsNotMacro, MacrosAssumption
    DEF IInv, TypeOK, ThreadsMatch, Counters, Counted, InSequence, AllDone,
        InCommand,
        AfterCommand, seq, InRecorder, macroVars, recorderVars, historyVars, othersVars
<1>2. ASSUME NEW m \in Macros, RequestMacro(m) PROVE Counted' /\ InSequence'
  BY <1>1, <1>2 DEF RequestMacro, Goto
<1>3. CASE SpawnMacro
  BY <1>1, <1>3 DEF SpawnMacro
<1>4. ASSUME NEW c \in OperatorCodes,
            OperatorLaunch(c)
      PROVE  Counted' /\ InSequence'
  BY <1>1, <1>4 DEF OperatorLaunch
<1>5. CASE OperatorStop
  BY <1>1, <1>5 DEF OperatorStop, Goto
<1>6. CASE OperatorSweep
  BY <1>1, <1>6 DEF OperatorSweep, Goto
<1>7. CASE OperatorReset
  BY <1>1, <1>7 DEF OperatorReset, ResetBegin, Goto
<1>8. ASSUME NEW t \in {Worker, Macro}, ResetStop(t) PROVE Counted' /\ InSequence'
  BY <1>1, <1>8 DEF ResetStop, Goto
<1>9. ASSUME NEW t \in {Worker, Macro}, ResetSweep(t) \/ ResetHangs(t)
      PROVE  Counted' /\ InSequence'
  <2>1. CASE ResetSweep(t)
    BY <1>1, <2>1 DEF ResetSweep, Goto
  <2>2. CASE ResetHangs(t)
    BY <1>1, <2>2 DEF ResetHangs, Goto
  <2> QED
    BY <1>9, <2>1, <2>2
<1>10. CASE OperatorResetStart
  BY <1>1, <1>10 DEF OperatorResetStart, ResetRestore, Goto
<1>11. CASE Destroy
  BY <1>1, <1>11 DEF Destroy, Goto
<1>12. CASE Destroyed
  BY <1>1, <1>12 DEF Destroyed, Terminate, Goto
<1>13. CASE DestroyedRecorder \/ LoopBegin \/ LoopTest
  BY <1>1, <1>13 DEF DestroyedRecorder, Goto, LoopBegin, LoopTest
<1>14. CASE SequenceBegin \/ Check
  BY <1>1, <1>14 DEF SequenceBegin, Goto, Check, Return
<1>15. CASE StepSucceeds \/ StepFails \/ StepReset
  BY <1>1, <1>15
  DEF StepSucceeds, Goto, StepFails, Abort, Return, StepReset, ResetBegin
<1>16. CASE StepResetSucceeds
  BY <1>1, <1>16 DEF StepResetSucceeds, ResetRestore, Goto
<1>17. CASE StepResetFails
  BY <1>1, <1>17 DEF StepResetFails, Abort, Return, Goto
<1>18. CASE AfterReset \/ Pulse \/ Returned
  BY <1>1, <1>18 DEF AfterReset, Goto, Pulse, Returned
<1>19. CASE Wait
  <2>1. /\ step \in 1..Len(seq) /\ done + Pairs(seq, step) = step
        /\ macro \in Macros /\ Len(seq) \in Nat
    BY <1>1, <1>19 DEF Wait, Goto
  <2>2. Paired(step) <=> PairedAt(seq, step)
    BY DEF Paired, PairedAt
  <2>3. CASE Paired(step)
    <3>1. step + 1 <= Len(seq) /\ Pairs(seq, step) = 0 /\ Pairs(seq, step + 2) = 1
      BY <2>1, <2>2, <2>3, PairsGrow
    <3> QED
      BY <1>1, <1>19, <2>1, <2>3, <3>1 DEF Wait, Goto
  <2>4. CASE ~Paired(step)
    <3>1. Pairs(seq, step + 1) = Pairs(seq, step)
      BY <2>1, <2>2, <2>4, PairsGrow
    <3> QED
      BY <1>1, <1>19, <2>1, <2>4, <3>1 DEF Wait, Goto
  <2> QED
    BY <2>3, <2>4
<1>20. CASE Finish \/ RecorderLaunch \/ RecorderEnds \/ UNCHANGED vars
  BY <1>1, <1>20 DEF Finish, Goto, RecorderLaunch, RecorderEnds, vars
<1>21. CASE ReportMacro
  BY <1>1, <1>21 DEF ReportMacro, Goto, SpoiledEnds
<1>22. ASSUME NEW t \in {Worker, Macro}, StartTest(t) PROVE Counted' /\ InSequence'
  <2>1. CASE t = Worker
    BY <1>22, <2>1, RecordTest
  <2>2. CASE t = Macro
    BY <1>1, <1>22, <2>2, RecordTest
  <2> QED
    BY <2>1, <2>2
<1>23. ASSUME NEW t \in {Worker, Macro}, StartStore(t) PROVE Counted' /\ InSequence'
  BY <1>1, <1>23 DEF StartStore, RecordGoto
<1>24. ASSUME NEW t \in {Worker, Macro}, StartSpawn(t) PROVE Counted' /\ InSequence'
  <2>1. CASE t = Worker
    <3>1. /\ pc'[Macro] \in {pc[Macro], "terminated"}
          /\ UNCHANGED <<done, ok, spoiled, thread, macro, step, report>>
      BY <1>24, <2>1
      DEF StartSpawn, RecordReturns, Terminate
    <3> QED
      BY <3>1
  <2>2. CASE t = Macro
    BY <1>1, <1>24, <2>2
    DEF StartSpawn, RecordReturns, Terminate
  <2> QED
    BY <2>1, <2>2
<1>25. ASSUME NEW t \in {Worker, Macro}, StopTest(t) PROVE Counted' /\ InSequence'
  <2>1. CASE t = Worker
    BY <1>25, <2>1, RecordTest
  <2>2. CASE t = Macro
    BY <1>1, <1>25, <2>2, RecordTest
  <2> QED
    BY <2>1, <2>2
<1>26. ASSUME NEW t \in {Worker, Macro}, StopStore(t) PROVE Counted' /\ InSequence'
  BY <1>1, <1>26 DEF StopStore, RecordGoto
<1>27. ASSUME NEW t \in {Worker, Macro}, StopJoin(t) PROVE Counted' /\ InSequence'
  <2>1. CASE t = Worker
    <3>1. /\ pc'[Macro] \in {pc[Macro], "terminated"}
          /\ UNCHANGED <<done, ok, spoiled, thread, macro, step, report>>
      BY <1>27, <2>1
      DEF StopJoin, RecordReturns, RecordFails, Return
    <3> QED
      BY <3>1
  <2>2. CASE t = Macro
    BY <1>1, <1>27, <2>2
    DEF StopJoin, RecordReturns, RecordFails, Return
  <2> QED
    BY <2>1, <2>2
<1>28. ASSUME NEW task \in tasks, TaskEnds(task) PROVE Counted' /\ InSequence'
  BY <1>1, <1>28 DEF TaskEnds
<1> HIDE DEF IInv, TypeOK, ThreadsMatch, Counters, Counted, InSequence
<1> QED
  BY <1>2, <1>3, <1>4, <1>5, <1>6, <1>7, <1>8, <1>9, <1>10, <1>11, <1>12, <1>13,
     <1>14, <1>15, <1>16, <1>17, <1>18, <1>19, <1>20, <1>21, <1>22, <1>23, <1>24,
     <1>25, <1>26, <1>27, <1>28
  DEF Next, WorkerNext, MacroNext, RecordNext

\* A failed step ends the macro.
LEMMA SpoiledStep == IInv /\ [Next]_vars => SpoiledEnds'
<1> SUFFICES ASSUME IInv, [Next]_vars PROVE SpoiledEnds'
  OBVIOUS
<1> USE WorkerIsNotMacro
    DEF IInv, TypeOK, ThreadsMatch, SpoiledEnds, macroVars, recorderVars,
        historyVars, othersVars
<1>1. ASSUME NEW m \in Macros, RequestMacro(m) PROVE SpoiledEnds'
  BY <1>1 DEF RequestMacro, Goto
<1>2. CASE SpawnMacro \/ OperatorStop \/ OperatorSweep \/ OperatorReset \/
            OperatorResetStart
  BY <1>2
  DEF SpawnMacro, OperatorStop, Goto, OperatorSweep, OperatorReset, ResetBegin,
      OperatorResetStart, ResetRestore
<1>3. ASSUME NEW c \in OperatorCodes, OperatorLaunch(c) PROVE SpoiledEnds'
  BY <1>3 DEF OperatorLaunch
<1>4. ASSUME NEW t \in {Worker, Macro},
            ResetStop(t) \/ ResetSweep(t) \/ ResetHangs(t)
      PROVE  SpoiledEnds'
  BY <1>4 DEF ResetStop, Goto, ResetSweep, ResetHangs
<1>5. CASE Destroy \/ Destroyed
  BY <1>5 DEF Destroy, Goto, Destroyed, Terminate
<1>6. CASE DestroyedRecorder \/ LoopBegin \/ LoopTest
  BY <1>6 DEF DestroyedRecorder, Goto, LoopBegin, LoopTest
<1>7. CASE SequenceBegin \/ Check \/ StepSucceeds \/ StepFails \/ StepReset
  BY <1>7
  DEF SequenceBegin, Goto, Check, Return, StepSucceeds, StepFails, Abort, StepReset,
      ResetBegin
<1>8. CASE StepResetSucceeds \/ StepResetFails \/ AfterReset \/ Pulse \/ Wait
  BY <1>8
  DEF StepResetSucceeds, ResetRestore, Goto, StepResetFails, Abort, Return,
      AfterReset, Pulse, Wait
<1>9. CASE Returned \/ Finish \/ ReportMacro \/ RecorderLaunch \/ RecorderEnds
  BY <1>9 DEF Returned, Goto, Finish, ReportMacro, RecorderLaunch, RecorderEnds
<1>10. ASSUME NEW t \in {Worker, Macro}, StartTest(t) PROVE SpoiledEnds'
  BY <1>10 DEF StartTest, Given, RecordGoto, RecordReturns
<1>11. ASSUME NEW t \in {Worker, Macro},
            StartStore(t) \/ StartSpawn(t)
      PROVE  SpoiledEnds'
  BY <1>11 DEF StartStore, RecordGoto, StartSpawn, RecordReturns, Terminate
<1>12. ASSUME NEW t \in {Worker, Macro}, StopTest(t) PROVE SpoiledEnds'
  BY <1>12 DEF StopTest, Given, RecordGoto, RecordReturns
<1>13. ASSUME NEW t \in {Worker, Macro},
            StopStore(t) \/ StopJoin(t)
      PROVE  SpoiledEnds'
  BY <1>13 DEF StopStore, RecordGoto, StopJoin, RecordReturns, RecordFails, Return
<1>14. ASSUME NEW task \in tasks, TaskEnds(task) PROVE SpoiledEnds'
  BY <1>14 DEF TaskEnds
<1>15. CASE UNCHANGED vars
  BY <1>15 DEF vars
<1> HIDE DEF IInv, TypeOK, ThreadsMatch, SpoiledEnds
<1> QED
  BY <1>1, <1>2, <1>3, <1>4, <1>5, <1>6, <1>7, <1>8, <1>9, <1>10, <1>11, <1>12,
     <1>13, <1>14, <1>15
  DEF Next, WorkerNext, MacroNext, RecordNext

\* Every step keeps the processes of the steps apart.
LEMMA ApartStep == IInv /\ [Next]_vars => StepsApart'
<1> SUFFICES ASSUME IInv, [Next]_vars PROVE StepsApart'
  OBVIOUS
<1> USE WorkerIsNotMacro
    DEF IInv, TypeOK, ThreadsMatch, StepsApart, NoneOfMacro, InCommand, seq,
        macroVars, recorderVars, historyVars, othersVars
<1>1. ASSUME NEW m \in Macros, RequestMacro(m) PROVE StepsApart'
  BY <1>1 DEF RequestMacro, Goto
<1>2. CASE SpawnMacro
  <2>1. \A task \in tasks' : task[2] # Macro
    BY <1>2 DEF SpawnMacro, Macro
  <2> QED
    BY <1>2, <2>1 DEF SpawnMacro
<1>3. ASSUME NEW c \in OperatorCodes, OperatorLaunch(c) PROVE StepsApart'
  BY <1>3 DEF OperatorLaunch
<1>4. CASE OperatorStop \/ OperatorSweep
  BY <1>4 DEF OperatorStop, Goto, OperatorSweep
<1>5. CASE OperatorReset \/ OperatorResetStart \/ Destroy
  BY <1>5
  DEF OperatorReset, ResetBegin, Goto, OperatorResetStart, ResetRestore, Destroy
<1>6. ASSUME NEW t \in {Worker, Macro}, ResetStop(t) PROVE StepsApart'
  BY <1>6 DEF ResetStop, Goto
<1>7. ASSUME NEW t \in {Worker, Macro}, ResetSweep(t) \/ ResetHangs(t)
      PROVE  StepsApart'
  BY <1>7 DEF ResetSweep, ResetHangs, Goto
<1>8. CASE Destroyed
  BY <1>8 DEF Destroyed, Terminate, Goto
<1>9. CASE DestroyedRecorder
  BY <1>9 DEF DestroyedRecorder, Goto
<1>10. CASE LoopBegin \/ LoopTest \/ SequenceBegin
  BY <1>10 DEF LoopBegin, Goto, LoopTest, SequenceBegin
<1>11. CASE Check \/ StepSucceeds \/ StepFails \/ StepReset \/ StepResetSucceeds
  BY <1>11
  DEF Check, Return, Goto, StepSucceeds, StepFails, Abort, StepReset, ResetBegin,
      StepResetSucceeds, ResetRestore
<1>12. CASE StepResetFails \/ AfterReset \/ Pulse \/ Returned \/ Finish
  BY <1>12
  DEF StepResetFails, Abort, Return, Goto, AfterReset, Pulse, Returned, Finish
<1>13. CASE Wait
  BY <1>13 DEF Wait, Goto, NoneRunning
<1>14. CASE ReportMacro \/ RecorderEnds \/ UNCHANGED vars
  BY <1>14 DEF ReportMacro, Goto, RecorderEnds, vars
<1>15. ASSUME NEW t \in {Worker, Macro}, StartTest(t) PROVE StepsApart'
  BY <1>15, RecordTest
<1>16. ASSUME NEW t \in {Worker, Macro}, StartStore(t) PROVE StepsApart'
  BY <1>16 DEF StartStore, RecordGoto
<1>17. ASSUME NEW t \in {Worker, Macro}, StartSpawn(t) PROVE StepsApart'
  BY <1>17 DEF StartSpawn, RecordReturns, Terminate
<1>18. ASSUME NEW t \in {Worker, Macro}, StopTest(t) PROVE StepsApart'
  BY <1>18, RecordTest
<1>19. ASSUME NEW t \in {Worker, Macro}, StopStore(t) PROVE StepsApart'
  BY <1>19 DEF StopStore, RecordGoto
<1>20. ASSUME NEW t \in {Worker, Macro}, StopJoin(t) PROVE StepsApart'
  BY <1>20 DEF StopJoin, RecordReturns, RecordFails, Return
<1>21. ASSUME NEW task \in tasks, TaskEnds(task) PROVE StepsApart'
  BY <1>21 DEF TaskEnds
<1>22. CASE RecorderLaunch
  <2>1. \A task \in tasks' : task \in tasks \/ task[2] # Macro
    BY <1>22 DEF RecorderLaunch, Macro
  <2> QED
    BY <1>22, <2>1 DEF RecorderLaunch
<1> HIDE DEF IInv, TypeOK, ThreadsMatch, StepsApart, NoneOfMacro, InCommand, seq
<1> QED
  BY <1>1, <1>2, <1>3, <1>4, <1>5, <1>6, <1>7, <1>8, <1>9, <1>10, <1>11, <1>12,
     <1>13, <1>14, <1>15, <1>16, <1>17, <1>18, <1>19, <1>20, <1>21, <1>22
  DEF Next, WorkerNext, MacroNext, RecordNext

\* A macro that STOP_DAQ has caught begins no step.
LEMMA StopStep == IInv /\ [Next]_vars => (StopHeeded /\ StopLeavesFlagDown)'
<1> SUFFICES ASSUME IInv, [Next]_vars PROVE (StopHeeded /\ StopLeavesFlagDown)'
  OBVIOUS
<1> USE WorkerIsNotMacro
    DEF IInv, TypeOK, ThreadsMatch, StopHeeded, StopLeavesFlagDown, macroVars,
        recorderVars, historyVars, othersVars
<1>1. ASSUME NEW m \in Macros,
            RequestMacro(m)
      PROVE  (StopHeeded /\ StopLeavesFlagDown)'
  BY <1>1 DEF RequestMacro, Goto
<1>2. CASE SpawnMacro \/ OperatorStop
  BY <1>2 DEF SpawnMacro, OperatorStop, Goto
<1>3. ASSUME NEW c \in OperatorCodes,
            OperatorLaunch(c)
      PROVE  (StopHeeded /\ StopLeavesFlagDown)'
  BY <1>3 DEF OperatorLaunch
<1>4. CASE OperatorSweep
  BY <1>4 DEF OperatorSweep, Goto
<1>5. CASE OperatorReset
  BY <1>5 DEF OperatorReset, ResetBegin, Goto
<1>6. ASSUME NEW t \in {Worker, Macro},
            ResetStop(t)
      PROVE  (StopHeeded /\ StopLeavesFlagDown)'
  BY <1>6 DEF ResetStop, Goto
<1>7. ASSUME NEW t \in {Worker, Macro},
            ResetSweep(t) \/ ResetHangs(t)
      PROVE  (StopHeeded /\ StopLeavesFlagDown)'
  <2>1. CASE ResetSweep(t)
    BY <2>1 DEF ResetSweep, Goto
  <2>2. CASE ResetHangs(t)
    BY <2>2 DEF ResetHangs, Goto
  <2> QED
    BY <1>7, <2>1, <2>2
<1>8. CASE OperatorResetStart
  BY <1>8 DEF OperatorResetStart, ResetRestore, Goto
<1>9. CASE Destroy
  BY <1>9 DEF Destroy, Goto
<1>10. CASE Destroyed
  BY <1>10 DEF Destroyed, Terminate, Goto
<1>11. CASE DestroyedRecorder
  BY <1>11 DEF DestroyedRecorder, Goto
<1>12. CASE LoopBegin \/ LoopTest
  BY <1>12 DEF LoopBegin, Goto, LoopTest
<1>13. CASE SequenceBegin \/ Check \/ StepSucceeds \/ StepFails \/ StepReset
  BY <1>13
  DEF SequenceBegin, Goto, Check, Return, StepSucceeds, StepFails, Abort, StepReset,
      ResetBegin
<1>14. CASE StepResetSucceeds \/ StepResetFails \/ AfterReset \/ Pulse \/ Wait
  BY <1>14
  DEF StepResetSucceeds, ResetRestore, Goto, StepResetFails, Abort, Return,
      AfterReset, Pulse, Wait
<1>15. CASE Returned \/ Finish \/ ReportMacro \/ RecorderLaunch \/ RecorderEnds
  BY <1>15 DEF Returned, Goto, Finish, ReportMacro, RecorderLaunch, RecorderEnds
<1>16. ASSUME NEW t \in {Worker, Macro},
            StartTest(t)
      PROVE  (StopHeeded /\ StopLeavesFlagDown)'
  BY <1>16, RecordTest
<1>17. ASSUME NEW t \in {Worker, Macro},
            StartStore(t)
      PROVE  (StopHeeded /\ StopLeavesFlagDown)'
  BY <1>17 DEF StartStore, RecordGoto
<1>18. ASSUME NEW t \in {Worker, Macro},
            StartSpawn(t)
      PROVE  (StopHeeded /\ StopLeavesFlagDown)'
  <2>1. CASE t = Worker
    <3>1. pc'[Macro] \in {pc[Macro], "terminated"} /\ UNCHANGED <<stopped, flag>>
      BY <1>18, <2>1 DEF StartSpawn, RecordReturns, Terminate
    <3> QED
      BY <3>1
  <2>2. CASE t = Macro
    <3>1. ~stopped /\ stopped' = stopped
      BY <1>18, <2>2 DEF StartSpawn, RecordReturns, Terminate
    <3> QED
      BY <3>1
  <2> QED
    BY <2>1, <2>2
<1>19. ASSUME NEW t \in {Worker, Macro},
            StopTest(t)
      PROVE  (StopHeeded /\ StopLeavesFlagDown)'
  BY <1>19, RecordTest
<1>20. ASSUME NEW t \in {Worker, Macro},
            StopStore(t)
      PROVE  (StopHeeded /\ StopLeavesFlagDown)'
  BY <1>20 DEF StopStore, RecordGoto
<1>21. ASSUME NEW t \in {Worker, Macro},
            StopJoin(t)
      PROVE  (StopHeeded /\ StopLeavesFlagDown)'
  <2>1. CASE t = Worker
    <3>1. pc'[Macro] \in {pc[Macro], "terminated"} /\ UNCHANGED <<stopped, flag>>
      BY <1>21, <2>1 DEF StopJoin, RecordReturns, RecordFails, Return
    <3> QED
      BY <3>1
  <2>2. CASE t = Macro
    <3>1. ~stopped /\ stopped' = stopped
      BY <1>21, <2>2 DEF StopJoin, RecordReturns, RecordFails, Return
    <3> QED
      BY <3>1
  <2> QED
    BY <2>1, <2>2
<1>22. ASSUME NEW task \in tasks,
            TaskEnds(task)
      PROVE  (StopHeeded /\ StopLeavesFlagDown)'
  BY <1>22 DEF TaskEnds
<1>23. CASE UNCHANGED vars
  BY <1>23 DEF vars
<1> HIDE DEF IInv, TypeOK, ThreadsMatch, StopHeeded, StopLeavesFlagDown
<1> QED
  BY <1>1, <1>2, <1>3, <1>4, <1>5, <1>6, <1>7, <1>8, <1>9, <1>10, <1>11, <1>12,
     <1>13, <1>14, <1>15, <1>16, <1>17, <1>18, <1>19, <1>20, <1>21, <1>22, <1>23
  DEF Next, WorkerNext, MacroNext, RecordNext

\* Every step keeps the recorder's thread with its flag.
LEMMA RecorderStep == IInv /\ [Next]_vars => (RecorderFollowsFlag /\ RecorderPlaces)'
<1> SUFFICES ASSUME IInv, [Next]_vars PROVE (RecorderFollowsFlag /\ RecorderPlaces)'
  OBVIOUS
<1> USE WorkerIsNotMacro
    DEF IInv, TypeOK, ThreadsMatch, RecorderFollowsFlag, RecorderPlaces, InRecorder,
        macroVars, recorderVars, historyVars, othersVars
<1>1. ASSUME NEW m \in Macros,
            RequestMacro(m)
      PROVE  (RecorderFollowsFlag /\ RecorderPlaces)'
  BY <1>1 DEF RequestMacro, Goto
<1>2. CASE SpawnMacro
  BY <1>2 DEF SpawnMacro
<1>3. ASSUME NEW c \in OperatorCodes,
            OperatorLaunch(c)
      PROVE  (RecorderFollowsFlag /\ RecorderPlaces)'
  BY <1>3 DEF OperatorLaunch
<1>4. CASE OperatorStop
  BY <1>4 DEF OperatorStop, Goto
<1>5. CASE OperatorSweep
  BY <1>5 DEF OperatorSweep, Goto
<1>6. CASE OperatorReset
  BY <1>6 DEF OperatorReset, ResetBegin, Goto
<1>7. ASSUME NEW t \in {Worker, Macro},
            ResetStop(t)
      PROVE  (RecorderFollowsFlag /\ RecorderPlaces)'
  BY <1>7 DEF ResetStop, Goto
<1>8. ASSUME NEW t \in {Worker, Macro},
            ResetSweep(t) \/ ResetHangs(t)
      PROVE  (RecorderFollowsFlag /\ RecorderPlaces)'
  <2>1. CASE ResetSweep(t)
    BY <2>1 DEF ResetSweep, Goto
  <2>2. CASE ResetHangs(t)
    BY <2>2 DEF ResetHangs, Goto
  <2> QED
    BY <1>8, <2>1, <2>2
<1>9. CASE OperatorResetStart
  BY <1>9 DEF OperatorResetStart, ResetRestore, Goto
<1>10. CASE Destroy
  BY <1>10 DEF Destroy, Goto
<1>11. CASE Destroyed
  BY <1>11 DEF Destroyed, Terminate, Goto
<1>12. CASE DestroyedRecorder
  BY <1>12 DEF DestroyedRecorder, Goto
<1>13. CASE LoopBegin
  BY <1>13 DEF LoopBegin, Goto
<1>14. CASE LoopTest
  BY <1>14 DEF LoopTest, Goto
<1>15. CASE SequenceBegin
  BY <1>15 DEF SequenceBegin, Goto
<1>16. CASE Check
  <2>1. /\ UNCHANGED <<recording, recorder, overlapped>>
        /\ pc'[Worker] = pc[Worker] /\ ~InRecorder(pc[Macro]) /\ ~InRecorder(pc'[Macro])
        /\ pc[Worker] # "terminated"
    BY <1>16 DEF Check, Goto
  <2> QED
    BY <2>1
<1>17. CASE StepSucceeds
  BY <1>17 DEF StepSucceeds, Goto
<1>18. CASE StepFails
  BY <1>18 DEF StepFails, Abort, Return, Goto
<1>19. CASE StepReset
  BY <1>19 DEF StepReset, ResetBegin, Goto
<1>20. CASE StepResetSucceeds
  BY <1>20 DEF StepResetSucceeds, ResetRestore, Goto
<1>21. CASE StepResetFails
  BY <1>21 DEF StepResetFails, Abort, Return, Goto
<1>22. CASE AfterReset
  BY <1>22 DEF AfterReset, Goto
<1>23. CASE Pulse
  BY <1>23 DEF Pulse, Goto
<1>24. CASE Wait
  BY <1>24 DEF Wait, Goto
<1>25. CASE Returned
  <2>1. /\ UNCHANGED <<recording, recorder, overlapped>>
        /\ pc'[Worker] = pc[Worker] /\ ~InRecorder(pc[Macro]) /\ ~InRecorder(pc'[Macro])
        /\ pc[Worker] # "terminated"
    BY <1>25 DEF Returned, Goto
  <2> QED
    BY <2>1
<1>26. CASE Finish
  BY <1>26 DEF Finish, Goto
<1>27. CASE ReportMacro
  BY <1>27 DEF ReportMacro, Goto
<1>28. ASSUME NEW t \in {Worker, Macro},
            StartTest(t)
      PROVE  (RecorderFollowsFlag /\ RecorderPlaces)'
  <2>1. /\ pc[t] \in {"idle", "dispatch"}
        /\ pc'[t] \in {"idle", "pulse", "recStart", "recStop"}
        /\ \A u \in {Worker, Macro} : u # t => pc'[u] = pc[u]
        /\ pc[Worker] # "terminated"
        /\ UNCHANGED <<recording, recorder, thread>>
    BY <1>28, RecordTest
  <2>2. ASSUME ~overlapped', InRecorder(pc'[t])
        PROVE  /\ \A u \in {Worker, Macro} : ~InRecorder(pc[u])
               /\ pc[Worker] # "destroyRecorder"
    BY <1>28, <2>1, <2>2, RecordTest
  <2>3. ~overlapped' => ~overlapped
    BY <1>28, RecordTest
  <2>4. /\ pc'[t] = "recStart" => ~recording
        /\ pc'[t] = "recStop" => recording
    BY <1>28, RecordTest
  <2> QED
    BY <2>1, <2>2, <2>3, <2>4
<1>29. ASSUME NEW t \in {Worker, Macro},
            StartStore(t)
      PROVE  (RecorderFollowsFlag /\ RecorderPlaces)'
  BY <1>29 DEF StartStore, RecordGoto
<1>30. ASSUME NEW t \in {Worker, Macro},
            StartSpawn(t)
      PROVE  (RecorderFollowsFlag /\ RecorderPlaces)'
  <2>1. pc[t] = "recSpawn" /\ UNCHANGED <<recording, overlapped, thread>>
    BY <1>30 DEF StartSpawn, RecordReturns
  <2>2. ASSUME ~overlapped
        PROVE  /\ recorder' = "live" /\ recording
               /\ pc'[t] \in {"idle", "pulse"}
               /\ \A u \in {Worker, Macro} : u # t => pc'[u] = pc[u]
    BY <1>30, <2>1, <2>2 DEF StartSpawn, RecordReturns
  <2> QED
    BY <2>1, <2>2
<1>31. ASSUME NEW t \in {Worker, Macro},
            StopTest(t)
      PROVE  (RecorderFollowsFlag /\ RecorderPlaces)'
  <2>1. /\ pc[t] \in {"idle", "dispatch"}
        /\ pc'[t] \in {"idle", "pulse", "recStart", "recStop"}
        /\ \A u \in {Worker, Macro} : u # t => pc'[u] = pc[u]
        /\ pc[Worker] # "terminated"
        /\ UNCHANGED <<recording, recorder, thread>>
    BY <1>31, RecordTest
  <2>2. ASSUME ~overlapped', InRecorder(pc'[t])
        PROVE  /\ \A u \in {Worker, Macro} : ~InRecorder(pc[u])
               /\ pc[Worker] # "destroyRecorder"
    BY <1>31, <2>1, <2>2, RecordTest
  <2>3. ~overlapped' => ~overlapped
    BY <1>31, RecordTest
  <2>4. /\ pc'[t] = "recStart" => ~recording
        /\ pc'[t] = "recStop" => recording
    BY <1>31, RecordTest
  <2> QED
    BY <2>1, <2>2, <2>3, <2>4
<1>32. ASSUME NEW t \in {Worker, Macro},
            StopStore(t)
      PROVE  (RecorderFollowsFlag /\ RecorderPlaces)'
  BY <1>32 DEF StopStore, RecordGoto
<1>33. ASSUME NEW t \in {Worker, Macro},
            StopJoin(t)
      PROVE  (RecorderFollowsFlag /\ RecorderPlaces)'
  <2>1. /\ pc[t] = "recJoin" /\ recorder' = "none"
        /\ UNCHANGED <<recording, overlapped, thread>>
    BY <1>33 DEF StopJoin, RecordReturns, RecordFails
  <2>2. /\ pc'[t] \in {"idle", "pulse", "returned"}
        /\ \A u \in {Worker, Macro} : u # t => pc'[u] = pc[u]
    BY <1>33 DEF StopJoin, RecordReturns, RecordFails
  <2> QED
    BY <2>1, <2>2
<1>34. ASSUME NEW task \in tasks,
            TaskEnds(task)
      PROVE  (RecorderFollowsFlag /\ RecorderPlaces)'
  BY <1>34 DEF TaskEnds
<1>35. CASE RecorderLaunch \/ RecorderEnds
  BY <1>35 DEF RecorderLaunch, RecorderEnds
<1>36. CASE UNCHANGED vars
  BY <1>36 DEF vars
<1> HIDE DEF IInv, TypeOK, ThreadsMatch, RecorderFollowsFlag, RecorderPlaces, InRecorder
<1> QED
  BY <1>1, <1>2, <1>3, <1>4, <1>5, <1>6, <1>7, <1>8, <1>9, <1>10, <1>11, <1>12,
     <1>13, <1>14, <1>15, <1>16, <1>17, <1>18, <1>19, <1>20, <1>21, <1>22, <1>23,
     <1>24, <1>25, <1>26, <1>27, <1>28, <1>29, <1>30, <1>31, <1>32, <1>33, <1>34,
     <1>35, <1>36
  DEF Next, WorkerNext, MacroNext, RecordNext

-----------------------------------------------------------------------------
\* The initial state satisfies the invariant.
LEMMA InitIInv == Init => IInv
<1> SUFFICES ASSUME Init PROVE IInv
  OBVIOUS
<1> USE WorkerIsNotMacro, MacrosAssumption DEF Init
<1>1. Flags /\ Places /\ Contents /\ Counters /\ InSequence
  <2>1. Flags
    BY DEF Flags
  <2>2. Places
    BY DEF Places
  <2>3. Contents
    BY DEF Contents
  <2>4. Counters /\ InSequence
    BY DEF Counters, InSequence
  <2> QED
    BY <2>1, <2>2, <2>3, <2>4
<1>2. TypeOK
  BY <1>1 DEF Flags, Places, Contents, Counters, InSequence, TypeOK
<1>3. ThreadsMatch /\ Counted /\ SpoiledEnds /\ StepsApart /\ StopHeeded
      /\ StopLeavesFlagDown
  BY
  DEF ThreadsMatch, Counted, SpoiledEnds, StepsApart, StopHeeded,
      StopLeavesFlagDown,
         InCommand, AfterCommand
<1>4. RecorderFollowsFlag /\ RecorderPlaces
  BY DEF RecorderFollowsFlag, RecorderPlaces, InRecorder
<1> QED
  BY <1>1, <1>2, <1>3, <1>4 DEF IInv

\* The invariant holds throughout every behaviour.
THEOREM Invariance == Spec => []IInv
<1>1. IInv /\ [Next]_vars => IInv'
  <2> SUFFICES ASSUME IInv, [Next]_vars PROVE IInv'
    OBVIOUS
  <2>1. TypeOK /\ ThreadsMatch
    BY DEF IInv
  <2>2. Flags' /\ Places' /\ Contents' /\ Counters' /\ InSequence'
    BY <2>1, FlagsStep, PlacesStep, ContentsStep, CountersStep, CountStep
  <2>3. TypeOK'
    BY <2>2 DEF Flags, Places, Contents, Counters, InSequence, TypeOK
  <2> QED
    BY <2>2, <2>3, ThreadsStep, CountStep, SpoiledStep, ApartStep, StopStep,
       RecorderStep
    DEF IInv
<1> QED
  BY InitIInv, <1>1, PTL DEF Spec

\* Type correctness, with the bound on the cycles and the end of a sequence.
THEOREM TypeCorrect == Spec => []TypeOK
<1>1. IInv => TypeOK
  BY DEF IInv
<1> QED
  BY Invariance, <1>1, PTL

\* A macro that reports success has dispatched every step, and each returned
\* true.
THEOREM SuccessIsEarned == Spec => []SuccessMeansAllSteps
<1>1. IInv => SuccessMeansAllSteps
  <2> SUFFICES ASSUME IInv, report = "success", macro # Cyclic, thread = "done"
               PROVE  /\ ~spoiled
                      /\ done + (IF \E i \in 1..Len(seq) : Paired(i) THEN 1 ELSE 0)
                         = Len(seq)
    BY DEF SuccessMeansAllSteps
  <2>1. AllDone /\ ~spoiled
    BY DEF IInv, Counted
  <2>2. \A i \in 1..Len(seq) : Paired(i) <=> (PairedAt(seq, i) /\ i < Len(seq) + 1)
    BY DEF Paired, PairedAt
  <2> QED
    BY <2>1, <2>2 DEF AllDone, Pairs
<1> QED
  BY Invariance, <1>1, PTL

\* However the operator interferes, short of a RESET_DAQ that restores the flag,
\* a step begins only when no process of an earlier step is registered.
THEOREM StepsAreApart == Spec => []StepsDoNotOverlap
<1>1. IInv => StepsDoNotOverlap
  BY DEF IInv, StepsApart, NoneOfMacro, InCommand, StepsDoNotOverlap
<1> QED
  BY Invariance, <1>1, PTL

\* A macro that a STOP_DAQ has caught between its steps begins no other.
THEOREM StopIsHeeded == Spec => []StopHeeded
<1>1. IInv => StopHeeded
  BY DEF IInv
<1> QED
  BY Invariance, <1>1, PTL

\* Unless two threads were in startTempRecord or stopTempRecord at a time, the
\* thread object of the recording follows its flag.
THEOREM RecorderIsConsistent == Spec => []RecorderFollowsFlag
<1>1. IInv => RecorderFollowsFlag
  BY DEF IInv
<1> QED
  BY Invariance, <1>1, PTL

=============================================================================
