------------------------- MODULE BackgroundTasksProofs -------------------------
(***************************************************************************)
(* For any set of processes and of dispatching and recording threads: a    *)
(* background task is reported at most once and truthfully, its output is  *)
(* published exactly if that report is a success, no child is lost, and    *)
(* STOP_DAQ never signals a task that was already collected.               *)
(***************************************************************************)
EXTENDS BackgroundTasks, TLAPS

-----------------------------------------------------------------------------
\* The holder of pidMutex_ visits entries of the registry only.
TodoRegistered ==
    /\ todo \subseteq registry
    /\ owner = Nobody => todo = {}

\* A pid that was never handed out has left no trace.
UnbornClean ==
    \A p \in Pids :
        /\ proc[p] = "unborn" <=> kind[p] = "none"
        /\ kind[p] = "none" =>
              /\ p \notin registry
              /\ p \notin reaped
              /\ sent[p] = <<>>
              /\ \A t \in Threads : mine[t] # p

\* Between its fork and its registration a task belongs to one thread, and
\* nobody has collected or reported it.
ForkedClean ==
    \A t \in Threads : pc[t] = "forked" =>
        /\ mine[t] \in Pids
        /\ kind[mine[t]] # "stop"
        /\ mine[t] \notin reaped
        /\ mine[t] \notin registry
        /\ sent[mine[t]] = <<>>
        /\ \A u \in Threads : u # t => mine[u] # mine[t]

\* What a thread inside STOP_DAQ puts into the registry is a stop script.
StopPid ==
    \A t \in Threads :
        /\ pc[t] = "stopForked" => mine[t] \in Pids
        /\ pc[t] \in {"stopForked", "stopWait", "stopKill"} /\ mine[t] # NoPid
              => kind[mine[t]] = "stop"

\* A registered task is uncollected, and unreported until a sweep has passed it.
TaskPending ==
    \A p \in Pids : kind[p] # "stop" =>
        /\ p \in registry => p \notin reaped
        /\ p \in registry /\ (owner \notin Threads \/ p \in todo) => sent[p] = <<>>
        /\ Len(sent[p]) <= 1

IInv == TypeOK /\ TodoRegistered /\ UnbornClean /\ ForkedClean /\ StopPid
        /\ TaskPending

-----------------------------------------------------------------------------
\* The initial state satisfies the invariant.
LEMMA InitIInv == Init => IInv
<1> SUFFICES ASSUME Init PROVE IInv
  OBVIOUS
<1>1. TypeOK
  BY ThreadsAssumption DEF Init, TypeOK
<1>2. TodoRegistered /\ UnbornClean /\ ForkedClean /\ StopPid /\ TaskPending
  BY ThreadsAssumption
  DEF Init, TodoRegistered, UnbornClean, ForkedClean, StopPid, TaskPending
<1> QED
  BY <1>1, <1>2 DEF IInv

\* Every step preserves the shape of the state and who holds pidMutex_.
LEMMA TypeOKStep == IInv /\ [Next]_vars => TypeOK'
<1> SUFFICES ASSUME IInv, [Next]_vars PROVE TypeOK'
  OBVIOUS
<1> USE ThreadsAssumption DEF IInv, TypeOK, Threads, Kinds, Status, Success, Fail,
                              Interrupted
<1>1. ASSUME NEW t \in Threads, NEW p \in Pids, NEW k \in {"command", "record"},
             Fork(t, p, k)
      PROVE  TypeOK'
  BY <1>1 DEF Fork, Spawn
<1>2. ASSUME NEW t \in Threads, Register(t) PROVE TypeOK'
  BY <1>2 DEF Register, ForkedClean
<1>3. ASSUME NEW t \in Dispatchers, StopFork(t) PROVE TypeOK'
  <2>1. ASSUME NEW p \in Pids, Spawn(t, p, "stop"),
               pc' = [pc EXCEPT ![t] = "stopForked"]
        PROVE  TypeOK'
    BY <1>3, <2>1 DEF StopFork, Spawn
  <2>2. CASE /\ mine' = [mine EXCEPT ![t] = NoPid]
             /\ pc' = [pc EXCEPT ![t] = "stopWait"]
             /\ UNCHANGED <<kind, proc>>
    BY <1>3, <2>2 DEF StopFork
  <2> HIDE DEF TypeOK
  <2> QED
    BY <1>3, <2>1, <2>2 DEF StopFork
<1>4. ASSUME NEW t \in Dispatchers, StopRegister(t) PROVE TypeOK'
  BY <1>4 DEF StopRegister, StopPid
<1>5. ASSUME NEW t \in Dispatchers, StopLock(t) PROVE TypeOK'
  BY <1>5 DEF StopLock
<1>6. ASSUME NEW t \in Dispatchers, NEW p \in Pids, StopKill(t, p) PROVE TypeOK'
  BY <1>6 DEF StopKill, Report
<1>7. ASSUME NEW t \in Dispatchers, StopClear(t) PROVE TypeOK'
  BY <1>7 DEF StopClear
<1>8. CASE MonitorNext
  <2>1. CASE MonitorLock
    BY <2>1 DEF MonitorLock
  <2>2. ASSUME NEW p \in Pids, MonitorReap(p) PROVE TypeOK'
    <3>1. sent' \in [Pids -> Seq(Status)]
      <4>1. CASE kind[p] = "record"
        BY <2>2, <4>1 DEF MonitorReap
      <4>2. ASSUME NEW status \in Status, Report(p, status)
            PROVE  sent' \in [Pids -> Seq(Status)]
        BY <4>2 DEF Report
      <4>3. kind[p] # "record" => \E status \in Status : Report(p, status)
        BY <2>2 DEF MonitorReap
      <4> QED
        BY <4>1, <4>2, <4>3
    <3>2. linked' \in SUBSET Pids
      BY <2>2 DEF MonitorReap
    <3> QED
      BY <2>2, <3>1, <3>2 DEF MonitorReap
  <2>3. ASSUME NEW p \in Pids, MonitorForget(p) PROVE TypeOK'
    BY <2>3 DEF MonitorForget
  <2>4. ASSUME NEW p \in Pids, MonitorSkip(p) PROVE TypeOK'
    BY <2>4 DEF MonitorSkip
  <2>5. CASE MonitorUnlock
    BY <2>5 DEF MonitorUnlock
  <2> HIDE DEF TypeOK
  <2> QED
    BY <1>8, <2>1, <2>2, <2>3, <2>4, <2>5 DEF MonitorNext
<1>9. CASE StopMonitor
  BY <1>9 DEF StopMonitor
<1>10. ASSUME NEW p \in Pids, Exit(p) PROVE TypeOK'
  BY <1>10 DEF Exit
<1>11. CASE UNCHANGED vars
  BY <1>11 DEF vars
<1> HIDE DEF IInv, TypeOK
<1> QED
  BY <1>1, <1>2, <1>3, <1>4, <1>5, <1>6, <1>7, <1>8, <1>9, <1>10, <1>11
  DEF Next, StopNext

\* Every step preserves the rest of the invariant.
LEMMA BookkeepingStep ==
    IInv /\ [Next]_vars => (TodoRegistered /\ UnbornClean /\ ForkedClean
                            /\ StopPid /\ TaskPending)'
<1> DEFINE Rest == TodoRegistered /\ UnbornClean /\ ForkedClean /\ StopPid
                   /\ TaskPending
<1> SUFFICES ASSUME IInv, [Next]_vars PROVE Rest'
  OBVIOUS
<1> USE ThreadsAssumption DEF IInv, TypeOK, Threads, TodoRegistered, UnbornClean,
                              ForkedClean, StopPid, TaskPending
<1>1. ASSUME NEW t \in Threads, NEW p \in Pids, NEW k \in {"command", "record"},
             Fork(t, p, k)
      PROVE  Rest'
  BY <1>1 DEF Fork, Spawn
<1>2. ASSUME NEW t \in Threads, Register(t) PROVE Rest'
  BY <1>2 DEF Register
<1>3. ASSUME NEW t \in Dispatchers, StopFork(t) PROVE Rest'
  <2>1. ASSUME NEW p \in Pids, Spawn(t, p, "stop"),
               pc' = [pc EXCEPT ![t] = "stopForked"]
        PROVE  Rest'
    BY <1>3, <2>1 DEF StopFork, Spawn
  <2>2. CASE /\ mine' = [mine EXCEPT ![t] = NoPid]
             /\ pc' = [pc EXCEPT ![t] = "stopWait"]
             /\ UNCHANGED <<kind, proc>>
    BY <1>3, <2>2 DEF StopFork
  <2> HIDE DEF Rest
  <2> QED
    BY <1>3, <2>1, <2>2 DEF StopFork
<1>4. ASSUME NEW t \in Dispatchers, StopRegister(t) PROVE Rest'
  BY <1>4 DEF StopRegister
<1>5. ASSUME NEW t \in Dispatchers, StopLock(t) PROVE Rest'
  BY <1>5 DEF StopLock
<1>6. ASSUME NEW t \in Dispatchers, NEW p \in Pids, StopKill(t, p) PROVE Rest'
  BY <1>6 DEF StopKill, Report
<1>7. ASSUME NEW t \in Dispatchers, StopClear(t) PROVE Rest'
  BY <1>7 DEF StopClear
<1>8. CASE MonitorNext
  <2>1. CASE MonitorLock
    BY <2>1 DEF MonitorLock
  <2>2. ASSUME NEW p \in Pids, MonitorReap(p) PROVE Rest'
    BY <2>2 DEF MonitorReap, Report
  <2>3. ASSUME NEW p \in Pids, MonitorForget(p) PROVE Rest'
    BY <2>3 DEF MonitorForget
  <2>4. ASSUME NEW p \in Pids, MonitorSkip(p) PROVE Rest'
    BY <2>4 DEF MonitorSkip
  <2>5. CASE MonitorUnlock
    BY <2>5 DEF MonitorUnlock
  <2> HIDE DEF Rest
  <2> QED
    BY <1>8, <2>1, <2>2, <2>3, <2>4, <2>5 DEF MonitorNext
<1>9. CASE StopMonitor
  BY <1>9 DEF StopMonitor
<1>10. ASSUME NEW p \in Pids, Exit(p) PROVE Rest'
  BY <1>10 DEF Exit
<1>11. CASE UNCHANGED vars
  BY <1>11 DEF vars
<1> HIDE DEF IInv, TypeOK, Rest
<1> QED
  BY <1>1, <1>2, <1>3, <1>4, <1>5, <1>6, <1>7, <1>8, <1>9, <1>10, <1>11
  DEF Next, StopNext

-----------------------------------------------------------------------------
\* The invariant holds throughout every behaviour.
THEOREM Invariance == Spec => []IInv
<1>1. IInv /\ [Next]_vars => IInv'
  BY TypeOKStep, BookkeepingStep DEF IInv
<1> QED
  BY InitIInv, <1>1, PTL DEF Spec

\* Type correctness, with the ownership of pidMutex_.
THEOREM TypeCorrect == Spec => []TypeOK
<1>1. IInv => TypeOK
  BY DEF IInv
<1> QED
  BY Invariance, <1>1, PTL

\* However many sweeps and monitor passes compete for a background task, the
\* ground is told of it at most once.
THEOREM ReportedAtMostOnce == Spec => []AtMostOneReport
<1>1. IInv => AtMostOneReport
  BY DEF IInv, TaskPending, AtMostOneReport
<1> QED
  BY Invariance, <1>1, PTL

\* The sweep of STOP_DAQ signals only tasks that no waitpid has collected.
THEOREM SignalsOnlyUncollected == Spec => NoSignalAfterReap
<1> DEFINE A == \A p \in Pids : p \in signalled' \ signalled /\ kind[p] # "stop"
                                => p \notin reaped
<1>1. IInv /\ [Next]_vars => [A]_vars
  <2> SUFFICES ASSUME IInv, Next PROVE A
    OBVIOUS
  <2>1. ASSUME NEW t \in Dispatchers, NEW q \in Pids, StopKill(t, q) PROVE A
    BY <2>1 DEF StopKill, IInv, TodoRegistered, TaskPending
  <2>2. ASSUME signalled' = signalled PROVE A
    BY <2>2
  <2> HIDE DEF A
  <2> QED
    BY <2>1, <2>2
    DEF Next, Fork, Register, StopNext, StopFork, StopRegister, StopLock,
        StopClear, MonitorNext, MonitorLock, MonitorReap, MonitorForget,
        MonitorSkip, MonitorUnlock, StopMonitor, Exit
<1> QED
  BY Invariance, <1>1, PTL DEF Spec, NoSignalAfterReap

-----------------------------------------------------------------------------
\* Only the output of a command is published.
LinkedCommand == \A p \in linked : kind[p] = "command"

\* What a sweep has passed in the registry it has signalled; it clears the
\* registry when nothing is left to visit.
SweptSignalled ==
    \A t \in Threads : pc[t] = "stopKill" =>
        registry \subseteq todo \cup {mine[t]} \cup signalled

\* What one more status does to a list of reports.
LEMMA OneMoreReport ==
    /\ <<>> # <<Success>>
    /\ \A x \in Status : Append(<<>>, x) = <<Success>> <=> x = Success
    /\ \A s \in Seq(Status), x \in Status :
          \A i \in 1..Len(Append(s, x)) :
             \/ i \in 1..Len(s) /\ Append(s, x)[i] = s[i]
             \/ Append(s, x)[i] = x
<1>1. <<>> # <<Success>>
  <2>1. Len(<<Success>>) = 1 /\ Len(<<>>) = 0
    OBVIOUS
  <2> QED
    BY <2>1
<1>2. ASSUME NEW x \in Status
      PROVE  Append(<<>>, x) = <<Success>> <=> x = Success
  <2>1. Append(<<>>, x) = <<x>>
    OBVIOUS
  <2>2. <<x>>[1] = x /\ <<Success>>[1] = Success
    OBVIOUS
  <2> QED
    BY <2>1, <2>2
<1>3. ASSUME NEW s \in Seq(Status), NEW x \in Status, NEW i \in 1..Len(Append(s, x))
      PROVE  \/ i \in 1..Len(s) /\ Append(s, x)[i] = s[i]
             \/ Append(s, x)[i] = x
  OBVIOUS
<1> QED
  BY <1>1, <1>2, <1>3

\* The reports and the publications of a step agree with the exit status and
\* the signal they stand for.
LEMMA ReportStep ==
    IInv /\ ReportIsTrue /\ LinkedCommand /\ [Next]_vars
    => ReportIsTrue' /\ LinkedCommand'
<1> DEFINE Rest == ReportIsTrue /\ LinkedCommand
<1> SUFFICES ASSUME IInv, ReportIsTrue, LinkedCommand, [Next]_vars PROVE Rest'
  OBVIOUS
<1> USE ThreadsAssumption DEF IInv, TypeOK, Threads, ReportIsTrue, LinkedCommand,
                              Status, Success, Fail, Interrupted
<1>1. ASSUME NEW t \in Threads, NEW p \in Pids, NEW k \in {"command", "record"},
             Fork(t, p, k)
      PROVE  Rest'
  <2>1. p \notin linked /\ sent[p] = <<>>
    BY <1>1 DEF Fork, Spawn, UnbornClean
  <2>2. ReportIsTrue'
    BY <1>1, <2>1, OneMoreReport DEF Fork, Spawn
  <2>3. LinkedCommand'
    BY <1>1, <2>1 DEF Fork, Spawn
  <2> QED
    BY <2>2, <2>3
<1>2. ASSUME NEW t \in Dispatchers, StopFork(t) PROVE Rest'
  <2>1. ASSUME NEW p \in Pids, Spawn(t, p, "stop") PROVE Rest'
    BY <1>2, <2>1 DEF StopFork, Spawn, UnbornClean
  <2>2. CASE UNCHANGED <<kind, proc>>
    BY <1>2, <2>2 DEF StopFork
  <2> HIDE DEF Rest
  <2> QED
    BY <1>2, <2>1, <2>2 DEF StopFork
<1>3. ASSUME NEW t \in Dispatchers, NEW p \in Pids, StopKill(t, p) PROVE Rest'
  <2>1. /\ sent' = [sent EXCEPT ![p] = Append(sent[p], Interrupted)]
        /\ signalled' = signalled \cup {p}
        /\ UNCHANGED <<kind, proc, reaped, linked>>
    BY <1>3 DEF StopKill, Report
  <2>2. kind[p] = "command" => sent[p] = <<>>
    BY <1>3 DEF StopKill, TodoRegistered, TaskPending
  <2>3. ASSUME NEW q \in Pids, NEW i \in 1..Len(sent'[q])
        PROVE  /\ sent'[q][i] = Success => q \in reaped' /\ proc'[q] = "ok"
               /\ sent'[q][i] = Fail => q \in reaped' /\ proc'[q] = "bad"
               /\ sent'[q][i] = Interrupted => q \in signalled'
    <3>1. CASE q = p
      BY <2>1, <3>1, OneMoreReport
    <3>2. CASE q # p
      BY <2>1, <3>2
    <3> QED
      BY <3>1, <3>2
  <2>4. ASSUME NEW q \in Pids, kind'[q] = "command"
        PROVE  q \in linked' <=> sent'[q] = <<Success>>
    <3>1. CASE q = p
      <4>1. sent'[p] = Append(<<>>, Interrupted) /\ p \notin linked
        BY <2>1, <2>2, <2>4, <3>1, OneMoreReport
      <4> QED
        BY <2>1, <3>1, <4>1, OneMoreReport
    <3>2. CASE q # p
      BY <2>1, <2>4, <3>2
    <3> QED
      BY <3>1, <3>2
  <2>5. LinkedCommand'
    BY <2>1
  <2> QED
    BY <2>3, <2>4, <2>5
<1>4. ASSUME NEW p \in Pids, MonitorReap(p) PROVE Rest'
  <2> DEFINE x == IF proc[p] = "ok" THEN Success ELSE Fail
  <2>1. /\ kind[p] # "record" => sent' = [sent EXCEPT ![p] = Append(sent[p], x)]
        /\ kind[p] = "record" => sent' = sent
        /\ proc[p] \in {"ok", "bad"}
        /\ reaped' = reaped \cup {p}
        /\ UNCHANGED <<kind, proc, signalled>>
    BY <1>4 DEF MonitorReap, Report
  <2>2. linked' = IF kind[p] = "command" /\ proc[p] = "ok"
                  THEN linked \cup {p} ELSE linked
    BY <1>4 DEF MonitorReap
  <2>3. kind[p] = "command" => sent[p] = <<>>
    BY <1>4 DEF MonitorReap, TodoRegistered, TaskPending
  <2>4. x \in Status /\ x # Interrupted
        /\ (x = Success => proc[p] = "ok") /\ (x = Fail => proc[p] = "bad")
    BY <2>1
  <2> HIDE DEF x
  <2>5. ASSUME NEW q \in Pids, NEW i \in 1..Len(sent'[q])
        PROVE  /\ sent'[q][i] = Success => q \in reaped' /\ proc'[q] = "ok"
               /\ sent'[q][i] = Fail => q \in reaped' /\ proc'[q] = "bad"
               /\ sent'[q][i] = Interrupted => q \in signalled'
    <3>1. CASE q = p /\ kind[p] # "record"
      <4>1. sent'[p] = Append(sent[p], x) /\ sent[p] \in Seq(Status)
        BY <2>1, <3>1
      <4>2. (i \in 1..Len(sent[p]) /\ sent'[p][i] = sent[p][i]) \/ sent'[p][i] = x
        BY <2>4, <3>1, <4>1, OneMoreReport
      <4> QED
        BY <2>1, <2>4, <3>1, <4>2
    <3>2. CASE q # p \/ kind[p] = "record"
      BY <2>1, <3>2
    <3> QED
      BY <3>1, <3>2
  <2>6. ASSUME NEW q \in Pids, kind'[q] = "command"
        PROVE  q \in linked' <=> sent'[q] = <<Success>>
    <3>1. CASE q = p
      <4>1. kind[p] = "command" /\ sent[p] = <<>>
        BY <2>1, <2>3, <2>6, <3>1
      <4>2. sent'[p] = Append(<<>>, x)
        BY <2>1, <4>1
      <4>3. p \notin linked
        BY <4>1, OneMoreReport
      <4>4. x = Success <=> proc[p] = "ok"
        BY DEF x
      <4> QED
        BY <2>2, <2>4, <3>1, <4>1, <4>2, <4>3, <4>4, OneMoreReport
    <3>2. CASE q # p
      BY <2>1, <2>2, <2>6, <3>2
    <3> QED
      BY <3>1, <3>2
  <2>7. LinkedCommand'
    BY <2>1, <2>2
  <2> QED
    BY <2>5, <2>6, <2>7
<1>5. ASSUME NEW p \in Pids, Exit(p) PROVE Rest'
  BY <1>5 DEF Exit
<1>6. ASSUME UNCHANGED <<kind, proc, reaped, signalled, sent, linked>> PROVE Rest'
  BY <1>6
<1> HIDE DEF IInv, TypeOK, Rest
<1> QED
  BY <1>1, <1>2, <1>3, <1>4, <1>5, <1>6
  DEF Next, vars, Register, StopNext, StopRegister, StopLock, StopClear,
      MonitorNext,
      MonitorLock, MonitorForget, MonitorSkip, MonitorUnlock, StopMonitor

\* A step takes no running child out of everybody's sight.
LEMMA ChildStep ==
    IInv /\ NoLostChild /\ SweptSignalled /\ [Next]_vars
    => NoLostChild' /\ SweptSignalled'
<1> DEFINE Rest == NoLostChild /\ SweptSignalled
<1> SUFFICES ASSUME IInv, NoLostChild, SweptSignalled, [Next]_vars PROVE Rest'
  OBVIOUS
<1> USE ThreadsAssumption DEF IInv, TypeOK, Threads, NoLostChild, SweptSignalled
<1>1. ASSUME NEW t \in Threads, NEW p \in Pids, NEW k \in {"command", "record"},
             Fork(t, p, k)
      PROVE  Rest'
  BY <1>1 DEF Fork, Spawn
<1>2. ASSUME NEW t \in Threads, Register(t) PROVE Rest'
  BY <1>2 DEF Register
<1>3. ASSUME NEW t \in Dispatchers, StopFork(t) PROVE Rest'
  <2>1. ASSUME NEW p \in Pids, Spawn(t, p, "stop"),
               pc' = [pc EXCEPT ![t] = "stopForked"]
        PROVE  Rest'
    BY <1>3, <2>1 DEF StopFork, Spawn
  <2>2. CASE /\ mine' = [mine EXCEPT ![t] = NoPid]
             /\ pc' = [pc EXCEPT ![t] = "stopWait"]
             /\ UNCHANGED <<kind, proc>>
    BY <1>3, <2>2 DEF StopFork
  <2> HIDE DEF Rest
  <2> QED
    BY <1>3, <2>1, <2>2 DEF StopFork
<1>4. ASSUME NEW t \in Dispatchers, StopRegister(t) PROVE Rest'
  BY <1>4 DEF StopRegister
<1>5. ASSUME NEW t \in Dispatchers, StopLock(t) PROVE Rest'
  <2>1. NoLostChild'
    BY <1>5 DEF StopLock
  <2>2. \A u \in Threads : pc'[u] = "stopKill" => u = t
    BY <1>5 DEF StopLock
  <2>3. registry' \subseteq todo' \cup {mine'[t]}
    BY <1>5 DEF StopLock
  <2> QED
    BY <2>1, <2>2, <2>3
<1>6. ASSUME NEW t \in Dispatchers, NEW p \in Pids, StopKill(t, p) PROVE Rest'
  BY <1>6 DEF StopKill
<1>7. ASSUME NEW t \in Dispatchers, StopClear(t) PROVE Rest'
  BY <1>7 DEF StopClear
<1>8. CASE MonitorNext
  <2>1. CASE MonitorLock
    <3>1. \A t \in Threads : pc'[t] # "stopKill"
      BY <2>1 DEF MonitorLock
    <3>2. UNCHANGED <<pc, mine, registry, proc, reaped, signalled>>
      BY <2>1 DEF MonitorLock
    <3> QED
      BY <3>1, <3>2
  <2>2. CASE MonitorUnlock
    BY <2>2 DEF MonitorUnlock
  <2>3. ASSUME NEW p \in Pids, MonitorReap(p) \/ MonitorForget(p) PROVE Rest'
    <3>1. /\ registry' = registry \ {p} /\ reaped \cup {p} \subseteq reaped'
          /\ UNCHANGED <<pc, mine, proc, signalled>>
      BY <2>3 DEF MonitorReap, MonitorForget
    <3>2. \A t \in Threads : pc'[t] # "stopKill"
      BY <2>3 DEF MonitorReap, MonitorForget
    <3> QED
      BY <3>1, <3>2
  <2>4. ASSUME NEW p \in Pids, MonitorSkip(p) PROVE Rest'
    BY <2>4 DEF MonitorSkip
  <2> HIDE DEF Rest
  <2> QED
    BY <1>8, <2>1, <2>2, <2>3, <2>4 DEF MonitorNext
<1>9. CASE UNCHANGED <<pc, mine, todo, registry, proc, reaped, signalled>>
  BY <1>9
<1>10. ASSUME NEW p \in Pids, Exit(p) PROVE Rest'
  BY <1>10 DEF Exit
<1> HIDE DEF IInv, TypeOK, Rest
<1> QED
  BY <1>1, <1>2, <1>3, <1>4, <1>5, <1>6, <1>7, <1>8, <1>9, <1>10
  DEF Next, StopNext, StopMonitor, vars

\* Whatever the ground is told of a background task has happened to it, and
\* its output is published exactly if the ground is told of its success.
THEOREM ReportsAreTrue == Spec => []ReportIsTrue
<1> DEFINE J == ReportIsTrue /\ LinkedCommand
<1>1. Init => J
  BY DEF Init, ReportIsTrue, LinkedCommand, Success
<1>2. IInv /\ J /\ [Next]_vars => J'
  BY ReportStep
<1>3. J => ReportIsTrue
  OBVIOUS
<1> HIDE DEF J
<1> QED
  BY Invariance, <1>1, <1>2, <1>3, PTL DEF Spec

\* However sweeps, registrations and monitor passes interleave, a child that
\* runs is in the registry, in the hands of the thread that forked it, or has
\* been interrupted.
THEOREM NoChildIsLost == Spec => []NoLostChild
<1> DEFINE J == NoLostChild /\ SweptSignalled
<1>1. Init => J
  BY DEF Init, NoLostChild, SweptSignalled
<1>2. IInv /\ J /\ [Next]_vars => J'
  BY ChildStep
<1>3. J => NoLostChild
  OBVIOUS
<1> HIDE DEF J
<1> QED
  BY Invariance, <1>1, <1>2, <1>3, PTL DEF Spec
=============================================================================
