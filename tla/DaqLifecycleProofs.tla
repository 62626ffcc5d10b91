--------------------------- MODULE DaqLifecycleProofs ---------------------------
(***************************************************************************)
(* For any number of dispatching threads: there is never a second DAQ      *)
(* thread, START_DAQ refuses only while one is alive, and a stop requested *)
(* while it polls is not erased.                                           *)
(***************************************************************************)
EXTENDS DaqLifecycle, TLAPS

-----------------------------------------------------------------------------
\* daqThread_ stands for the one DAQ thread that has been created and not yet
\* joined.
HandleTracksThread == \A t \in Threads : run[t] # "none" <=> daqThread = t

\* From the join on, START_DAQ works on a daqThread_ that is not joinable.
StartHasJoined ==
    \A d \in Dispatchers :
        pc[d] \in {"startInit", "startSpawn"} => daqThread = NoThread

IInv == TypeOK /\ HandleTracksThread /\ StartHasJoined /\ RefusalIsJustified

-----------------------------------------------------------------------------
\* The initial state satisfies the invariant.
LEMMA InitIInv == Init => IInv
<1> SUFFICES ASSUME Init PROVE IInv
  OBVIOUS
<1> USE ActorsAssumption DEF Init, Actors
<1>1. TypeOK
  <2>1. socket \in {"none", "open", "shut"} /\ signalsCaught \in BOOLEAN
    OBVIOUS
  <2> QED
    BY <2>1 DEF TypeOK, PcStates, Ops, RunStates, StartHolds
<1>2. HandleTracksThread /\ StartHasJoined /\ RefusalIsJustified
  BY DEF HandleTracksThread, StartHasJoined, RefusalIsJustified
<1> QED
  BY <1>1, <1>2 DEF IInv

\* Every step of a handler preserves the invariant.
LEMMA HandlerStep ==
    ASSUME IInv, NEW d \in Dispatchers, Handler(d)
    PROVE  IInv'
<1> USE ActorsAssumption
    DEF IInv, TypeOK, HandleTracksThread, StartHasJoined, RefusalIsJustified,
        Actors, PcStates, StartStates, StopStates, StartHolds, RunStates, Live,
        Ops, Return
<1>1. CASE StartLock(d)
  BY <1>1 DEF StartLock
<1>2. CASE StartCheck(d)
  BY <1>2 DEF StartCheck
<1>3. CASE StartTest(d)
  BY <1>3 DEF StartTest
<1>4. CASE StartInitFails(d)
  BY <1>4 DEF StartInitFails
<1>5. CASE StartInit(d)
  BY <1>5 DEF StartInit
<1>6. ASSUME NEW t \in Threads, StartSpawn(d, t) PROVE IInv'
  BY <1>6 DEF StartSpawn
<1>7. CASE StopSignal(d)
  BY <1>7 DEF StopSignal, RequestStop
<1>8. CASE StopTest(d)
  BY <1>8 DEF StopTest
<1>9. CASE StopClear(d)
  BY <1>9 DEF StopClear, StopReturn
<1>10. CASE JoinEnter(d)
  BY <1>10 DEF JoinEnter, CanJoin
<1>11. CASE StartJoinThrows(d)
  BY <1>11 DEF StartJoinThrows
<1>12. CASE StopJoinThrows(d)
  BY <1>12 DEF StopJoinThrows, StopReturn
<1> HIDE DEF IInv
<1> QED
  BY <1>1, <1>2, <1>3, <1>4, <1>5, <1>6, <1>7, <1>8, <1>9, <1>10, <1>11, <1>12
  DEF Handler, StartStep, StopStep, JoinStep

\* Every other step preserves it too.
LEMMA OtherStep ==
    ASSUME IInv,
           \/ \E d \in Dispatchers, code \in Ops \ {"none"} : Command(d, code)
           \/ \E a \in Actors, t \in Threads : JoinReturn(a, t)
           \/ \E t \in Threads : DaqStep(t)
           \/ CatchUserStop \/ ControllerStop \/ Destroy
           \/ UNCHANGED vars
    PROVE  IInv'
<1> USE ActorsAssumption
    DEF IInv, TypeOK, HandleTracksThread, StartHasJoined, RefusalIsJustified,
        Actors, PcStates, StartStates, StopStates, StartHolds, RunStates, Live,
        Ops, Joining
<1>1. ASSUME NEW d \in Dispatchers, NEW code \in Ops \ {"none"}, Command(d, code)
      PROVE  IInv'
  BY <1>1 DEF Command
<1>2. ASSUME NEW a \in Actors, NEW t \in Threads, JoinReturn(a, t) PROVE IInv'
  BY <1>2 DEF JoinReturn, AfterJoin
<1>3. ASSUME NEW t \in Threads, DaqStep(t) PROVE IInv'
  <2>1. CASE RunBegin(t)
    BY <2>1 DEF RunBegin
  <2>2. CASE PollSetup(t)
    BY <2>2 DEF PollSetup
  <2>3. CASE PollStop(t)
    BY <2>3 DEF PollStop
  <2>4. CASE RunEnd(t)
    BY <2>4 DEF RunEnd
  <2> HIDE DEF IInv
  <2> QED
    BY <1>3, <2>1, <2>2, <2>3, <2>4 DEF DaqStep
<1>4. CASE CatchUserStop
  BY <1>4 DEF CatchUserStop
<1>5. CASE ControllerStop
  BY <1>5 DEF ControllerStop, RequestStop
<1>6. CASE Destroy
  BY <1>6 DEF Destroy
<1>7. CASE UNCHANGED vars
  BY <1>7 DEF vars
<1> HIDE DEF IInv
<1> QED
  BY <1>1, <1>2, <1>3, <1>4, <1>5, <1>6, <1>7

\* The conjunction above is an inductive invariant of the specification.
THEOREM Invariance == Spec => []IInv
<1>1. Init => IInv
  BY InitIInv
<1>2. IInv /\ [Next]_vars => IInv'
  BY HandlerStep, OtherStep DEF Next
<1> QED
  BY <1>1, <1>2, PTL DEF Spec

\* The state keeps its shape, and daqMutex_ is held exactly by the thread
\* inside START_DAQ's critical section.
THEOREM TypeCorrect == Spec => []TypeOK
<1>1. IInv => TypeOK
  BY DEF IInv
<1> QED
  BY <1>1, Invariance, PTL

\* There is never a second DAQ thread, and START_DAQ initialises and spawns
\* only when there is none.
THEOREM OneDaqThread == Spec => []SingleDaqThread
<1>1. IInv => SingleDaqThread
  BY ActorsAssumption
  DEF IInv, HandleTracksThread, StartHasJoined, SingleDaqThread
<1> QED
  BY <1>1, Invariance, PTL

\* START_DAQ refuses only while a DAQ thread is alive.
THEOREM RefusalJustified == Spec => []RefusalIsJustified
<1>1. IInv => RefusalIsJustified
  BY DEF IInv
<1> QED
  BY <1>1, Invariance, PTL

\* A stop requested while the DAQ thread polls stays requested until the
\* thread has left its loop: only a thread that starts clears the flag, and
\* there is only one thread.
THEOREM StopIsNotErased == Spec => StopNotErased
<1> DEFINE Kept == \A t \in Threads :
                      run[t] = "polling" /\ run'[t] = "polling" /\ globalUserStop
                      => globalUserStop'
<1>1. IInv /\ [Next]_vars => Kept
  <2> SUFFICES ASSUME IInv, [Next]_vars, NEW t \in Threads,
                      run[t] = "polling", globalUserStop
               PROVE  globalUserStop'
    OBVIOUS
  <2>1. ASSUME NEW d \in Dispatchers, Handler(d) PROVE globalUserStop'
    BY <2>1
    DEF Handler, StartStep, StopStep, JoinStep, StartLock, StartCheck, StartTest,
        StartInitFails, StartInit, StartSpawn, StopSignal, StopTest, StopClear,
        JoinEnter, StartJoinThrows, StopJoinThrows, RequestStop
  <2>2. ASSUME NEW u \in Threads, DaqStep(u) PROVE globalUserStop'
    <3>1. ~RunBegin(u)
      BY DEF RunBegin, IInv, HandleTracksThread
    <3> QED
      BY <2>2, <3>1 DEF DaqStep, PollSetup, PollStop, RunEnd
  <2>3. ASSUME NEW d \in Dispatchers, NEW code \in Ops \ {"none"},
               Command(d, code)
        PROVE  globalUserStop'
    BY <2>3 DEF Command
  <2>4. ASSUME NEW a \in Actors, NEW u \in Threads, JoinReturn(a, u)
        PROVE  globalUserStop'
    BY <2>4 DEF JoinReturn
  <2>5. CASE CatchUserStop \/ ControllerStop \/ Destroy \/ UNCHANGED vars
    BY <2>5 DEF CatchUserStop, ControllerStop, RequestStop, Destroy, vars
  <2> QED
    BY <2>1, <2>2, <2>3, <2>4, <2>5 DEF Next
<1>2. IInv /\ [Next]_vars => [Kept]_vars
  BY <1>1
<1> QED
  BY <1>2, Invariance, PTL DEF Spec, StopNotErased
=============================================================================
