-------------------------- MODULE DaqControllerProofs --------------------------
(***************************************************************************)
(* For any number of callers and telemetry threads, any packet length and  *)
(* any number of retries: the event stream can be cut into packets until a *)
(* send on the connection fails, and no thread of the daemon uses a        *)
(* client, the dispatcher or a connection after it was destroyed.          *)
(***************************************************************************)
EXTENDS DaqController, TLAPS

-----------------------------------------------------------------------------
\* A packet has pieces out only while it is being sent.
PartsOutside == \A s \in Senders : snd[s] # "sending" => part[s] = 0

\* The connection object whose address the connection thread has taken, and the
\* one that a thread is sending through, are there.
ConnectionHeld ==
    /\ run \in {"recv", "close"} => hub # "null"
    /\ \A s \in Senders : snd[s] = "sending" => hub = "open"

LinkInv == LinkTypeOK /\ StreamIsWhole /\ PartsOutside /\ ConnectionHeld

\* The ways in which a step of the daemon moves the event link.
BeginsOne ==
    /\ \E s \in Senders : Begin(s)
    /\ UNCHANGED <<threadVars, connVars, mutex>>

Destroys ==
    /\ run = "none"
    /\ \A s \in Senders : snd[s] = "idle"
    /\ hub' = "null"
    /\ DropLink
    /\ UNCHANGED <<threadVars, mutex, sendVars>>

LinkMove ==
    \/ LinkNext \/ Start \/ StopFlag \/ StopShut \/ StopJoin
    \/ BeginsOne \/ Destroys \/ UNCHANGED linkVars

-----------------------------------------------------------------------------
\* Neither the clients nor the loop and the forwarder are running: before the
\* start, and once they are joined.
Quiet ==
    /\ loop = "none" /\ command = "down"
    /\ run = "none" /\ forwarder = "none"

\* Every thread begins a packet inside its own work only.
SendersKnown ==
    /\ \A s \in Senders \ {Worker, Journal} :
         snd[s] # "idle" => "dispatch" \in alive
    /\ snd[Worker] # "idle" => command # "down"
    /\ snd[Journal] # "idle" => forwarder = "send"

\* The supervising loop has the clients stopped where its code says so.
LoopStops ==
    /\ ctl = "down" <=> run = "none"
    /\ loop \in {"stopEvent", "startCommand", "finalEvent", "done"} => command = "down"
    /\ loop = "done" => ctl = "down"

\* main() destroys in order, and only what nobody uses any more.
MainOrder ==
    /\ main \in {"start", "unserved", "exited", "destroyDispatch", "destroyCommand",
                 "destroyEvent"} => Quiet
    /\ main = "start" => \A s \in Senders : snd[s] = "idle"
    /\ main \in {"unserved", "exited", "destroyCommand", "destroyEvent"} =>
          "dispatch" \notin alive
    /\ main \in {"connecting", "forward", "stopController", "joinRun"}
          => forwarder = "none"
    /\ alive # {"dispatch", "command", "event"} =>
          main \in {"unserved", "exited", "destroyCommand", "destroyEvent"}

DaemonInv == SendersKnown /\ LoopStops /\ MainOrder

IInv == TypeOK /\ LinkInv /\ DaemonInv

-----------------------------------------------------------------------------
\* The initial state satisfies the invariant.
LEMMA InitIInv == Init => IInv
<1> SUFFICES ASSUME Init PROVE IInv
  OBVIOUS
<1> USE LinkAssumption, ThreadsAssumption DEF Init, LinkInit, Senders
<1>1. LinkTypeOK
  <2>1. 0 \in 0..Parts-1 /\ 0 \in 0..MaxRetries-1
    OBVIOUS
  <2>2. part \in [Senders -> 0..Parts-1] /\ tries \in [Senders -> 0..MaxRetries-1]
    BY <2>1
  <2>3. \A s \in Senders : mutex = s <=> snd[s] = "sending"
    OBVIOUS
  <2>4. stream \in Seq(Senders)
    OBVIOUS
  <2> QED
    BY <2>2, <2>3, <2>4 DEF LinkTypeOK
<1>2. TypeOK
  BY <1>1 DEF TypeOK
<1>3. LinkInv
  BY <1>1 DEF LinkInv, StreamIsWhole, PartsOutside, ConnectionHeld
<1>4. DaemonInv
  BY DEF DaemonInv, SendersKnown, LoopStops, MainOrder, Quiet
<1> QED
  BY <1>2, <1>3, <1>4 DEF IInv

-----------------------------------------------------------------------------
\* A sender's step keeps the invariant of the link.
LEMMA SendStepLink ==
    ASSUME LinkInv, NEW s \in Senders, SendStep(s)
    PROVE  LinkInv'
<1> USE LinkAssumption DEF threadVars, connVars
<1>1. LinkTypeOK /\ StreamIsWhole /\ PartsOutside /\ ConnectionHeld
  BY DEF LinkInv
<1>2. 0 \in 0..Parts-1 /\ 0 \in 0..MaxRetries-1 /\ Nobody \notin Senders
  BY DEF Senders
<1>3. CASE SendLock(s)
  <2>1. CASE Leave(s) /\ UNCHANGED mutex
    <3>1. LinkTypeOK'
      BY <1>1, <1>2, <1>3, <2>1 DEF SendLock, Leave, LinkTypeOK
    <3>2. StreamIsWhole' /\ PartsOutside' /\ ConnectionHeld'
      BY <1>1, <1>3, <2>1
      DEF SendLock, Leave, LinkTypeOK, StreamIsWhole, PartsOutside, ConnectionHeld
    <3> QED
      BY <3>1, <3>2 DEF LinkInv
  <2>2. CASE /\ tries[s] + 1 < MaxRetries
             /\ tries' = [tries EXCEPT ![s] = @ + 1]
             /\ snd' = [snd EXCEPT ![s] = "lock"]
             /\ UNCHANGED <<part, mutex>>
    <3>1. tries[s] + 1 \in 0..MaxRetries-1
      BY <1>1, <2>2 DEF LinkTypeOK
    <3>2. LinkTypeOK'
      BY <1>1, <1>3, <2>2, <3>1 DEF SendLock, LinkTypeOK
    <3>3. StreamIsWhole' /\ PartsOutside' /\ ConnectionHeld'
      BY <1>1, <1>3, <2>2
      DEF SendLock, LinkTypeOK, StreamIsWhole, PartsOutside, ConnectionHeld
    <3> QED
      BY <3>2, <3>3 DEF LinkInv
  <2>3. CASE /\ hub = "open"
             /\ mutex' = s
             /\ snd' = [snd EXCEPT ![s] = "sending"]
             /\ UNCHANGED <<part, tries>>
    <3>1. LinkTypeOK'
      BY <1>1, <1>2, <1>3, <2>3 DEF SendLock, LinkTypeOK
    <3>2. failed \/ stream = <<>>
      BY <1>1, <1>3 DEF SendLock, MtxFree, StreamIsWhole
    <3>3. StreamIsWhole' /\ PartsOutside' /\ ConnectionHeld'
      BY <1>1, <1>3, <2>3, <3>2
      DEF SendLock, LinkTypeOK, StreamIsWhole, PartsOutside, ConnectionHeld
    <3> QED
      BY <3>1, <3>3 DEF LinkInv
  <2> QED
    BY <1>3, <2>1, <2>2, <2>3 DEF SendLock, Refused
<1>4. CASE SendPart(s) /\ part[s] + 1 < Parts
  <2>1. part[s] + 1 \in 0..Parts-1
    BY <1>1, <1>4 DEF LinkTypeOK
  <2>2. stream' = Append(stream, s) /\ stream \in Seq(Senders)
    BY <1>1, <1>4 DEF SendPart, LinkTypeOK
  <2>3. LinkTypeOK'
    <3>1. stream' \in Seq(Senders)
      BY <2>2
    <3>2. part' \in [Senders -> 0..Parts-1]
      BY <1>1, <1>4, <2>1 DEF SendPart, LinkTypeOK
    <3> QED
      BY <1>1, <1>4, <3>1, <3>2 DEF SendPart, LinkTypeOK
  <2>4. StreamIsWhole'
    <3>1. \A u \in Senders : snd[u] = "sending" => u = s
      BY <1>1, <1>4 DEF SendPart, LinkTypeOK
    <3>2. failed \/ stream = <<>> \/ \A i \in 1..Len(stream) : stream[i] = s
      BY <1>1, <3>1 DEF StreamIsWhole
    <3>3. failed \/ \A i \in 1..Len(stream') : stream'[i] = s
      BY <2>2, <3>2
    <3> QED
      BY <1>4, <3>3 DEF SendPart, StreamIsWhole
  <2>5. PartsOutside' /\ ConnectionHeld'
    BY <1>1, <1>4 DEF SendPart, LinkTypeOK, PartsOutside, ConnectionHeld
  <2> QED
    BY <2>3, <2>4, <2>5 DEF LinkInv
<1>5. CASE (SendPart(s) /\ ~(part[s] + 1 < Parts)) \/ SendFails(s)
  <2>1. /\ snd[s] = "sending" /\ mutex' = Nobody /\ stream' = <<>>
        /\ failed' \in BOOLEAN
        /\ Leave(s)
        /\ UNCHANGED <<running, run, ctl, hub, link>>
    BY <1>1, <1>5 DEF SendPart, SendFails, LinkTypeOK
  <2>2. LinkTypeOK'
    <3>1. \A u \in Senders : mutex' = u <=> snd'[u] = "sending"
      BY <1>1, <1>2, <2>1 DEF Leave, LinkTypeOK
    <3>2. stream' \in Seq(Senders)
      BY <2>1
    <3> QED
      BY <1>1, <1>2, <2>1, <3>1, <3>2 DEF Leave, LinkTypeOK
  <2>3. StreamIsWhole' /\ PartsOutside' /\ ConnectionHeld'
    BY <1>1, <2>1 DEF Leave, LinkTypeOK, StreamIsWhole, PartsOutside, ConnectionHeld
  <2> QED
    BY <2>2, <2>3 DEF LinkInv
<1> QED
  BY <1>3, <1>4, <1>5 DEF SendStep

\* So does every other way in which the daemon moves the link.
LEMMA LinkMoveStep == LinkInv /\ LinkMove => LinkInv'
<1> SUFFICES ASSUME LinkInv, LinkMove PROVE LinkInv'
  OBVIOUS
<1> USE LinkAssumption DEF threadVars, connVars, sendVars, LinkInv, LinkTypeOK,
                           StreamIsWhole, PartsOutside, ConnectionHeld
<1>1. ASSUME NEW s \in Senders, Begin(s), UNCHANGED <<threadVars, connVars, mutex>>
      PROVE  LinkInv'
  <2>1. \A u \in Senders : snd'[u] = "sending" <=> snd[u] = "sending"
    BY <1>1 DEF Begin
  <2>2. snd' \in [Senders -> {"idle", "lock", "sending"}]
    BY <1>1 DEF Begin
  <2>3. LinkTypeOK' /\ PartsOutside' /\ ConnectionHeld'
    BY <1>1, <2>1, <2>2 DEF Begin
  <2>4. StreamIsWhole'
    BY <1>1, <2>1 DEF Begin
  <2> QED
    BY <2>3, <2>4
<1>2. ASSUME \A s \in Senders : snd[s] # "sending",
             \/ stream' = stream /\ failed' = failed
             \/ stream' = <<>> /\ failed' = FALSE,
             running' \in BOOLEAN,
             run' \in {"none", "top", "connect", "store", "epoll", "poll", "recv",
                       "close", "reset", "done"},
             ctl' \in {"up", "shut", "join", "down"},
             hub' \in {"null", "open", "closed"},
             link' \in {"none", "up", "lost"},
             run' \in {"recv", "close"} => hub' # "null",
             UNCHANGED <<mutex, snd, part, tries>>
      PROVE  LinkInv'
  <2>1. LinkTypeOK'
    <3>1. <<>> \in Seq(Senders)
      OBVIOUS
    <3>2. stream' \in Seq(Senders) /\ failed' \in BOOLEAN
      BY <1>2, <3>1
    <3> QED
      BY <1>2, <3>2
  <2>2. StreamIsWhole'
    BY <1>2
  <2> QED
    BY <1>2, <2>1, <2>2
<1>3. CASE ClearOld \/ EpollFails \/ Destroys
  BY <1>2, <1>3 DEF ClearOld, EpollFails, Destroys, DropLink, RunGoto, MtxFree
<1>4. CASE RunClose \/ StopShut
  <2>1. CASE RunClose
    BY <1>2, <2>1 DEF RunClose, CloseFD, DropLink, RunGoto, MtxFree
  <2>2. CASE StopShut /\ hub # "null"
    BY <1>2, <2>2 DEF StopShut, CloseFD, DropLink, MtxFree
  <2>3. CASE StopShut /\ hub = "null"
    <3>1. \A s \in Senders : snd[s] # "sending"
      BY <2>3
    <3> QED
      BY <1>2, <2>3, <3>1 DEF StopShut
  <2> QED
    BY <1>4, <2>1, <2>2, <2>3
<1>5. CASE Store \/ RunReset
  <2>1. Nobody \notin Senders
    BY DEF Senders
  <2>2. \A s \in Senders : snd[s] # "sending"
    BY <1>5, <2>1 DEF Store, RunReset
  <2> QED
    BY <1>2, <1>5, <2>2 DEF Store, RunReset, RunGoto
<1>6. CASE ConnectFails \/ Connect \/ EpollReady \/ PollEnd
  <2>1. CASE ConnectFails \/ Connect
    BY <2>1 DEF ConnectFails, Connect, RunGoto
  <2>2. CASE EpollReady \/ PollEnd
    BY <2>2 DEF EpollReady, PollEnd, RunGoto
  <2> QED
    BY <1>6, <2>1, <2>2
<1>7. CASE TakePointer
  BY <1>7 DEF TakePointer
<1>8. CASE Receive \/ ReceiveFails
  BY <1>8 DEF Receive, ReceiveFails, RunGoto
<1>9. CASE RunEnd \/ LinkLost
  <2>1. <<>> \in Seq(Senders)
    OBVIOUS
  <2>2. CASE RunEnd
    BY <2>1, <2>2 DEF RunEnd, RunGoto, DropLink
  <2>3. CASE LinkLost
    BY <2>1, <2>3 DEF LinkLost
  <2> QED
    BY <1>9, <2>2, <2>3
<1>10. CASE Start \/ StopFlag \/ StopJoin
  <2>1. CASE Start \/ StopFlag
    BY <2>1 DEF Start, StopFlag
  <2>2. CASE StopJoin
    BY <2>2 DEF StopJoin
  <2> QED
    BY <1>10, <2>1, <2>2
<1>11. CASE UNCHANGED linkVars
  BY <1>11 DEF linkVars
<1> HIDE DEF LinkInv
<1> QED
  BY <1>1, <1>2, <1>3, <1>4, <1>5, <1>6, <1>7, <1>8, <1>9, <1>10, <1>11,
     SendStepLink
  DEF LinkMove, LinkNext, RunStep, BeginsOne

-----------------------------------------------------------------------------
\* A step of the link alone starts and ends no thread and begins no packet.
LEMMA LinkNextKeeps ==
    ASSUME LinkTypeOK, LinkNext
    PROVE  /\ ctl' = ctl
           /\ run' = "none" <=> run = "none"
           /\ \A s \in Senders : snd[s] = "idle" => snd'[s] = "idle"
<1> USE DEF threadVars, connVars, sendVars
<1>1. CASE RunStep
  BY <1>1
  DEF RunStep, RunGoto, ClearOld, ConnectFails, Connect, Store, EpollReady,
      EpollFails,
      PollEnd, TakePointer, Receive, ReceiveFails, RunClose, RunReset, RunEnd
<1>2. CASE LinkLost
  BY <1>2 DEF LinkLost
<1>3. ASSUME NEW s \in Senders, SendStep(s)
      PROVE  /\ UNCHANGED <<run, ctl>>
             /\ \A u \in Senders : snd[u] = "idle" => snd'[u] = "idle"
  <2>1. snd[s] # "idle" /\ UNCHANGED <<run, ctl>>
    BY <1>3 DEF SendStep, SendLock, SendPart, SendFails
  <2>2. \A u \in Senders : u # s => snd'[u] = snd[u]
    BY <1>3 DEF SendStep, SendLock, SendPart, SendFails, Refused, Leave, LinkTypeOK
  <2> QED
    BY <2>1, <2>2
<1> QED
  BY <1>1, <1>2, <1>3 DEF LinkNext

\* Every step of the daemon moves the link in one of the ways above.
LEMMA NextMovesLink == IInv /\ [Next]_vars => LinkMove
<1> SUFFICES ASSUME IInv, [Next]_vars PROVE LinkMove
  OBVIOUS
<1> USE ThreadsAssumption DEF threadVars, connVars, sendVars
<1>1. CASE MainNext
  <2>1. CASE DestroyEvent
    <3>1. run = "none" /\ \A s \in Senders : snd[s] = "idle"
      BY <2>1 DEF DestroyEvent, MainGoto, IInv, DaemonInv, MainOrder, Quiet,
                  SendersKnown
    <3> QED
      BY <2>1, <3>1 DEF DestroyEvent, LinkMove, Destroys
  <2>2. CASE StartClients
    BY <2>2 DEF StartClients, LinkMove
  <2> QED
    BY <1>1, <2>1, <2>2
    DEF MainNext, StartFails, SpawnRun, StartForwarder, ForwarderStop, MainPclose,
        MainWaitChild, JoinForwarder, StopController, JoinRun, DestroyDispatch,
        DestroyCommand, LinkMove
<1>2. CASE LoopNext \/ Unhealthy \/ Signal \/ ChildEnds \/ ForwarderNext
  BY <1>2
  DEF LoopNext, Unhealthy, Signal, ChildEnds, ForwarderNext, StopCommand,
      JoinCommand,
      StopEvent, StartCommand, StartEvent, ClearRequest, LeaveLoop, Popen,
      ForwarderTest, ForwarderReads, LineSent, EndOfFile, ForwarderClose,
      ForwarderWait, LinkMove
<1>3. CASE Line \/ (\E isReconnect \in BOOLEAN : Execute(isReconnect))
           \/ \E s \in Senders : Report(s)
  BY <1>3 DEF Line, Execute, Report, LinkMove, BeginsOne, Senders, linkVars
<1>4. CASE UNCHANGED vars \/ LinkNext
  BY <1>4 DEF vars, LinkMove
<1> QED
  BY <1>1, <1>2, <1>3, <1>4 DEF Next

\* Every step keeps the shape of the daemon's own state.
LEMMA TypeOKStep == IInv /\ [Next]_vars /\ LinkTypeOK' => TypeOK'
<1> SUFFICES ASSUME IInv, [Next]_vars, LinkTypeOK' PROVE TypeOK'
  OBVIOUS
<1> USE DEF IInv, TypeOK
<1>1. CASE MainNext
  <2>1. CASE StartClients
    BY <2>1 DEF StartClients, MainGoto
  <2>2. CASE StartFails
    BY <2>2 DEF StartFails
  <2>3. CASE SpawnRun
    BY <2>3 DEF SpawnRun, MainGoto
  <2>4. CASE StartForwarder
    BY <2>4 DEF StartForwarder, MainGoto
  <2>5. CASE ForwarderStop
    <3>1. forwarding' \in BOOLEAN
      BY <2>5, Zenon DEF ForwarderStop
    <3> QED
      BY <2>5, <3>1 DEF ForwarderStop
  <2>6. CASE MainPclose
    BY <2>6 DEF MainPclose
  <2>7. CASE MainWaitChild
    <3>1. pipe' \in BOOLEAN
      BY <2>7, Zenon DEF MainWaitChild, MainGoto
    <3> QED
      BY <2>7, <3>1 DEF MainWaitChild, MainGoto
  <2>8. CASE JoinForwarder
    BY <2>8 DEF JoinForwarder, MainGoto
  <2>9. CASE StopController
    <3>1. keepRunning' \in BOOLEAN
      BY <2>9, Zenon DEF StopController, MainGoto
    <3> QED
      BY <2>9, <3>1 DEF StopController, MainGoto
  <2>10. CASE JoinRun
    BY <2>10 DEF JoinRun, MainGoto
  <2>11. CASE DestroyDispatch
    <3>1. /\ main' \in {"destroyCommand", "stuck"}
          /\ alive' \subseteq {"dispatch", "command", "event"}
          /\ UNCHANGED <<loop, keepRunning, resetWanted, command, forwarder,
                         forwarding, file, pipe, child>>
      BY <2>11 DEF DestroyDispatch
    <3> QED
      BY <3>1
  <2>12. CASE DestroyCommand
    BY <2>12 DEF DestroyCommand, MainGoto
  <2>13. CASE DestroyEvent
    BY <2>13 DEF DestroyEvent, MainGoto
  <2> HIDE DEF TypeOK
  <2> QED
    BY <1>1, <2>1, <2>2, <2>3, <2>4, <2>5, <2>6, <2>7, <2>8, <2>9, <2>10, <2>11,
       <2>12,
       <2>13
    DEF MainNext
<1>2. CASE LoopNext \/ Unhealthy
  <2>1. CASE StopCommand
    BY <2>1 DEF StopCommand
  <2>2. CASE JoinCommand
    BY <2>2 DEF JoinCommand
  <2>3. CASE StopEvent
    BY <2>3 DEF StopEvent
  <2>4. CASE StartCommand
    BY <2>4 DEF StartCommand, LoopGoto
  <2>5. CASE StartEvent
    BY <2>5 DEF StartEvent, LoopGoto
  <2>6. CASE ClearRequest
    <3>1. resetWanted' \in BOOLEAN
      BY <2>6, Zenon DEF ClearRequest, LoopGoto
    <3> QED
      BY <2>6, <3>1 DEF ClearRequest, LoopGoto
  <2>7. CASE LeaveLoop \/ Unhealthy
    <3>1. /\ UNCHANGED <<main, keepRunning, resetWanted, command, alive, forwarder,
                         forwarding, file, pipe, child>>
          /\ loop' \in {"stopCommand", "finalCommand"}
      BY <2>7 DEF LeaveLoop, Unhealthy, LoopGoto
    <3> QED
      BY <3>1
  <2> HIDE DEF TypeOK
  <2> QED
    BY <1>2, <2>1, <2>2, <2>3, <2>4, <2>5, <2>6, <2>7 DEF LoopNext
<1>3. CASE Signal \/ ChildEnds
  <2>1. CASE Signal
    BY <2>1 DEF Signal, MainGoto
  <2>2. CASE ChildEnds
    BY <2>2 DEF ChildEnds
  <2> QED
    BY <1>3, <2>1, <2>2
<1>4. CASE ForwarderNext
  <2>1. CASE Popen
    <3>1. pipe' \in BOOLEAN
      BY <2>1, Zenon DEF Popen
    <3> QED
      BY <2>1, <3>1 DEF Popen
  <2>2. CASE ForwarderTest \/ ForwarderReads
    <3>1. /\ main' = main \/ main' = "crashed"
          /\ forwarder' \in {"enter", "fgets", "close"}
          /\ UNCHANGED <<loop, keepRunning, resetWanted, command, alive,
                         forwarding, file, pipe, child>>
      BY <2>2 DEF ForwarderTest, ForwarderReads
    <3> QED
      BY <3>1
  <2>3. CASE LineSent
    BY <2>3 DEF LineSent
  <2>4. CASE EndOfFile
    BY <2>4 DEF EndOfFile
  <2>5. CASE ForwarderClose
    BY <2>5 DEF ForwarderClose, ClosePipe
  <2>6. CASE ForwarderWait
    <3>1. pipe' \in BOOLEAN
      BY <2>6, Zenon DEF ForwarderWait
    <3> QED
      BY <2>6, <3>1 DEF ForwarderWait
  <2> HIDE DEF TypeOK
  <2> QED
    BY <1>4, <2>1, <2>2, <2>3, <2>4, <2>5, <2>6 DEF ForwarderNext
<1>5. CASE Line
  BY <1>5 DEF Line
<1>6. ASSUME NEW isReconnect \in BOOLEAN, Execute(isReconnect) PROVE TypeOK'
  BY <1>6 DEF Execute
<1>7. CASE UNCHANGED daemonVars
  BY <1>7 DEF daemonVars
<1>8. CASE \E s \in Senders : Report(s)
  BY <1>7, <1>8 DEF Report
<1> HIDE DEF IInv, TypeOK
<1> QED
  BY <1>1, <1>2, <1>3, <1>4, <1>5, <1>6, <1>7, <1>8 DEF Next, vars

\* Every step keeps the order in which the daemon starts, stops and destroys.
LEMMA DaemonStep == IInv /\ [Next]_vars => DaemonInv'
<1> SUFFICES ASSUME IInv, [Next]_vars PROVE DaemonInv'
  OBVIOUS
<1> USE LinkAssumption, ThreadsAssumption
    DEF DaemonInv, SendersKnown, LoopStops, MainOrder, Quiet
<1>1. /\ DaemonInv /\ TypeOK
      /\ snd \in [Senders -> {"idle", "lock", "sending"}]
      /\ Worker \in Senders /\ Journal \in Senders /\ Worker # Journal
      /\ LinkTypeOK
  BY DEF IInv, TypeOK, LinkTypeOK, Senders
<1>2. CASE LinkNext /\ UNCHANGED daemonVars
  BY <1>1, <1>2, LinkNextKeeps DEF daemonVars
<1>3. CASE MainNext
  <2>1. CASE StartClients
    BY <1>1, <2>1 DEF StartClients, MainGoto, Start, sendVars
  <2>2. CASE SpawnRun
    BY <1>1, <2>2 DEF SpawnRun, MainGoto, linkVars
  <2>3. CASE StartForwarder
    BY <1>1, <2>3 DEF StartForwarder, MainGoto, linkVars
  <2>4. CASE StartFails
    BY <1>1, <2>4 DEF StartFails, linkVars
  <2>5. CASE ForwarderStop \/ MainPclose \/ MainWaitChild \/ JoinForwarder
    BY <1>1, <2>5
    DEF ForwarderStop, MainPclose, MainWaitChild, JoinForwarder, MainGoto, linkVars
  <2>6. CASE StopController
    BY <1>1, <2>6 DEF StopController, MainGoto, linkVars
  <2>7. CASE JoinRun
    BY <1>1, <2>7 DEF JoinRun, MainGoto, linkVars
  <2>8. CASE DestroyDispatch \/ DestroyCommand
    BY <1>1, <2>8 DEF DestroyDispatch, DestroyCommand, MainGoto, linkVars
  <2>9. CASE DestroyEvent
    BY <1>1, <2>9 DEF DestroyEvent, MainGoto, threadVars, sendVars
  <2> QED
    BY <1>3, <2>1, <2>2, <2>3, <2>4, <2>5, <2>6, <2>7, <2>8, <2>9 DEF MainNext
<1>4. CASE LoopNext \/ Unhealthy
  <2>1. CASE StopCommand \/ JoinCommand \/ StartCommand
    BY <1>1, <2>1 DEF StopCommand, JoinCommand, StartCommand, LoopGoto, linkVars
  <2>2. CASE StopEvent
    BY <1>1, <2>2 DEF StopEvent, StopFlag, StopShut, StopJoin, sendVars
  <2>3. CASE StartEvent
    BY <1>1, <2>3 DEF StartEvent, LoopGoto, Start, sendVars
  <2>4. CASE ClearRequest \/ LeaveLoop \/ Unhealthy
    BY <1>1, <2>4 DEF ClearRequest, LeaveLoop, Unhealthy, LoopGoto, linkVars
  <2> QED
    BY <1>4, <2>1, <2>2, <2>3, <2>4 DEF LoopNext
<1>5. CASE Signal \/ ChildEnds
  BY <1>1, <1>5 DEF Signal, ChildEnds, MainGoto, linkVars
<1>6. CASE ForwarderNext
  BY <1>1, <1>6
  DEF ForwarderNext, Popen, ForwarderTest, ForwarderReads, LineSent, EndOfFile,
      ForwarderClose, ClosePipe, ForwarderWait, linkVars
<1>7. CASE Line
  BY <1>1, <1>7 DEF Line, Begin, threadVars, connVars, sendVars
<1>8. ASSUME NEW isReconnect \in BOOLEAN, Execute(isReconnect) PROVE DaemonInv'
  BY <1>1, <1>8 DEF Execute, Begin, threadVars, connVars
<1>9. ASSUME NEW s \in Senders, Report(s) PROVE DaemonInv'
  BY <1>1, <1>9 DEF Report, Begin, threadVars, connVars, daemonVars
<1>10. CASE UNCHANGED vars
  BY <1>1, <1>10 DEF vars, linkVars, daemonVars
<1> HIDE DEF DaemonInv
<1> QED
  BY <1>2, <1>3, <1>4, <1>5, <1>6, <1>7, <1>8, <1>9, <1>10 DEF Next

-----------------------------------------------------------------------------
\* The invariant holds throughout every behaviour.
THEOREM Invariance == Spec => []IInv
<1>1. IInv /\ [Next]_vars => IInv'
  <2> SUFFICES ASSUME IInv, [Next]_vars PROVE IInv'
    OBVIOUS
  <2>1. LinkInv'
    BY NextMovesLink, LinkMoveStep DEF IInv
  <2>2. TypeOK' /\ DaemonInv'
    BY <2>1, TypeOKStep, DaemonStep DEF LinkInv
  <2> QED
    BY <2>1, <2>2 DEF IInv
<1> QED
  BY InitIInv, <1>1, PTL DEF Spec

\* Type correctness, with the ownership of connectionMutex_ and the limit on
\* the attempts of sendStatusCallback.
THEOREM TypeCorrect == Spec => []TypeOK
<1>1. IInv => TypeOK
  BY DEF IInv
<1> QED
  BY Invariance, <1>1, PTL

\* Until a send on the connection fails, the hub can cut the event stream into
\* packets, however many threads send at a time, and whoever stops and starts
\* the link.
THEOREM StreamStaysWhole == Spec => []StreamIsWhole
<1>1. IInv => StreamIsWhole
  BY DEF IInv, LinkInv
<1> QED
  BY Invariance, <1>1, PTL

\* No thread uses the event client, the dispatcher or the connection object
\* after it was destroyed.
THEOREM NothingUsedAfterDestroy == Spec => []NoUseAfterDestroy
<1>1. IInv => NoUseAfterDestroy
  BY
  DEF IInv, LinkInv, ConnectionHeld, DaemonInv, MainOrder, Quiet, SendersKnown,
      NoUseAfterDestroy
<1> QED
  BY Invariance, <1>1, PTL

=============================================================================
