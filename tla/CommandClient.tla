------------------------------ MODULE CommandClient ------------------------------
(***************************************************************************)
(* GRAMS_TOF_CommandClient: the connection thread (run) reads commands     *)
(* from the hub, acknowledges them and queues them; the worker thread      *)
(* (workerLoop) executes them one by one; the controller thread stops and  *)
(* restarts the client when a link is unhealthy or the operator asks for   *)
(* it (DAQController::run), and stops it for good at the end.              *)
(*                                                                         *)
(* A packet is a whole command or garbage; how packets are cut out of the  *)
(* byte stream is not modelled here.  The hub sends a packet once.         *)
(***************************************************************************)
EXTENDS Naturals, Sequences

CONSTANTS Commands,   \* commands the hub may send
          Urgent,     \* those with code 0x5001 or 0x5002
          Garbage,    \* packets that do not parse
          NoCommand,
          MaxResets   \* bound: how often the controller stops the client

ASSUME PacketsAssumption ==
    /\ Urgent \subseteq Commands
    /\ Commands \cap Garbage = {}
    /\ NoCommand \notin Commands
    /\ MaxResets \in Nat

VARIABLES
    running,   \* running_
    ctl,       \* where the controller is in stop() and start()
    resets,    \* how often stop() was called
    client,    \* where client_thread_ is; "none": not joinable
    worker,    \* where worker_thread_ is; "none": not joinable
    conn,      \* hubConnection_ is set
    link,      \* the socket: "down", "up", "lost" (by the hub), "closed" (here)
    wire,      \* packets sent by the hub and not yet received
    buffer,    \* incoming_buffer
    queue,     \* commandQueue_
    busy,      \* the command handler_ is executing
    sent,      \* history: packets the hub has sent
    acked,     \* history: commands acknowledged
    executed   \* history: commands executed, in order

hubVars == <<link, wire, sent>>
workVars == <<queue, busy, executed>>
vars == <<running, ctl, resets, client, worker, conn, link, wire, buffer,
          queue, busy, sent, acked, executed>>

Packets == Commands \cup Garbage

CtlStates == {"run", "notify", "joinWorker", "close", "joinClient", "down",
              "dead"}
ClientStates == {"none", "top", "connecting", "connected", "test", "poll",
                 "check", "deref", "read", "process", "push", "notify", "close",
                 "finished", "dead"}
WorkerStates == {"none", "test", "locking", "checked", "waiting", "executing",
                 "finished", "dead"}

\* The state DAQController::initialize leaves behind with start().
Init ==
    /\ running = TRUE
    /\ ctl = "run"
    /\ resets = 0
    /\ client = "top"
    /\ worker = "test"
    /\ conn = FALSE
    /\ link = "down"
    /\ wire = <<>> /\ buffer = <<>> /\ queue = <<>>
    /\ busy = NoCommand
    /\ sent = {} /\ acked = {} /\ executed = <<>>

-----------------------------------------------------------------------------
\* The hub and the network.

HubSend(p) ==
    /\ link = "up"
    /\ p \notin sent
    /\ sent' = sent \cup {p}
    /\ wire' = Append(wire, p)
    /\ UNCHANGED <<running, ctl, resets, client, worker, conn, link, buffer,
                   workVars, acked>>

\* The connection breaks, with or without what was under way.
HubDrop ==
    /\ link = "up"
    /\ link' = "lost"
    /\ wire' \in {wire, <<>>}
    /\ UNCHANGED <<running, ctl, resets, client, worker, conn, buffer,
                   workVars, sent, acked>>

-----------------------------------------------------------------------------
\* The connection thread, GRAMS_TOF_CommandClient::run.

Goto(from, to) == client = from /\ client' = to

\* The outer loop: drop an old connection, or leave and close the descriptor.
ClientTop ==
    /\ client = "top"
    /\ IF running
       THEN client' = "connecting" /\ conn' = FALSE /\ link' = "down"
       ELSE /\ client' = "finished"
            /\ link' = IF link = "down" THEN link ELSE "closed"
            /\ UNCHANGED conn
    /\ wire' = <<>>
    /\ buffer' = <<>>
    /\ UNCHANGED <<running, ctl, resets, worker, workVars, sent, acked>>

ConnectFails ==
    /\ Goto("connecting", "top")
    /\ UNCHANGED <<running, ctl, resets, worker, conn, buffer, hubVars,
                   workVars, acked>>

ConnectSucceeds ==
    /\ Goto("connecting", "connected")
    /\ link' = "up"
    /\ UNCHANGED <<running, ctl, resets, worker, conn, wire, buffer, sent,
                   workVars, acked>>

PublishConnection ==
    /\ Goto("connected", "test")
    /\ conn' = TRUE
    /\ UNCHANGED <<running, ctl, resets, worker, buffer, hubVars, workVars,
                   acked>>

InnerTest ==
    /\ client = "test"
    /\ client' = IF running THEN "poll" ELSE "top"
    /\ UNCHANGED <<running, ctl, resets, worker, conn, buffer, hubVars,
                   workVars, acked>>

\* Mutated form of PollTimeout: epoll_pwait waits for data without a timeout.
PollTimeoutNot ==
    /\ ~running
    /\ wire # <<>>
    /\ Goto("poll", "test")
    /\ UNCHANGED <<running, ctl, resets, worker, conn, buffer, hubVars,
                   workVars, acked>>

\* epoll_pwait waits 100 ms at most; with running_ up a timeout changes
\* nothing.
PollTimeout ==
    /\ ~running
    /\ Goto("poll", "test")
    /\ UNCHANGED <<running, ctl, resets, worker, conn, buffer, hubVars,
                   workVars, acked>>

PollEvent ==
    /\ \/ link = "up" /\ wire # <<>>
       \/ link = "lost"
    /\ Goto("poll", "check")
    /\ UNCHANGED <<running, ctl, resets, worker, conn, buffer, hubVars,
                   workVars, acked>>

\* The check is made under connectionMutex_ ...
SafetyCheck ==
    /\ client = "check"
    /\ client' = IF conn THEN "deref" ELSE "top"
    /\ UNCHANGED <<running, ctl, resets, worker, conn, buffer, hubVars,
                   workVars, acked>>

\* ... and the pointer is followed after it was released: with the connection
\* moved away meanwhile the process dies.
Dereference ==
    /\ client = "deref"
    /\ conn
    /\ client' = "read"
    /\ UNCHANGED <<running, ctl, resets, worker, conn, buffer, hubVars,
                   workVars, acked>>

DereferenceNull ==
    /\ client = "deref"
    /\ ~conn
    /\ client' = "dead" /\ worker' = "dead" /\ ctl' = "dead"
    /\ link' = "down"
    /\ UNCHANGED <<running, resets, conn, wire, buffer, sent, workVars, acked>>

\* One recv appends some of what has arrived.
Receive ==
    /\ Goto("read", "process")
    /\ link \in {"up", "lost"}
    /\ \E n \in 1..Len(wire) :
        /\ buffer' = buffer \o SubSeq(wire, 1, n)
        /\ wire' = SubSeq(wire, n + 1, Len(wire))
    /\ UNCHANGED <<running, ctl, resets, worker, conn, link, sent, workVars,
                   acked>>

ReceiveFails ==
    /\ Goto("read", "close")
    /\ link \in {"lost", "closed"}
    /\ UNCHANGED <<running, ctl, resets, worker, conn, buffer, hubVars,
                   workVars, acked>>

BufferDone ==
    /\ buffer = <<>>
    /\ Goto("process", "test")
    /\ UNCHANGED <<running, ctl, resets, worker, conn, buffer, hubVars,
                   workVars, acked>>

Acknowledge ==
    /\ buffer # <<>>
    /\ Head(buffer) \in Commands
    /\ link # "closed"
    /\ Goto("process", "push")
    /\ acked' = acked \cup {Head(buffer)}
    /\ UNCHANGED <<running, ctl, resets, worker, conn, buffer, hubVars,
                   workVars>>

\* The packet does not parse, or the acknowledgement cannot be sent.
Reject ==
    /\ buffer # <<>>
    /\ Head(buffer) \in Garbage \/ link # "up"
    /\ Goto("process", "close")
    /\ UNCHANGED <<running, ctl, resets, worker, conn, buffer, hubVars,
                   workVars, acked>>

\* Mutated form of Push: an urgent command waits for its turn.
PushBack ==
    /\ worker # "checked"
    /\ Goto("push", "notify")
    /\ queue' = Append(queue, Head(buffer))
    /\ buffer' = Tail(buffer)
    /\ UNCHANGED <<running, ctl, resets, worker, conn, hubVars, busy, executed,
                   acked>>

\* Queue the command under queueMutex_; the worker holds it in "checked".
Push ==
    /\ worker # "checked"
    /\ Goto("push", "notify")
    /\ queue' = IF Head(buffer) \in Urgent THEN <<Head(buffer)>> \o queue
                                           ELSE Append(queue, Head(buffer))
    /\ buffer' = Tail(buffer)
    /\ UNCHANGED <<running, ctl, resets, worker, conn, hubVars, busy, executed,
                   acked>>

\* notify_one and notify_all reach only a worker that is waiting.
Wake == worker' = IF worker = "waiting" THEN "locking" ELSE worker

\* Mutated form of PushNotify: the worker is not woken.
PushNotifyNot ==
    /\ Goto("notify", "process")
    /\ UNCHANGED <<running, ctl, resets, worker, conn, buffer, hubVars,
                   workVars, acked>>

PushNotify ==
    /\ Goto("notify", "process")
    /\ Wake
    /\ UNCHANGED <<running, ctl, resets, conn, buffer, hubVars, workVars,
                   acked>>

CloseConnection ==
    /\ Goto("close", "top")
    /\ conn' = FALSE
    /\ link' = "down"
    /\ wire' = <<>>
    /\ buffer' = <<>>
    /\ UNCHANGED <<running, ctl, resets, worker, sent, workVars, acked>>

-----------------------------------------------------------------------------
\* The worker thread, GRAMS_TOF_CommandClient::workerLoop.

WorkerTest ==
    /\ worker = "test"
    /\ worker' = IF running THEN "locking" ELSE "finished"
    /\ UNCHANGED <<running, ctl, resets, client, conn, buffer, hubVars,
                   workVars, acked>>

\* With queueMutex_ held: the predicate of the wait, and what follows it.
WorkerCheck ==
    /\ worker = "locking"
    /\ IF queue # <<>>
       THEN /\ busy' = Head(queue)
            /\ queue' = Tail(queue)
            /\ worker' = "executing"
       ELSE /\ worker' = IF running THEN "checked" ELSE "finished"
            /\ UNCHANGED <<queue, busy>>
    /\ UNCHANGED <<running, ctl, resets, client, conn, buffer, hubVars,
                   executed, acked>>

\* The predicate was false: wait, and release queueMutex_ with it.
WorkerWait ==
    /\ worker = "checked"
    /\ worker' = "waiting"
    /\ UNCHANGED <<running, ctl, resets, client, conn, buffer, hubVars,
                   workVars, acked>>

SpuriousWakeup ==
    /\ worker = "waiting"
    /\ Wake
    /\ UNCHANGED <<running, ctl, resets, client, conn, buffer, hubVars,
                   workVars, acked>>

\* Mutated form of WorkerExecute: the worker does not wait for handler_.
WorkerExecuteDetached ==
    /\ worker = "executing"
    /\ executed' = Append(executed, busy)
    /\ worker' = "test"
    /\ UNCHANGED <<running, ctl, resets, client, conn, buffer, hubVars, queue,
                   busy, acked>>

\* handler_ has returned (or has thrown).
WorkerExecute ==
    /\ worker = "executing"
    /\ executed' = Append(executed, busy)
    /\ busy' = NoCommand
    /\ worker' = "test"
    /\ UNCHANGED <<running, ctl, resets, client, conn, buffer, hubVars, queue,
                   acked>>

-----------------------------------------------------------------------------
\* The controller: stop() and start().

StopBegin ==
    /\ ctl = "run"
    /\ resets < MaxResets
    /\ running' = FALSE
    /\ ctl' = "notify"
    /\ resets' = resets + 1
    /\ UNCHANGED <<client, worker, conn, buffer, hubVars, workVars, acked>>

StopNotify ==
    /\ ctl = "notify"
    /\ Wake
    /\ ctl' = "joinWorker"
    /\ UNCHANGED <<running, resets, client, conn, buffer, hubVars, workVars,
                   acked>>

StopJoinWorker ==
    /\ ctl = "joinWorker"
    /\ worker = "finished"
    /\ worker' = "none"
    /\ ctl' = "close"
    /\ UNCHANGED <<running, resets, client, conn, buffer, hubVars, workVars,
                   acked>>

StopClose ==
    /\ ctl = "close"
    /\ ctl' = "joinClient"
    /\ conn' = FALSE
    /\ link' = IF conn /\ link # "down" THEN "closed" ELSE link
    /\ UNCHANGED <<running, resets, client, worker, wire, buffer, sent,
                   workVars, acked>>

StopJoinClient ==
    /\ ctl = "joinClient"
    /\ client = "finished"
    /\ client' = "none"
    /\ ctl' = "down"
    /\ UNCHANGED <<running, resets, worker, conn, buffer, hubVars, workVars,
                   acked>>

\* Mutated form of Start: the queue is emptied for the new connection.
StartEmpty ==
    /\ ctl = "down"
    /\ running' = TRUE
    /\ client' = "top"
    /\ worker' = "test"
    /\ ctl' = "run"
    /\ queue' = <<>>
    /\ UNCHANGED <<resets, conn, buffer, hubVars, busy, executed, acked>>

Start ==
    /\ ctl = "down"
    /\ running' = TRUE
    /\ client' = "top"
    /\ worker' = "test"
    /\ ctl' = "run"
    /\ UNCHANGED <<resets, conn, buffer, hubVars, workVars, acked>>

-----------------------------------------------------------------------------
ClientNext ==
    \/ ClientTop \/ ConnectFails \/ ConnectSucceeds \/ PublishConnection
    \/ InnerTest \/ PollTimeout \/ PollEvent \/ SafetyCheck \/ Dereference
    \/ DereferenceNull \/ Receive \/ ReceiveFails \/ BufferDone \/ Acknowledge \/ Reject
    \/ Push \/ PushNotify \/ CloseConnection

WorkerNext == WorkerTest \/ WorkerCheck \/ WorkerWait \/ WorkerExecute

StopNext == StopNotify \/ StopJoinWorker \/ StopClose \/ StopJoinClient

Next ==
    \/ \E p \in Packets : HubSend(p)
    \/ HubDrop
    \/ ClientNext
    \/ WorkerNext
    \/ SpuriousWakeup
    \/ StopBegin
    \/ StopNext
    \/ Start

Spec == Init /\ [][Next]_vars

\* The threads keep running and a stop() once begun is carried on; handlers
\* return; the connection thread gets queueMutex_ in the end although the
\* worker may take it again and again.  The hub, the reasons to reset and
\* spurious wakeups owe nothing.
Fairness ==
    /\ WF_vars(ClientNext)
    /\ SF_vars(Push)
    /\ WF_vars(WorkerNext)
    /\ WF_vars(StopNext)

FairSpec == Spec /\ Fairness

-----------------------------------------------------------------------------
Executing(c) == busy = c
Queued == {queue[i] : i \in DOMAIN queue}
Executed == {executed[i] : i \in DOMAIN executed}

\* The state keeps its shape, and a command is being executed exactly while
\* the worker is in its handler.
TypeOK ==
    /\ running \in BOOLEAN /\ conn \in BOOLEAN
    /\ ctl \in CtlStates
    /\ resets \in 0..MaxResets
    /\ client \in ClientStates
    /\ worker \in WorkerStates
    /\ link \in {"down", "up", "lost", "closed"}
    /\ wire \in Seq(Packets) /\ buffer \in Seq(Packets)
    /\ queue \in Seq(Commands) /\ executed \in Seq(Commands)
    /\ busy \in Commands \cup {NoCommand}
    /\ sent \subseteq Packets /\ acked \subseteq Commands
    /\ worker # "dead" => (worker = "executing" <=> busy # NoCommand)

\* How many urgent commands the queue begins with.
Lead(q) ==
    CHOOSE k \in 0..Len(q) :
        /\ \A i \in 1..k : q[i] \in Urgent
        /\ k < Len(q) => q[k + 1] \notin Urgent

\* The client is an implementation of the service it promises: through lost
\* connections, garbage and restarts every queued command is executed once,
\* urgent ones first, the others in order (CommandClient.cpp:249-258, 289-311).
Service == INSTANCE CommandService
    WITH urgent <- SubSeq(queue, 1, Lead(queue)),
         normal <- SubSeq(queue, Lead(queue) + 1, Len(queue)),
         accepted <- Queued \cup Executed \cup {c \in Commands : Executing(c)}

ImplementsService == Service!Spec

\* What was acknowledged to the hub is not lost: it is about to be queued, in
\* the queue, being executed or executed, also across a restart
\* (CommandClient.cpp:233-258).
AckedIsKept ==
    acked \ (Queued \cup Executed \cup {busy})
        = IF client = "push" THEN {Head(buffer)} ELSE {}

\* If the client is left running in the end, an acknowledged command is
\* executed, also one queued before a restart: no wakeup of the worker is lost
\* between the push and the wait (CommandClient.cpp:258, 294).
AckedIsExecuted ==
    \A c \in Commands :
        <>[](ctl = "run") => (c \in acked ~> c \in Executed)

\* stop() returns whenever the worker is not between its predicate and its
\* wait at that moment, whatever the connection is doing (CommandClient.cpp:48).
StopReturnsIfSeen ==
    ctl = "notify" /\ worker # "checked" ~> ctl \in {"down", "dead"}

\* stop() wakes the worker, so it always returns (CommandClient.cpp:52).
ClientStopReturns == ctl = "notify" ~> ctl \in {"down", "dead"}

=============================================================================
