------------------------------- MODULE FrameServer -------------------------------
(***************************************************************************)
(* The way of a data frame from the front end into a raw file: the UDP     *)
(* frame server inside the DAQ process (its worker thread and the requests *)
(* its poll thread executes), the ring of frames in shared memory, and the *)
(* acquisition scripts that read the ring through the requests and have    *)
(* write_raw copy it to disk.                                              *)
(*                                                                         *)
(* A datagram carries one frame here; a frame is the synchronisation it    *)
(* belongs to and its number.  A script sends one request at a time and    *)
(* waits for the answer, so a request, its execution and the answer are    *)
(* one step unless the poll thread waits in between.  Frames are numbered  *)
(* up to MaxFrame after a synchronisation, scripts are started MaxStarts   *)
(* times in all.                                                           *)
(***************************************************************************)
EXTENDS Integers, Sequences, FiniteSets

CONSTANTS QueueSize,   \* MaxRawDataFrameQueueSize
          Acquirers,   \* scripts that acquire
          Stopper,     \* stop_daq.py
          Required,    \* frames an acquisition asks for
          MaxStarts,   \* bound on the starts of scripts
          MaxTries,    \* attempts of one command to the front end
          MaxFrame,    \* bound on the frame numbers
          WireSize,    \* datagrams the socket buffer holds
          MaxFile,     \* bound on the frames a script writes in a step
          MaxLag       \* frames the time tag may be ahead of the next frame

ASSUME FrameAssumption ==
    /\ QueueSize \in Nat \ {0, 1}
    /\ Stopper \notin Acquirers
    /\ "nobody" \notin Acquirers \cup {Stopper}
    /\ {Required, MaxStarts, MaxTries, MaxFrame, WireSize, MaxFile, MaxLag} \subseteq Nat

VARIABLES
    wr, rd,         \* dataFrameWritePointer, dataFrameReadPointer
    mode,           \* acquisitionMode # 0
    minimum,        \* minimumFrameID
    slots,          \* the frames in shared memory
    hasWorker,      \* hasWorker, as amAcquiring() reports it
    die,            \* die
    worker,         \* where doWork is; "none": joined
    packet,         \* the datagram the worker has received
    slot,           \* the slot it has chosen, or NoSlot for devNull
    replyQueue,     \* replyQueue
    wire,           \* datagrams in the UDP socket
    commands,       \* commands on their way to the front end
    sync, now,      \* synchronisation, next frame to be sent
    poll,           \* what the poll thread waits for
    client,         \* the client whose request it executes
    script,         \* a script's position and variables
    sn,             \* serial number of the last command
    starts          \* scripts started

ringVars == <<wr, rd, slots>>
modeVars == <<mode, minimum, hasWorker, die>>
workerVars == <<worker, packet, slot>>
netVars == <<replyQueue, wire, commands>>
clockVars == <<sync, now>>
pollVars == <<poll, client>>
scriptVars == <<script, sn, starts>>
vars == <<ringVars, modeVars, workerVars, netVars, clockVars, pollVars,
          scriptVars>>

Clients == Acquirers \cup {Stopper}
Pointers == 0 .. 2 * QueueSize - 1
Slots == 0 .. QueueSize - 1
NoSlot == QueueSize
Frame(s, i) == [sync |-> s, id |-> i]
Zero == Frame(0, 0)       \* memory after ftruncate
Torn == Frame(-1, 0)      \* a frame being copied
NoPacket == [type |-> "none"]
Nobody == "nobody"

\* Of a script: where it is; the attempts of its command; targetFrameID of
\* __synchronizeDataToConfig, as a frame; rdPointer and wrPointer of the block
\* it handles; currentFrame and stopFrame; the frames write_raw has handled
\* since the step began.
NewScript ==
    [pc |-> "off", tries |-> 0, target |-> Zero, first |-> 0, last |-> 0,
     current |-> 0, stop |-> 0, file |-> <<>>]
EndedScript == [NewScript EXCEPT !.pc = "ended"]

isFull == wr # rd /\ wr % QueueSize = rd % QueueSize

Init ==
    /\ wr = 0 /\ rd = 0
    /\ mode = FALSE
    /\ minimum = 0
    /\ slots = [i \in Slots |-> Zero]
    /\ hasWorker = FALSE
    /\ die = TRUE
    /\ worker = "none"
    /\ packet = NoPacket
    /\ slot = NoSlot
    /\ replyQueue = <<>>
    /\ wire = <<>>
    /\ commands = <<>>
    /\ sync = 0 /\ now = 0
    /\ poll = "idle"
    /\ client = Nobody
    /\ script = [c \in Clients |-> EndedScript]
    /\ sn = 0
    /\ starts = 0

-----------------------------------------------------------------------------
\* The front end: frames are built and sent in order, a command is answered
\* when it arrives.  A datagram that finds the socket buffer full is lost.

Arrive(p) == wire' = IF Len(wire) < WireSize THEN Append(wire, p) ELSE wire

FrameSent ==
    /\ sync > 0 /\ now < MaxFrame
    /\ Arrive([type |-> "data", frame |-> Frame(sync, now)])
    /\ now' = now + 1
    /\ UNCHANGED <<ringVars, modeVars, workerVars, replyQueue, commands, sync,
                   pollVars, scriptVars>>

\* A synchronisation restarts the frame numbers; the time tag is that of the
\* frame being built, which may be ahead of the frames sent.
CommandArrives ==
    /\ commands # <<>>
    /\ commands' = Tail(commands)
    /\ LET Reply(t) == [type |-> "reply", sn |-> Head(commands).sn, tag |-> t] IN
       \/ /\ Head(commands).what = "sync"
          /\ sync' = sync + 1 /\ now' = 0
          /\ Arrive(Reply(Zero))
       \/ /\ Head(commands).what = "tag"
          /\ \E lag \in 0 .. MaxLag :
               Arrive(Reply(Frame(sync, now + lag)))
          /\ UNCHANGED clockVars
    /\ UNCHANGED <<ringVars, modeVars, workerVars, replyQueue, pollVars,
                   scriptVars>>

-----------------------------------------------------------------------------
\* The worker thread, UDPFrameServer::doWork.  recv() gives up after 100 ms,
\* so an empty socket only makes it test die again.

\* Mutated form of WorkerEnds: recv() without a timeout, die is tested after a
\* datagram only.
WorkerEndsBlocking ==
    /\ worker = "recv" /\ die /\ wire # <<>>
    /\ worker' = "done"
    /\ UNCHANGED <<ringVars, modeVars, packet, slot, netVars, clockVars,
                   pollVars, scriptVars>>

WorkerEnds ==
    /\ worker = "recv" /\ die
    /\ worker' = "done"
    /\ UNCHANGED <<ringVars, modeVars, packet, slot, netVars, clockVars,
                   pollVars, scriptVars>>

WorkerReply ==
    /\ worker = "recv" /\ ~die
    /\ wire # <<>> /\ Head(wire).type = "reply"
    /\ replyQueue' = Append(replyQueue, Head(wire))
    /\ wire' = Tail(wire)
    /\ UNCHANGED <<ringVars, modeVars, workerVars, commands, clockVars,
                   pollVars, scriptVars>>

WorkerData ==
    /\ worker = "recv" /\ ~die
    /\ wire # <<>> /\ Head(wire).type = "data"
    /\ wire' = Tail(wire)
    /\ IF mode
         THEN worker' = "slot" /\ packet' = Head(wire)
         ELSE UNCHANGED <<worker, packet>>
    /\ UNCHANGED <<ringVars, modeVars, slot, replyQueue, commands, clockVars,
                   pollVars, scriptVars>>

\* Mutated form of WorkerSlot: a full ring is not noticed.
WorkerSlotFull ==
    /\ worker = "slot"
    /\ worker' = "copy"
    /\ slot' = wr % QueueSize
    /\ slots' = [slots EXCEPT ![slot'] = Torn]
    /\ UNCHANGED <<wr, rd, modeVars, packet, netVars, clockVars, pollVars,
                   scriptVars>>

\* The slot is chosen under the lock, the copy is made after it.
WorkerSlot ==
    /\ worker = "slot"
    /\ worker' = "copy"
    /\ slot' = IF isFull THEN NoSlot ELSE wr % QueueSize
    /\ slots' = [i \in Slots |-> IF i = slot' THEN Torn ELSE slots[i]]
    /\ UNCHANGED <<wr, rd, modeVars, packet, netVars, clockVars, pollVars,
                   scriptVars>>

\* Mutated form of WorkerCopy: minimumFrameID is not looked at.
WorkerCopyAll ==
    /\ worker = "copy"
    /\ slots' = [i \in Slots |-> IF i = slot THEN packet.frame ELSE slots[i]]
    /\ worker' = "push"
    /\ UNCHANGED <<wr, rd, modeVars, packet, slot, netVars, clockVars,
                   pollVars, scriptVars>>

\* A frame of inconsistent size ends the datagram, one below minimumFrameID is
\* passed over; neither is pushed.
WorkerCopy ==
    /\ worker = "copy"
    /\ slots' = [i \in Slots |-> IF i = slot THEN packet.frame ELSE slots[i]]
    /\ worker' \in IF packet.frame.id < minimum THEN {"recv"}
                  ELSE {"recv", "push"}
    /\ IF worker' = "push" THEN UNCHANGED <<packet, slot>>
                           ELSE packet' = NoPacket /\ slot' = NoSlot
    /\ UNCHANGED <<wr, rd, modeVars, netVars, clockVars, pollVars,
                   scriptVars>>

\* Mutated form of WorkerPush: the pointer is not kept modulo two turns.
WorkerPushOn ==
    /\ worker = "push"
    /\ worker' = "recv"
    /\ packet' = NoPacket /\ slot' = NoSlot
    /\ wr' = IF slot = NoSlot THEN wr ELSE wr + 1
    /\ UNCHANGED <<rd, slots, modeVars, netVars, clockVars, pollVars,
                   scriptVars>>

WorkerPush ==
    /\ worker = "push"
    /\ worker' = "recv"
    /\ packet' = NoPacket /\ slot' = NoSlot
    /\ wr' = IF slot = NoSlot THEN wr ELSE (wr + 1) % (2 * QueueSize)
    /\ UNCHANGED <<rd, slots, modeVars, netVars, clockVars, pollVars,
                   scriptVars>>

-----------------------------------------------------------------------------
\* The poll thread, one request at a time.  Its answer lets the script go on,
\* if it has not been killed meanwhile.

At(c, places) == script[c].pc \in places

Continue(c, s) ==
    script' = IF At(c, {"ended"}) THEN script ELSE [script EXCEPT ![c] = s]

Answered == poll' = "idle" /\ client' = Nobody

ResetPointers == wr' = 0 /\ rd' = 0

\* doAcqOnOff: the pointers are reset and the worker told to end.
AcqOnOff(c) ==
    /\ poll = "idle" /\ At(c, {"off", "on"})
    /\ client' = c
    /\ poll' = IF At(c, {"on"}) THEN "joinOn" ELSE "joinOff"
    /\ mode' = FALSE
    /\ ResetPointers
    /\ die' = (hasWorker \/ die)
    /\ UNCHANGED <<slots, minimum, hasWorker, workerVars, netVars, clockVars,
                   scriptVars>>

\* stopWorker returns; a stop is answered, a start sleeps.
Join ==
    /\ poll \in {"joinOff", "joinOn"}
    /\ hasWorker => worker = "done"
    /\ hasWorker' = FALSE
    /\ worker' = "none"
    /\ \/ poll = "joinOn" /\ poll' = "sleep" /\ UNCHANGED <<client, script>>
       \/ /\ poll = "joinOff" /\ Answered
          /\ Continue(client, IF client = Stopper THEN EndedScript
                              ELSE [script[client] EXCEPT !.pc = "sync"])
    /\ UNCHANGED <<ringVars, mode, minimum, die, packet, slot, netVars,
                   clockVars, sn, starts>>

\* startAcquisition after its sleep: the second reset and the new worker.
Restart ==
    /\ poll = "sleep" /\ Answered
    /\ ResetPointers
    /\ mode' = TRUE
    /\ minimum' = 0
    /\ die' = FALSE
    /\ hasWorker' = TRUE
    /\ worker' = "recv"
    /\ Continue(client, [script[client] EXCEPT !.pc = "tag"])
    /\ UNCHANGED <<slots, packet, slot, netVars, clockVars, sn, starts>>

\* sendCommand: the command goes out, then a reply with its serial number is
\* awaited, from the worker if there is one and else from the socket.
SendCommand(c) ==
    /\ poll = "idle" /\ At(c, {"sync", "tag"})
    /\ poll' = "reply" /\ client' = c
    /\ sn' = sn + 1
    /\ commands' = Append(commands, [what |-> script[c].pc, sn |-> sn'])
    /\ script' = [script EXCEPT ![c].tries = @ + 1]
    /\ UNCHANGED <<ringVars, modeVars, workerVars, replyQueue, wire, clockVars,
                   starts>>

Expected(p) == p.type = "reply" /\ p.sn = sn

Accept(reply) ==
    \/ /\ Expected(reply)
       /\ Answered
       /\ Continue(client, [script[client] EXCEPT
                              !.pc = IF @ = "sync" THEN "on" ELSE "min",
                              !.target = reply.tag,
                              !.tries = 0])
    \/ /\ ~Expected(reply)
       /\ UNCHANGED <<pollVars, script>>

TakeReply ==
    /\ poll = "reply" /\ hasWorker
    /\ replyQueue # <<>>
    /\ replyQueue' = Tail(replyQueue)
    /\ Accept(Head(replyQueue))
    /\ UNCHANGED <<ringVars, modeVars, workerVars, wire, commands, clockVars,
                   sn, starts>>

ReceiveReply ==
    /\ poll = "reply" /\ ~hasWorker
    /\ wire # <<>>
    /\ wire' = Tail(wire)
    /\ Accept(Head(wire))
    /\ UNCHANGED <<ringVars, modeVars, workerVars, replyQueue, commands,
                   clockVars, sn, starts>>

\* The command times out; the script tries again or gives up.
CommandTimeout ==
    /\ poll = "reply" /\ Answered
    /\ Continue(client, IF script[client].tries < MaxTries THEN script[client]
                        ELSE EndedScript)
    /\ UNCHANGED <<ringVars, modeVars, workerVars, netVars, clockVars, sn, starts>>

SetMinimumFrameID(c) ==
    /\ poll = "idle" /\ At(c, {"min"})
    /\ minimum' = script[c].target.id
    /\ script' = [script EXCEPT ![c].pc = "pointers"]
    /\ UNCHANGED <<ringVars, mode, hasWorker, die, workerVars, netVars,
                   clockVars, pollVars, sn, starts>>

\* doSetDataFrameReadPointer: the write pointer for the synchronisation, what
\* write_raw returned after that.
SetReadPointer(c) ==
    /\ poll = "idle" /\ At(c, {"flush", "step0", "release", "end"})
    /\ LET s == script[c] IN
       /\ rd' = (IF s.pc = "flush" THEN s.last ELSE s.first) % (2 * QueueSize)
       /\ script' = [script EXCEPT ![c] =
            IF s.pc = "end" THEN EndedScript
            ELSE [s EXCEPT !.pc = IF s.pc = "flush" THEN "first"
                                  ELSE IF s.current < s.stop THEN "loop"
                                  ELSE "end"]]
    /\ UNCHANGED <<wr, slots, modeVars, workerVars, netVars, clockVars,
                   pollVars, sn, starts>>

-----------------------------------------------------------------------------
\* The scripts: initializeSystem up to "on", __synchronizeDataToConfig up to
\* "flush", then acquire.  They change nothing but themselves here.

serverVars == <<ringVars, modeVars, workerVars, netVars, clockVars, pollVars>>

\* The first request of a new script waits for the one in execution; that is
\* modelled by starting it later when the request is its predecessor's.
StartScript(c) ==
    /\ At(c, {"ended"}) /\ client # c
    /\ starts < MaxStarts
    /\ starts' = starts + 1
    /\ script' = [script EXCEPT ![c] = NewScript]
    /\ UNCHANGED <<serverVars, sn>>

Kill(c) ==
    /\ ~At(c, {"ended"})
    /\ script' = [script EXCEPT ![c] = EndedScript]
    /\ UNCHANGED <<serverVars, sn, starts>>

\* __getDataFrameWriteReadPointer raises ErrorAcquisitionStopped.
AcquisitionStopped(c) ==
    /\ poll = "idle" /\ At(c, {"pointers", "first", "loop"})
    /\ ~hasWorker
    /\ script' = [script EXCEPT ![c] = EndedScript]
    /\ UNCHANGED <<serverVars, sn, starts>>

Synchronize(c) ==
    /\ poll = "idle" /\ At(c, {"pointers"}) /\ hasWorker
    /\ script' = [script EXCEPT ![c].pc = "flush", ![c].last = wr]
    /\ UNCHANGED <<serverVars, sn, starts>>

FirstFrame(c) ==
    /\ poll = "idle" /\ At(c, {"first"}) /\ hasWorker
    /\ wr # rd
    /\ script' = [script EXCEPT ![c].pc = "begin", ![c].first = rd]
    /\ UNCHANGED <<serverVars, sn, starts>>

\* The number read from a slot; any number while the slot is being written.
getFrameID(i) ==
    IF slots[i] = Torn THEN 0 .. MaxFrame - 1 ELSE {slots[i].id}

\* startFrame, and the start block that makes write_raw begin a step.
BeginStep(c) ==
    /\ At(c, {"begin"})
    /\ \E id \in getFrameID(script[c].first % QueueSize) :
         script' = [script EXCEPT ![c].pc = "step0", ![c].current = id,
                                  ![c].stop = id + Required]
    /\ UNCHANGED <<serverVars, sn, starts>>

Least(S) == CHOOSE x \in S : \A y \in S : x <= y

\* Mutated form of nFramesInBlock: one frame too many.
nFramesInBlockMore(s) ==
    LET n == (wr - rd) % (2 * QueueSize)
    IN Least({n, s.stop - s.current, QueueSize \div 2}) + 1

\* The frames of the next block: those in the ring, at most the missing ones
\* and at most half a ring.
nFramesInBlock(s) ==
    LET d == IF wr > rd THEN wr - rd ELSE rd - wr
        n == IF d > QueueSize THEN 2 * QueueSize - d ELSE d
    IN Least({n, s.stop - s.current, QueueSize \div 2})

NextBlock(c) ==
    /\ poll = "idle" /\ At(c, {"loop"}) /\ hasWorker
    /\ wr # rd
    /\ script' = [script EXCEPT
         ![c].pc = "write", ![c].first = rd,
         ![c].last = (rd + nFramesInBlock(script[c])) % (2 * QueueSize)]
    /\ UNCHANGED <<serverVars, sn, starts>>

\* write_raw, frame by frame, straight from the shared memory.
WriteFrame(c) ==
    /\ At(c, {"write"}) /\ script[c].first # script[c].last
    /\ Len(script[c].file) < MaxFile
    /\ script' = [script EXCEPT
         ![c].file = Append(@, slots[script[c].first % QueueSize]),
         ![c].first = (@ + 1) % (2 * QueueSize)]
    /\ UNCHANGED <<serverVars, sn, starts>>

\* The number of the last frame of the block, before the block is released.
ReadCurrent(c) ==
    /\ At(c, {"write"}) /\ script[c].first = script[c].last
    /\ \E id \in getFrameID((script[c].first + QueueSize - 1) % QueueSize) :
         script' = [script EXCEPT ![c].pc = "release", ![c].current = id]
    /\ UNCHANGED <<serverVars, sn, starts>>

-----------------------------------------------------------------------------
FrontEnd == FrameSent \/ CommandArrives

Worker == WorkerEnds \/ WorkerReply \/ WorkerData \/ WorkerSlot \/ WorkerCopy
          \/ WorkerPush

Poll == Join \/ Restart \/ TakeReply \/ ReceiveReply \/ CommandTimeout

Script(c) ==
    \/ AcqOnOff(c) \/ SendCommand(c) \/ SetMinimumFrameID(c)
    \/ AcquisitionStopped(c) \/ Synchronize(c) \/ FirstFrame(c)
    \/ BeginStep(c) \/ NextBlock(c) \/ WriteFrame(c) \/ ReadCurrent(c)
    \/ SetReadPointer(c)

Next ==
    \/ FrontEnd \/ Worker \/ Poll
    \/ \E c \in Acquirers : Script(c) \/ Kill(c)
    \/ AcqOnOff(Stopper)
    \/ \E c \in Clients : StartScript(c)

\* The threads of the DAQ process and the scripts run when they can; nothing
\* is assumed of the front end, of the commands that start and kill scripts.
Fairness ==
    /\ WF_vars(Worker) /\ WF_vars(Poll)
    /\ \A c \in Acquirers : WF_vars(Script(c))

Spec == Init /\ [][Next]_vars /\ Fairness

-----------------------------------------------------------------------------
Frames == {Torn} \cup [sync : Nat, id : 0 .. MaxFrame + MaxLag]

\* The pointers, slots and positions of the server's threads and the scripts
\* have their types.
TypeOK ==
    /\ {wr, rd} \subseteq Pointers
    /\ {mode, hasWorker, die} \subseteq BOOLEAN
    /\ slots \in [Slots -> Frames]
    /\ slot \in Slots \cup {NoSlot}
    /\ worker \in {"none", "recv", "slot", "copy", "push", "done"}
    /\ hasWorker <=> worker # "none"
    /\ poll \in {"idle", "joinOff", "joinOn", "sleep", "reply"}
    /\ client \in Clients \cup {Nobody}
    /\ poll = "idle" <=> client = Nobody
    /\ \A c \in Clients :
         /\ script[c].pc \in {"off", "sync", "on", "tag", "min",
                              "pointers", "flush", "first", "begin", "step0",
                              "loop", "write", "release", "end", "ended"}
         /\ {script[c].first, script[c].last} \subseteq Pointers
         /\ script[c].target \in Frames
         /\ script[c].file \in Seq(Frames)
=============================================================================
