-------------------------------- MODULE EventLink --------------------------------
(***************************************************************************)
(* The event connection: GRAMS_TOF_EventClient with its connection thread, *)
(* stop() and start(), and the threads that send through it: status        *)
(* callbacks with their retries, telemetry and journal lines without.      *)
(*                                                                         *)
(* A packet is sent in Parts pieces, as a non-blocking socket takes them.  *)
(* The stream of a connection is kept as the pieces that follow the last   *)
(* whole packet, up to the first failure.  Descriptor numbers are in       *)
(* FdManager.                                                              *)
(***************************************************************************)
EXTENDS Integers, Sequences

CONSTANTS Callers,     \* threads that call sendStatusCallback
          Telemetry,   \* threads that send a packet once
          Parts,       \* pieces of a packet
          MaxRetries,  \* max_retries (10 in the code)
          Nobody

ASSUME LinkAssumption ==
    /\ Parts \in Nat \ {0}
    /\ MaxRetries \in Nat \ {0}
    /\ Callers \cap Telemetry = {}
    /\ Nobody \notin Callers \cup Telemetry

Senders == Callers \cup Telemetry

VARIABLES
    running,  \* running_
    run,      \* where run() is; "none": not joinable
    ctl,      \* where the controller is with stop() and start()
    hub,      \* hubConnection_: "null", "open", or "closed" (its fd_ is -1)
    link,     \* the TCP connection behind it
    mutex,    \* connectionMutex_, where it is held across steps
    snd,      \* where a thread is in sendPacket
    part,     \* pieces of its packet that are out
    tries,    \* attempts of sendStatusCallback
    stream,   \* senders of the pieces after the last whole packet or failure
    failed    \* a send has failed on this connection while it was up

linkVars == <<running, run, ctl, hub, link, mutex, snd, part, tries, stream,
              failed>>
threadVars == <<running, run, ctl>>
connVars == <<hub, link, stream, failed>>
sendVars == <<snd, part, tries>>

LinkInit ==
    /\ running = FALSE
    /\ run = "none"
    /\ ctl = "down"
    /\ hub = "null"
    /\ link = "none"
    /\ mutex = Nobody
    /\ snd = [s \in Senders |-> "idle"]
    /\ part = [s \in Senders |-> 0]
    /\ tries = [s \in Senders |-> 0]
    /\ stream = <<>>
    /\ failed = FALSE

\* mtx_ of the FDManager is held for the whole of a send.
MtxFree == \A s \in Senders : snd[s] # "sending"

RunGoto(from, to) == run = from /\ run' = to

\* The socket is closed, and its stream with it.
DropLink ==
    /\ link' = "none"
    /\ stream' = <<>>
    /\ failed' = FALSE

\* closeFD of the connection object: its entry is erased and the socket
\* closed, if that has not been done before.
CloseFD ==
    /\ MtxFree
    /\ hub' = IF hub = "open" THEN "closed" ELSE hub
    /\ DropLink

-----------------------------------------------------------------------------
\* sendPacket.

Begin(s) ==
    /\ snd[s] = "idle"
    /\ snd' = [snd EXCEPT ![s] = "lock"]
    /\ UNCHANGED <<part, tries>>

\* The call ends, and its locals with it.
Leave(s) ==
    /\ snd' = [snd EXCEPT ![s] = "idle"]
    /\ part' = [part EXCEPT ![s] = 0]
    /\ tries' = [tries EXCEPT ![s] = 0]

\* sendPacket returns false: sendStatusCallback sleeps and tries again, ten
\* times at most.
Refused(s) ==
    IF s \in Callers /\ tries[s] + 1 < MaxRetries
    THEN /\ tries' = [tries EXCEPT ![s] = @ + 1]
         /\ snd' = [snd EXCEPT ![s] = "lock"]
         /\ UNCHANGED part
    ELSE Leave(s)

\* Mutated form of SendLock: the connection is used without its mutex.
SendLockNot(s) ==
    /\ snd[s] = "lock"
    /\ \/ hub = "null" /\ Refused(s) /\ UNCHANGED mutex
       \/ hub = "closed" /\ Leave(s) /\ UNCHANGED mutex
       \/ /\ hub = "open"
          /\ mutex' = s
          /\ snd' = [snd EXCEPT ![s] = "sending"]
          /\ UNCHANGED <<part, tries>>
    /\ UNCHANGED <<threadVars, connVars>>

\* Lock connectionMutex_.  Without a connection the packet is refused.  A
\* closed connection has no entry in the FDManager any more and yields -1,
\* which sendPacket takes for success.
SendLock(s) ==
    /\ snd[s] = "lock"
    /\ mutex = Nobody
    /\ MtxFree
    /\ \/ hub = "null" /\ Refused(s) /\ UNCHANGED mutex
       \/ hub = "closed" /\ Leave(s) /\ UNCHANGED mutex
       \/ /\ hub = "open"
          /\ mutex' = s
          /\ snd' = [snd EXCEPT ![s] = "sending"]
          /\ UNCHANGED <<part, tries>>
    /\ UNCHANGED <<threadVars, connVars>>

\* Mutated form of SendPart: the first piece is taken for the packet.
SendPartOnce(s) ==
    /\ snd[s] = "sending"
    /\ link = "up"
    /\ stream' = IF Parts = 1 THEN <<>> ELSE Append(stream, s)
    /\ mutex' = Nobody
    /\ Leave(s)
    /\ UNCHANGED <<threadVars, hub, link, failed>>

\* send() takes a piece; the loop goes on until the packet is out, and
\* sendPacket returns true.
SendPart(s) ==
    /\ snd[s] = "sending"
    /\ link = "up"
    /\ IF part[s] + 1 < Parts
       THEN /\ part' = [part EXCEPT ![s] = @ + 1]
            /\ stream' = Append(stream, s)
            /\ UNCHANGED <<mutex, snd, tries>>
       ELSE /\ stream' = <<>>
            /\ mutex' = Nobody
            /\ Leave(s)
    /\ UNCHANGED <<threadVars, hub, link, failed>>

\* The link is gone, the descriptor closed or the socket buffer full: sendData
\* gives up between two pieces and returns -1, which sendPacket takes for
\* success.
SendFails(s) ==
    /\ snd[s] = "sending"
    /\ mutex' = Nobody
    /\ failed' = (failed \/ link = "up")
    /\ stream' = <<>>
    /\ Leave(s)
    /\ UNCHANGED <<threadVars, hub, link>>

-----------------------------------------------------------------------------
\* The connection thread.

\* Another round: clear any old connection.  Destroying it closes it.
ClearOld ==
    /\ running
    /\ RunGoto("top", "connect")
    /\ mutex = Nobody
    /\ MtxFree
    /\ hub' = "null"
    /\ DropLink
    /\ UNCHANGED <<running, ctl, mutex, sendVars>>

\* socket() or connect() fails, after a pause in which running_ is watched.
ConnectFails ==
    /\ RunGoto("connect", "top")
    /\ UNCHANGED <<running, ctl, connVars, mutex, sendVars>>

Connect ==
    /\ RunGoto("connect", "store")
    /\ link' = "up"
    /\ UNCHANGED <<running, ctl, hub, stream, failed, mutex, sendVars>>

\* GRAMS_TOF_Client registers the descriptor.
Store ==
    /\ RunGoto("store", "epoll")
    /\ mutex = Nobody
    /\ MtxFree
    /\ hub' = "open"
    /\ UNCHANGED <<running, ctl, link, stream, failed, mutex, sendVars>>

EpollReady ==
    /\ RunGoto("epoll", "poll")
    /\ UNCHANGED <<running, ctl, connVars, mutex, sendVars>>

\* The epoll instance cannot be set up: close and reset under the mutex.
EpollFails ==
    /\ RunGoto("epoll", "top")
    /\ mutex = Nobody
    /\ MtxFree
    /\ hub' = "null"
    /\ DropLink
    /\ UNCHANGED <<running, ctl, mutex, sendVars>>

\* epoll_pwait times out every 100 ms.
PollEnd ==
    /\ ~running
    /\ RunGoto("poll", "top")
    /\ UNCHANGED <<running, ctl, connVars, mutex, sendVars>>

\* An event: take the address of the connection, if there is one.
TakePointer ==
    /\ running
    /\ run = "poll"
    /\ mutex = Nobody
    /\ run' = IF hub = "null" THEN "top" ELSE "recv"
    /\ UNCHANGED <<running, ctl, connVars, mutex, sendVars>>

\* recvData delivers a packet to the handler, which ignores it.
Receive ==
    /\ RunGoto("recv", "poll")
    /\ MtxFree
    /\ hub = "open" /\ link = "up"
    /\ UNCHANGED <<running, ctl, connVars, mutex, sendVars>>

\* recvData returns nothing or fails, or the event was a hangup.
ReceiveFails ==
    /\ RunGoto("recv", "close")
    /\ MtxFree
    /\ UNCHANGED <<running, ctl, connVars, mutex, sendVars>>

\* closeFD is called without connectionMutex_, the reset with it.
RunClose ==
    /\ RunGoto("close", "reset")
    /\ CloseFD
    /\ UNCHANGED <<running, ctl, mutex, sendVars>>

RunReset ==
    /\ RunGoto("reset", "top")
    /\ mutex = Nobody
    /\ hub' = "null"
    /\ UNCHANGED <<running, ctl, link, stream, failed, mutex, sendVars>>

\* removeServerFD closes the number in the EVENT slot, which is that of the
\* connection if nobody has closed it yet: without any mutex, although stop()
\* may still wait for one and a thread may be sending.  The connection object
\* does not notice.
RunEnd ==
    /\ ~running
    /\ RunGoto("top", "done")
    /\ DropLink
    /\ UNCHANGED <<running, ctl, hub, mutex, sendVars>>

\* The peer goes away, or the network does, and nothing more gets to the hub.
LinkLost ==
    /\ link = "up"
    /\ link' = "lost"
    /\ stream' = <<>>
    /\ failed' = FALSE
    /\ UNCHANGED <<threadVars, hub, mutex, sendVars>>

-----------------------------------------------------------------------------
\* stop() and start().

StopFlag ==
    /\ ctl = "up"
    /\ ctl' = "shut"
    /\ running' = FALSE
    /\ UNCHANGED <<run, connVars, mutex, sendVars>>

\* Shut the socket down and close it; the connection object stays.
StopShut ==
    /\ ctl = "shut"
    /\ mutex = Nobody
    /\ ctl' = "join"
    /\ IF hub = "null" THEN UNCHANGED connVars ELSE CloseFD
    /\ UNCHANGED <<running, run, mutex, sendVars>>

StopJoin ==
    /\ ctl = "join"
    /\ run = "done"
    /\ ctl' = "down"
    /\ run' = "none"
    /\ UNCHANGED <<running, connVars, mutex, sendVars>>

Start ==
    /\ ctl = "down"
    /\ ctl' = "up"
    /\ running' = TRUE
    /\ run' = "top"
    /\ UNCHANGED <<connVars, mutex, sendVars>>

-----------------------------------------------------------------------------
SendStep(s) == SendLock(s) \/ SendPart(s) \/ SendFails(s)

RunStep ==
    \/ ClearOld \/ ConnectFails \/ Connect \/ Store \/ EpollReady \/ EpollFails
    \/ PollEnd \/ TakePointer \/ Receive \/ ReceiveFails \/ RunClose \/ RunReset
    \/ RunEnd

LinkNext == RunStep \/ LinkLost \/ \E s \in Senders : SendStep(s)

-----------------------------------------------------------------------------
\* The shape of the state: connectionMutex_ is held exactly by a thread
\* inside sendPacket, and no call makes more attempts than it may.
LinkTypeOK ==
    /\ running \in BOOLEAN
    /\ run \in {"none", "top", "connect", "store", "epoll", "poll", "recv", "close",
                "reset", "done"}
    /\ ctl \in {"up", "shut", "join", "down"}
    /\ hub \in {"null", "open", "closed"}
    /\ link \in {"none", "up", "lost"}
    /\ mutex \in Senders \cup {Nobody}
    /\ snd \in [Senders -> {"idle", "lock", "sending"}]
    /\ \A s \in Senders : mutex = s <=> snd[s] = "sending"
    /\ part \in [Senders -> 0..Parts-1]
    /\ tries \in [Senders -> 0..MaxRetries-1]
    /\ stream \in Seq(Senders)
    /\ failed \in BOOLEAN

\* As long as no send on a connection has failed, the hub can cut the stream
\* into packets, whichever of the worker, the monitor thread, the macro thread
\* and the journal forwarder send at the same time: what follows the last whole
\* packet belongs to the one thread that is sending (FDManager.h:34,
\* EventClient.cpp:99).
StreamIsWhole ==
    failed \/ stream = <<>> \/
    \E s \in Senders :
        snd[s] = "sending" /\ \A i \in 1..Len(stream) : stream[i] = s

=============================================================================
