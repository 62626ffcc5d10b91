-------------------------------- MODULE FdManager --------------------------------
(***************************************************************************)
(* Who owns a file descriptor: GRAMS_TOF_FDManager (a slot per kind of     *)
(* server and the map of client descriptors), GRAMS_TOF_Client, and the    *)
(* connection life of the command and event clients that use them both.    *)
(* A descriptor is a number: the kernel hands out the lowest free one, and *)
(* whoever closes a number closes what is behind it by then.               *)
(*                                                                         *)
(* Both clients run the same loop, except that the command client sets its *)
(* epoll instance up before it wraps the socket; what differs in their     *)
(* stop() does not show here.  Other threads open and close descriptors of *)
(* their own (logs, pipes, the epoll instances, the DAQ socket).           *)
(***************************************************************************)
EXTENDS Integers

CONSTANTS Clients,  \* among "COMMAND" and "EVENT" (ServerKind)
          Others,   \* threads that hold at most one descriptor each
          Fds,      \* descriptor numbers above the standard ones
          Free

None == -1

ASSUME FdsAssumption ==
    /\ Fds \subseteq Nat
    /\ Clients \subseteq {"COMMAND", "EVENT"}
    /\ Clients \cap Others = {}
    /\ Free \notin Clients \cup Others

VARIABLES
    table,    \* who opened what is behind a number
    slot,     \* serverFDs_
    wrapped,  \* the keys of clientFDs_
    fd,       \* connected_fd of a client's run()
    conn,     \* the number in hubConnection_, None when there is none
    held,     \* the descriptor of another thread
    running,  \* running_
    pc,       \* where a client's run() is; "none": not joinable
    ctl       \* where the controller is with a client's stop() and start()

vars == <<table, slot, wrapped, fd, conn, held, running, pc, ctl>>

Init ==
    /\ table = [f \in Fds |-> Free]
    /\ slot = [k \in Clients |-> None]
    /\ wrapped = {}
    /\ fd = [k \in Clients |-> None]
    /\ conn = [k \in Clients |-> None]
    /\ held = [o \in Others |-> None]
    /\ running = [k \in Clients |-> TRUE]
    /\ pc = [k \in Clients |-> "top"]
    /\ ctl = [k \in Clients |-> "up"]

-----------------------------------------------------------------------------
\* The kernel's descriptor table.

Lowest(f) == table[f] = Free /\ \A g \in Fds : g < f => table[g] # Free

Open(a, f) ==
    /\ Lowest(f)
    /\ table' = [table EXCEPT ![f] = a]

\* Closing a number closes what is behind it, whoever opened that; a number
\* nobody has open is refused by the kernel.
Close(f) ==
    table' = IF f = None THEN table ELSE [table EXCEPT ![f] = Free]

\* removeClientFD: erasing an entry destroys its SafeFD, which closes.
Erase(f) ==
    /\ wrapped' = wrapped \ {f}
    /\ Close(IF f \in wrapped THEN f ELSE None)

Goto(k, from, to) == pc[k] = from /\ pc' = [pc EXCEPT ![k] = to]

-----------------------------------------------------------------------------
\* A client's run().

\* Another round of the connection loop.
Enter(k) ==
    /\ running[k]
    /\ Goto(k, "top", "clear")
    /\ fd' = [fd EXCEPT ![k] = None]
    /\ UNCHANGED <<table, slot, wrapped, conn, held, running, ctl>>

\* Clear any old connection.
ClearOld(k) ==
    /\ Goto(k, "clear", "socket")
    /\ Erase(conn[k])
    /\ conn' = [conn EXCEPT ![k] = None]
    /\ UNCHANGED <<slot, fd, held, running, ctl>>

\* The loop ends: removeServerFD.
Leave(k) ==
    /\ ~running[k]
    /\ Goto(k, "top", "finished")
    /\ Close(slot[k])
    /\ slot' = [slot EXCEPT ![k] = None]
    /\ UNCHANGED <<wrapped, fd, conn, held, running, ctl>>

Socket(k, f) ==
    /\ Goto(k, "socket", "set")
    /\ Open(k, f)
    /\ fd' = [fd EXCEPT ![k] = f]
    /\ UNCHANGED <<slot, wrapped, conn, held, running, ctl>>

\* Mutated form of SocketFails: the failure goes unnoticed.
SocketFailsUnseen(k) ==
    /\ Goto(k, "socket", "set")
    /\ UNCHANGED <<table, slot, wrapped, fd, conn, held, running, ctl>>

SocketFails(k) ==
    /\ Goto(k, "socket", "top")
    /\ UNCHANGED <<table, slot, wrapped, fd, conn, held, running, ctl>>

\* setServerFD: exchange the number, close the old one.
SetServerFD(k) ==
    /\ Goto(k, "set", "connect")
    /\ slot' = [slot EXCEPT ![k] = fd[k]]
    /\ Close(slot[k])
    /\ UNCHANGED <<wrapped, fd, conn, held, running, ctl>>

\* connect() can succeed only on the client's own socket.
Connect(k) ==
    /\ Goto(k, "connect", "wrap")
    /\ table[fd[k]] = k
    /\ UNCHANGED <<table, slot, wrapped, fd, conn, held, running, ctl>>

\* The hub is offline, the address is wrong, or the socket is gone: close the
\* number, then have the slot close it again.
ConnectFails(k) ==
    /\ Goto(k, "connect", "remove")
    /\ Close(fd[k])
    /\ UNCHANGED <<slot, wrapped, fd, conn, held, running, ctl>>

RemoveServerFD(k) ==
    /\ Goto(k, "remove", "top")
    /\ Close(slot[k])
    /\ slot' = [slot EXCEPT ![k] = None]
    /\ UNCHANGED <<wrapped, fd, conn, held, running, ctl>>

\* GRAMS_TOF_Client registers the number, unless it is registered already.
Wrap(k) ==
    /\ Goto(k, "wrap", "read")
    /\ wrapped' = wrapped \cup {fd[k]}
    /\ conn' = [conn EXCEPT ![k] = fd[k]]
    /\ UNCHANGED <<table, slot, fd, held, running, ctl>>

\* The epoll instance cannot be set up: the command client closes the raw
\* number (the event client has a connection by then: ConnectionLost).
EpollFails(k) ==
    /\ k = "COMMAND"
    /\ Goto(k, "wrap", "top")
    /\ Close(fd[k])
    /\ UNCHANGED <<slot, wrapped, fd, conn, held, running, ctl>>

\* Mutated form of ConnectionLost: the connection is dropped, not closed.
ConnectionLostOpen(k) ==
    /\ Goto(k, "read", "top")
    /\ conn' = [conn EXCEPT ![k] = None]
    /\ wrapped' = wrapped \ {conn[k]}
    /\ UNCHANGED <<table, slot, fd, held, running, ctl>>

\* The link is lost, or the event client's epoll instance cannot be set up:
\* closeFD, and the connection is reset.
ConnectionLost(k) ==
    /\ Goto(k, "read", "top")
    /\ Erase(conn[k])
    /\ conn' = [conn EXCEPT ![k] = None]
    /\ UNCHANGED <<slot, fd, held, running, ctl>>

ReadTimeout(k) ==
    /\ ~running[k]
    /\ Goto(k, "read", "top")
    /\ UNCHANGED <<table, slot, wrapped, fd, conn, held, running, ctl>>

-----------------------------------------------------------------------------
\* stop() and start() of a client.

StopBegin(k) ==
    /\ ctl[k] = "up"
    /\ running' = [running EXCEPT ![k] = FALSE]
    /\ ctl' = [ctl EXCEPT ![k] = "close"]
    /\ UNCHANGED <<table, slot, wrapped, fd, conn, held, pc>>

StopClose(k) ==
    /\ ctl[k] = "close"
    /\ ctl' = [ctl EXCEPT ![k] = "join"]
    /\ Erase(conn[k])
    /\ conn' = [conn EXCEPT ![k] = None]
    /\ UNCHANGED <<slot, fd, held, running, pc>>

\* Join the thread, then removeServerFD.
StopJoin(k) ==
    /\ ctl[k] = "join"
    /\ pc[k] = "finished"
    /\ pc' = [pc EXCEPT ![k] = "none"]
    /\ ctl' = [ctl EXCEPT ![k] = "down"]
    /\ Close(slot[k])
    /\ slot' = [slot EXCEPT ![k] = None]
    /\ UNCHANGED <<wrapped, fd, conn, held, running>>

Start(k) ==
    /\ ctl[k] = "down"
    /\ running' = [running EXCEPT ![k] = TRUE]
    /\ pc' = [pc EXCEPT ![k] = "top"]
    /\ ctl' = [ctl EXCEPT ![k] = "up"]
    /\ UNCHANGED <<table, slot, wrapped, fd, conn, held>>

-----------------------------------------------------------------------------
\* Other threads.

OtherOpen(o, f) ==
    /\ held[o] = None
    /\ Open(o, f)
    /\ held' = [held EXCEPT ![o] = f]
    /\ UNCHANGED <<slot, wrapped, fd, conn, running, pc, ctl>>

OtherClose(o) ==
    /\ held[o] # None
    /\ Close(held[o])
    /\ held' = [held EXCEPT ![o] = None]
    /\ UNCHANGED <<slot, wrapped, fd, conn, running, pc, ctl>>

-----------------------------------------------------------------------------
RunStep(k) ==
    \/ Enter(k) \/ ClearOld(k) \/ Leave(k)
    \/ \E f \in Fds : Socket(k, f)
    \/ SocketFails(k) \/ SetServerFD(k) \/ Connect(k) \/ ConnectFails(k)
    \/ RemoveServerFD(k) \/ Wrap(k) \/ EpollFails(k)
    \/ ReadTimeout(k)

Next ==
    \/ \E k \in Clients : RunStep(k) \/ ConnectionLost(k)
    \/ \E k \in Clients : StopBegin(k) \/ StopClose(k) \/ StopJoin(k) \/ Start(k)
    \/ \E o \in Others : OtherClose(o) \/ \E f \in Fds : OtherOpen(o, f)

Spec == Init /\ [][Next]_vars

-----------------------------------------------------------------------------
Numbers == Fds \cup {None}

\* The state keeps its shape, and run() never goes on without a socket
\* (CommandClient.cpp:101).
TypeOK ==
    /\ table \in [Fds -> Clients \cup Others \cup {Free}]
    /\ slot \in [Clients -> Numbers]
    /\ wrapped \subseteq Fds
    /\ fd \in [Clients -> Numbers]
    /\ conn \in [Clients -> Numbers]
    /\ held \in [Others -> Numbers]
    /\ running \in [Clients -> BOOLEAN]
    /\ pc \in [Clients -> {"none", "top", "clear", "socket", "set", "connect", "remove",
                           "wrap", "read", "finished"}]
    /\ ctl \in [Clients -> {"up", "close", "join", "down"}]
    /\ \A k \in Clients :
           pc[k] \in {"set", "connect", "remove", "wrap"} => fd[k] # None

\* No descriptor leaks: however often it reconnects, is stopped and started,
\* a client has at most one socket open, and none once stop() has returned
\* (FDManager.h:19-32, CommandClient.cpp:69-71).
NoLeak ==
    \A k \in Clients :
        /\ \A f, g \in Fds : table[f] = k /\ table[g] = k => f = g
        /\ pc[k] \in {"socket", "finished", "none"} => \A f \in Fds : table[f] # k

\* setServerFD closes the old descriptor, not the one it is given
\* (FDManager.h:19).
NewSocketSurvives ==
    \A k \in Clients : pc[k] = "connect" => table[fd[k]] = k

=============================================================================
