----------------------------- MODULE FdManagerProofs -----------------------------
(***************************************************************************)
(* No descriptor leaks, for any set of descriptor numbers and any number   *)
(* of other threads.  That a client has at most one socket does not carry  *)
(* itself through a step: the client must also still know the socket's     *)
(* number, at every point of its loop in the place from which it will be   *)
(* closed.                                                                 *)
(***************************************************************************)
EXTENDS FdManager, TLAPS

\* While a client has a socket open it is on its way to it or has it: the
\* local variable, the slot and the connection hold its number.
Known(k, f) ==
    /\ pc[k] \in {"top", "clear", "set", "connect", "wrap", "read"}
    /\ pc[k] \in {"set", "connect", "wrap"} => fd[k] = f
    /\ pc[k] \in {"connect", "wrap", "read", "top", "clear"} => slot[k] = f
    /\ pc[k] \in {"read", "top", "clear"} => conn[k] = f /\ f \in wrapped

SocketKnown ==
    \A k \in Clients, f \in Fds : table[f] = k => Known(k, f)

\* stop() returns after the join: there is no thread to start over.
StoppedIsJoined ==
    \A k \in Clients : ctl[k] = "down" => pc[k] = "none"

IInv == TypeOK /\ SocketKnown /\ StoppedIsJoined

-----------------------------------------------------------------------------
\* The initial state satisfies the invariant.
LEMMA InitIInv == Init => IInv
<1> SUFFICES ASSUME Init PROVE IInv
  OBVIOUS
<1> USE FdsAssumption DEF Init
<1>1. TypeOK
  BY DEF TypeOK, Numbers, None
<1>2. SocketKnown
  BY DEF SocketKnown
<1>3. StoppedIsJoined
  BY DEF StoppedIsJoined
<1> QED
  BY <1>1, <1>2, <1>3 DEF IInv

\* What removeClientFD leaves: a descriptor that is still open is the one it
\* was, is still registered if it was, and is not the registered one erased.
LEMMA EraseKeeps ==
    ASSUME TypeOK, NEW c \in Numbers, Erase(c)
    PROVE  /\ table' \in [Fds -> Clients \cup Others \cup {Free}]
           /\ wrapped' \subseteq Fds
           /\ \A f \in Fds : table'[f] # Free =>
                 /\ table'[f] = table[f]
                 /\ f \in wrapped => f # c /\ f \in wrapped'
<1>1. CASE c \in wrapped
  <2>1. c # None /\ c \in Fds
    BY <1>1, FdsAssumption DEF TypeOK, None
  <2>2. table' = [table EXCEPT ![c] = Free] /\ wrapped' = wrapped \ {c}
    BY <1>1, <2>1 DEF Erase, Close
  <2> QED
    BY <2>1, <2>2 DEF TypeOK
<1>2. CASE c \notin wrapped
  <2>1. table' = table /\ wrapped' = wrapped \ {c}
    BY <1>2 DEF Erase, Close
  <2> QED
    BY <1>2, <2>1 DEF TypeOK
<1> QED
  BY <1>1, <1>2

\* Every step of a client's run() preserves the invariant.
LEMMA RunPreserves ==
    ASSUME IInv, NEW k \in Clients, RunStep(k) \/ ConnectionLost(k)
    PROVE  IInv'
<1> USE FdsAssumption
    DEF IInv, TypeOK, Numbers, None, SocketKnown, Known, StoppedIsJoined, Goto, Open, Close
<1>1. CASE Enter(k)
  BY <1>1 DEF Enter
<1>2. CASE ClearOld(k)
  <2>1. /\ table' \in [Fds -> Clients \cup Others \cup {Free}]
        /\ wrapped' \subseteq Fds
        /\ \A f \in Fds : table'[f] # Free =>
              /\ table'[f] = table[f]
              /\ f \in wrapped => f # conn[k] /\ f \in wrapped'
    <3>1. conn[k] \in Numbers /\ Erase(conn[k])
      BY <1>2 DEF ClearOld
    <3> QED
      BY <3>1, EraseKeeps
  <2>2. TypeOK'
    BY <1>2, <2>1 DEF ClearOld
  <2>3. SocketKnown'
    <3> SUFFICES ASSUME NEW j \in Clients, NEW f \in Fds, table'[f] = j
                 PROVE  Known(j, f)'
      OBVIOUS
    <3>1. table[f] = j /\ (f \in wrapped => f # conn[k] /\ f \in wrapped')
      BY <2>1
    <3>2. CASE j = k
      BY <1>2, <3>1, <3>2 DEF ClearOld
    <3>3. CASE j # k
      BY <1>2, <3>1, <3>3 DEF ClearOld
    <3> QED
      BY <3>2, <3>3
  <2>4. StoppedIsJoined'
    BY <1>2 DEF ClearOld
  <2> QED
    BY <2>2, <2>3, <2>4
<1>3. CASE Leave(k)
  BY <1>3 DEF Leave
<1>4. ASSUME NEW f \in Fds, Socket(k, f) PROVE IInv'
  BY <1>4 DEF Socket, Lowest
<1>5. CASE SocketFails(k)
  BY <1>5 DEF SocketFails
<1>6. CASE SetServerFD(k)
  BY <1>6 DEF SetServerFD
<1>7. CASE Connect(k)
  BY <1>7 DEF Connect
<1>8. CASE ConnectFails(k)
  BY <1>8 DEF ConnectFails
<1>9. CASE RemoveServerFD(k)
  BY <1>9 DEF RemoveServerFD
<1>10. CASE Wrap(k)
  <2>1. TypeOK'
    <3>1. fd[k] \in Fds
      BY <1>10 DEF Wrap
    <3>2. wrapped' \subseteq Fds
      BY <1>10, <3>1 DEF Wrap
    <3>3. conn' \in [Clients -> Numbers]
      BY <1>10, <3>1 DEF Wrap
    <3>4. pc' = [pc EXCEPT ![k] = "read"]
      BY <1>10 DEF Wrap
    <3> QED
      BY <1>10, <3>2, <3>3, <3>4 DEF Wrap
  <2>2. SocketKnown'
    <3> SUFFICES ASSUME NEW j \in Clients, NEW f \in Fds, table'[f] = j
                 PROVE  Known(j, f)'
      OBVIOUS
    <3>1. Known(j, f)
      BY <1>10 DEF Wrap
    <3>2. CASE j = k
      BY <1>10, <3>1, <3>2 DEF Wrap
    <3>3. CASE j # k
      BY <1>10, <3>1, <3>3 DEF Wrap
    <3> QED
      BY <3>2, <3>3
  <2>3. StoppedIsJoined'
    BY <1>10 DEF Wrap
  <2> QED
    BY <2>1, <2>2, <2>3
<1>11. CASE EpollFails(k)
  BY <1>11 DEF EpollFails
<1>12. CASE ReadTimeout(k)
  BY <1>12 DEF ReadTimeout
<1>13. CASE ConnectionLost(k)
  <2>1. /\ table' \in [Fds -> Clients \cup Others \cup {Free}]
        /\ wrapped' \subseteq Fds
        /\ \A f \in Fds : table'[f] # Free =>
              /\ table'[f] = table[f]
              /\ f \in wrapped => f # conn[k] /\ f \in wrapped'
    <3>1. conn[k] \in Numbers /\ Erase(conn[k])
      BY <1>13 DEF ConnectionLost
    <3> QED
      BY <3>1, EraseKeeps
  <2>2. TypeOK'
    BY <1>13, <2>1 DEF ConnectionLost
  <2>3. SocketKnown'
    <3> SUFFICES ASSUME NEW j \in Clients, NEW f \in Fds, table'[f] = j
                 PROVE  Known(j, f)'
      OBVIOUS
    <3>1. table[f] = j /\ (f \in wrapped => f # conn[k] /\ f \in wrapped')
      BY <2>1
    <3>2. CASE j = k
      BY <1>13, <3>1, <3>2 DEF ConnectionLost
    <3>3. CASE j # k
      BY <1>13, <3>1, <3>3 DEF ConnectionLost
    <3> QED
      BY <3>2, <3>3
  <2>4. StoppedIsJoined'
    BY <1>13 DEF ConnectionLost
  <2> QED
    BY <2>2, <2>3, <2>4
<1> QED
  BY <1>1, <1>2, <1>3, <1>4, <1>5, <1>6, <1>7, <1>8, <1>9, <1>10, <1>11, <1>12,
     <1>13
  DEF RunStep

\* So does every step of the controller, of another thread, and a stutter.
LEMMA OthersPreserve ==
    ASSUME IInv,
           \/ \E k \in Clients : StopBegin(k) \/ StopClose(k) \/ StopJoin(k) \/ Start(k)
           \/ \E o \in Others : OtherClose(o) \/ \E f \in Fds : OtherOpen(o, f)
           \/ UNCHANGED vars
    PROVE  IInv'
<1> USE FdsAssumption
    DEF IInv, TypeOK, Numbers, None, SocketKnown, Known, StoppedIsJoined, Open, Close
<1>1. ASSUME NEW k \in Clients, StopBegin(k) PROVE IInv'
  BY <1>1 DEF StopBegin
<1>2. ASSUME NEW k \in Clients, StopClose(k) PROVE IInv'
  <2>1. /\ table' \in [Fds -> Clients \cup Others \cup {Free}]
        /\ wrapped' \subseteq Fds
        /\ \A f \in Fds : table'[f] # Free =>
              /\ table'[f] = table[f]
              /\ f \in wrapped => f # conn[k] /\ f \in wrapped'
    <3>1. conn[k] \in Numbers /\ Erase(conn[k])
      BY <1>2 DEF StopClose
    <3> QED
      BY <3>1, EraseKeeps
  <2>2. TypeOK'
    BY <1>2, <2>1 DEF StopClose
  <2>3. SocketKnown'
    <3> SUFFICES ASSUME NEW j \in Clients, NEW f \in Fds, table'[f] = j
                 PROVE  Known(j, f)'
      OBVIOUS
    <3>1. table[f] = j /\ (f \in wrapped => f # conn[k] /\ f \in wrapped')
      BY <2>1
    <3>2. CASE j = k
      BY <1>2, <3>1, <3>2 DEF StopClose
    <3>3. CASE j # k
      BY <1>2, <3>1, <3>3 DEF StopClose
    <3> QED
      BY <3>2, <3>3
  <2>4. StoppedIsJoined'
    BY <1>2 DEF StopClose
  <2> QED
    BY <2>2, <2>3, <2>4
<1>3. ASSUME NEW k \in Clients, StopJoin(k) PROVE IInv'
  BY <1>3 DEF StopJoin
<1>4. ASSUME NEW k \in Clients, Start(k) PROVE IInv'
  BY <1>4 DEF Start
<1>5. ASSUME NEW o \in Others, OtherClose(o) PROVE IInv'
  BY <1>5 DEF OtherClose
<1>6. ASSUME NEW o \in Others, NEW f \in Fds, OtherOpen(o, f) PROVE IInv'
  BY <1>6 DEF OtherOpen, Lowest
<1>7. CASE UNCHANGED vars
  BY <1>7 DEF vars
<1> QED
  BY <1>1, <1>2, <1>3, <1>4, <1>5, <1>6, <1>7

-----------------------------------------------------------------------------
\* The invariant holds throughout every behaviour.
THEOREM Invariance == Spec => []IInv
<1>1. IInv /\ [Next]_vars => IInv'
  BY RunPreserves, OthersPreserve DEF Next
<1> QED
  BY InitIInv, <1>1, PTL DEF Spec

\* The state keeps its shape, and run() never goes on without a socket.
THEOREM TypeCorrect == Spec => []TypeOK
<1>1. IInv => TypeOK
  BY DEF IInv
<1> QED
  BY Invariance, <1>1, PTL

\* However often the links are lost, stopped and started, and whatever the
\* other threads open and close meanwhile, a client has at most one socket,
\* and none once it is stopped.
THEOREM NothingLeaks == Spec => []NoLeak
<1>1. IInv => NoLeak
  <2> SUFFICES ASSUME IInv, NEW k \in Clients
               PROVE  /\ \A f, g \in Fds : table[f] = k /\ table[g] = k => f = g
                      /\ pc[k] \in {"socket", "finished", "none"}
                         => \A f \in Fds : table[f] # k
    BY DEF NoLeak
  <2>1. ASSUME NEW f \in Fds, NEW g \in Fds, table[f] = k, table[g] = k PROVE f = g
    BY <2>1 DEF IInv, SocketKnown, Known
  <2>2. ASSUME pc[k] \in {"socket", "finished", "none"}, NEW f \in Fds
        PROVE  table[f] # k
    BY <2>2 DEF IInv, SocketKnown, Known
  <2> QED
    BY <2>1, <2>2
<1> QED
  BY Invariance, <1>1, PTL
=============================================================================
