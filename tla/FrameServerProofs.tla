--------------------------- MODULE FrameServerProofs ---------------------------
(***************************************************************************)
(* For any size of the ring, any number of attempts, any length of the     *)
(* socket buffer and any number of starts: the types, and for one          *)
(* acquiring script the ring and what reaches the file.  A frame is        *)
(* followed from the front end over the wire, the worker's datagram and    *)
(* the ring to the file; at each place those before it are in order and    *)
(* come before those behind it.                                            *)
(***************************************************************************)
EXTENDS MCFrameServer, FiniteSetTheorems, TLAPS

Data == [type : {"data"}, frame : [sync : Nat, id : 0 .. MaxFrame]]
Commands == [what : {"sync", "tag"}, sn : Nat]
Replies == [type : {"reply"}, sn : Nat, tag : Frames \ {Torn}]

\* Places of a script that has synchronised the front end and started the worker.
Started == {"tag", "min", "pointers", "flush", "first", "begin", "step0", "loop",
            "write", "release", "end"}

\* Those where it knows the frame from which it acquires, where minimumFrameID is
\* set, where the read pointer is known, and where it may have written.
Tagged == Started \ {"tag"}
Limited == Tagged \ {"min"}
Reading == Limited \ {"pointers"}
Writing == {"loop", "write", "release", "end"}

Places == {"off", "sync", "on", "ended"} \cup Started

Scripts == [pc : Places, tries : Nat, target : Frames \ {Torn},
            first : Pointers, last : Pointers, current : Int, stop : Int,
            file : Seq(Frames)]

-----------------------------------------------------------------------------
TypeInv ==
    /\ wr \in Pointers /\ rd \in Pointers
    /\ mode \in BOOLEAN /\ hasWorker \in BOOLEAN /\ die \in BOOLEAN
    /\ minimum \in Nat
    /\ slots \in [Slots -> Frames]
    /\ worker \in {"none", "recv", "slot", "copy", "push", "done"}
    /\ packet \in {NoPacket} \cup Data
    /\ slot \in Slots \cup {NoSlot}
    /\ replyQueue \in Seq(Replies)
    /\ wire \in Seq(Data \cup Replies)
    /\ commands \in Seq(Commands)
    /\ sync \in Nat /\ now \in 0 .. MaxFrame
    /\ poll \in {"idle", "joinOff", "joinOn", "sleep", "reply"}
    /\ client \in Clients \cup {Nobody}
    /\ script \in [Clients -> Scripts]
    /\ sn \in Nat /\ starts \in Nat

\* The worker has a datagram between receiving and pushing it, and a slot only
\* after it has chosen one; it is told to end before it is joined.
WorkerInv ==
    /\ hasWorker <=> worker # "none"
    /\ worker \in {"slot", "copy", "push"} <=> packet # NoPacket
    /\ slot # NoSlot => worker \in {"copy", "push"}
    /\ ~hasWorker => die
    /\ hasWorker /\ die => poll \in {"joinOff", "joinOn"}
    /\ poll \in {"joinOff", "joinOn"} => die
    /\ poll = "sleep" => ~hasWorker

\* Where the client is whose request the poll thread executes.
PollInv ==
    /\ poll = "idle" <=> client = Nobody
    /\ poll = "joinOff" => script[client].pc \in {"off", "ended"}
    /\ poll \in {"joinOn", "sleep"} =>
          client \in Acquirers /\ script[client].pc \in {"on", "ended"}
    /\ poll = "reply" =>
          client \in Acquirers /\ script[client].pc \in {"sync", "tag", "ended"}
    /\ script[Stopper].pc \in {"off", "ended"}

ServerInv == TypeInv /\ WorkerInv /\ PollInv

-----------------------------------------------------------------------------
\* The ring.

\* The frames from pointer a on to pointer b.
Ahead(a, b) == IF a <= b THEN b - a ELSE b - a + 2 * QueueSize

Held == Ahead(rd, wr)

\* The worker takes frames.
Live == hasWorker /\ ~die

\* The pointer from which on a script has not yet read.
Unread(s) == IF s.pc = "flush" THEN s.last
             ELSE IF s.pc \in {"write", "release"} THEN s.first ELSE rd

\* A script that goes for a block has frames to read.
LoopInv == \A c \in Clients : At(c, {"loop"}) => script[c].current < script[c].stop

RingInv ==
    /\ hasWorker => Held <= QueueSize
    /\ slot # NoSlot => Held < QueueSize

\* While the worker lives, the pointers a script holds are in the part of the ring
\* that is filled.
Reader(s) ==
    /\ Ahead(rd, Unread(s)) <= Held
    /\ s.pc \in {"begin", "step0", "end"} => s.first = rd
    /\ s.pc = "write" => /\ Ahead(rd, s.first) <= Ahead(rd, s.last)
                         /\ Ahead(rd, s.last) <= Held

ReaderInv == Live => \A c \in Acquirers : Reader(script[c])

\* One script that acquires: nothing in the program keeps a second one from
\* running, and no part of the reading protocol is made for two.
OneAcquirer == \A c, d \in Acquirers : c = d

-----------------------------------------------------------------------------
\* The way of a frame.

\* Frame g was built after frame f.
Later(f, g) == f.sync = g.sync /\ f.id < g.id

IsData(p) == p.type = "data"

\* Datagrams are in the order in which they were built.
WireInv ==
    /\ \A i \in DOMAIN wire : IsData(wire[i]) =>
          /\ wire[i].frame.sync <= sync
          /\ wire[i].frame.sync = sync => wire[i].frame.id < now
    /\ \A i, j \in DOMAIN wire : i < j /\ IsData(wire[i]) /\ IsData(wire[j]) =>
          /\ wire[i].frame.sync <= wire[j].frame.sync
          /\ wire[i].frame.sync = wire[j].frame.sync =>
                wire[i].frame.id < wire[j].frame.id

\* A command is the last one exactly if its serial number is the current one.
CommandInv ==
    /\ \A i \in DOMAIN commands : commands[i].sn <= sn
    /\ \A i, j \in DOMAIN commands : i < j => commands[i].sn < commands[j].sn

\* The front end has nothing more to do when a reply with the current serial
\* number is there, and what it has sent since is of its current synchronisation.
ReplyInv ==
    /\ \A i \in DOMAIN wire : wire[i].type = "reply" =>
          /\ wire[i].sn <= sn
          /\ wire[i].sn = sn =>
                /\ commands = <<>>
                /\ \A j \in DOMAIN wire :
                     j > i /\ IsData(wire[j]) => wire[j].frame.sync = sync
    /\ \A i \in DOMAIN replyQueue :
          /\ replyQueue[i].sn <= sn
          /\ replyQueue[i].sn = sn => commands = <<>>

\* While a script waits for the time tag, only a tag has the serial number.
TagInv ==
    poll = "reply" /\ script[client].pc = "tag" =>
        /\ \A i \in DOMAIN commands : commands[i].sn = sn => commands[i].what = "tag"
        /\ \A i \in DOMAIN wire :
              wire[i].type = "reply" /\ wire[i].sn = sn => wire[i].tag.sync = sync
        /\ \A i \in DOMAIN replyQueue :
              replyQueue[i].sn = sn => replyQueue[i].tag.sync = sync

\* From the reply to its synchronisation on, until another script begins, nothing
\* of an earlier synchronisation is under way.
Settled ==
    \/ \E c \in Acquirers : At(c, {"on"})
    \/ poll \in {"joinOn", "sleep"}
    \/ Live

SettledInv ==
    /\ \A c \in Acquirers : At(c, {"sync"}) => ~hasWorker
    /\ Settled =>
          /\ \A i \in DOMAIN commands : commands[i].what # "sync"
          /\ \A i \in DOMAIN wire : IsData(wire[i]) => wire[i].frame.sync = sync

\* The frame at distance k from the read pointer.
Ring(k) == slots[(rd + k) % QueueSize]

\* Frames that come before all on the wire, and before the worker's datagram too.
Sent == {f \in Frames :
           /\ f.sync = sync /\ f.id < now
           /\ \A i \in DOMAIN wire : IsData(wire[i]) => Later(f, wire[i].frame)}
Past == {f \in Sent : packet # NoPacket => Later(f, packet.frame)}

\* While the worker lives, its datagram and the ring hold frames in order.
PacketInv == Live /\ packet # NoPacket => packet.frame \in Sent

SlotInv ==
    Live /\ slot # NoSlot =>
        /\ slot = wr % QueueSize
        /\ worker = "push" => slots[slot] = packet.frame

OrderInv ==
    Live => \A k \in 0 .. Held - 1 :
        /\ Ring(k) \in Past
        /\ \A l \in 0 .. Held - 1 : k < l => Later(Ring(k), Ring(l))

\* Only a script that reads has written; a script that has started the worker and
\* was not interrupted finds it alive.
ScriptInv ==
    /\ \A c \in Clients : script[c].file # <<>> => At(c, Writing)
    /\ \A c \in Acquirers \ interrupted :
          /\ At(c, Started) => Live
          /\ At(c, Tagged) => script[c].target.sync = sync
          /\ At(c, Limited) => minimum = script[c].target.id

\* The frames of the ring that a script has read and not released.
Done(s) == Ahead(rd, Unread(s))

\* Frames that come before all that the script will still read.
Early(c) == {f \in Past : \A k \in Done(script[c]) .. Held - 1 : Later(f, Ring(k))}

\* What was written is in order and comes before what is still to be read.
FileInv ==
    \A c \in Acquirers \ interrupted :
        LET file == script[c].file IN
        \A i \in DOMAIN file :
            /\ file[i] \in Early(c)
            /\ \A j \in DOMAIN file : i < j => Later(file[i], file[j])

\* Only the first frame of all that a script has read or will read may be
\* older than the time tag.
StaleInv ==
    \A c \in Acquirers \ interrupted : At(c, Reading) =>
        LET s == script[c] IN
        /\ \A i \in DOMAIN s.file : i > 1 => s.file[i].id >= s.target.id
        /\ \A k \in Done(s) .. Held - 1 :
              s.file # <<>> \/ k > Done(s) => Ring(k).id >= s.target.id
        /\ worker = "push" /\ slot # NoSlot /\ (s.file # <<>> \/ Held > Done(s)) =>
              packet.frame.id >= s.target.id

RInv == ServerInv /\ LoopInv /\ RingInv /\ ReaderInv
NetInv == WireInv /\ CommandInv /\ ReplyInv /\ TagInv

FlowInv == PacketInv /\ SlotInv /\ OrderInv

IInv == RInv /\ NetInv /\ SettledInv /\ FlowInv /\ ScriptInv /\ FileInv /\ StaleInv

-----------------------------------------------------------------------------
\* The server.

LEMMA Sizes ==
    /\ QueueSize \in Nat \ {0, 1}
    /\ Nobody \notin Clients
    /\ Pointers = 0 .. 2 * QueueSize - 1
    /\ Slots = 0 .. QueueSize - 1
    /\ MaxFrame \in Nat /\ MaxLag \in Nat
BY FrameAssumption DEF Pointers, Slots, Nobody, Clients

LEMMA FrameTypes ==
    /\ Zero \in Frames \ {Torn}
    /\ Torn \in Frames
    /\ \A s \in Nat, i \in 0 .. MaxFrame + MaxLag : Frame(s, i) \in Frames \ {Torn}
    /\ \A p \in Data : p.frame \in Frames \ {Torn} /\ p # NoPacket /\ IsData(p)
BY Sizes DEF Frames, Frame, Zero, Torn, Data, NoPacket, IsData

LEMMA PlaceNames ==
    Places = {"off", "sync", "on", "ended", "tag", "min", "pointers", "flush", "first",
              "begin", "step0", "loop", "write", "release", "end"}
BY DEF Places, Started

LEMMA ScriptTypes ==
    NewScript \in Scripts /\ EndedScript \in Scripts
<1>1. NewScript \in Scripts
  <2>1. <<>> \in Seq(Frames) /\ Zero \in Frames \ {Torn}
    BY FrameTypes
  <2>2. 0 \in Pointers /\ 0 \in Nat /\ 0 \in Int /\ "off" \in Places
    BY Sizes, PlaceNames
  <2> QED BY <2>1, <2>2 DEF NewScript, Scripts
<1>2. EndedScript \in Scripts
    BY <1>1, PlaceNames DEF EndedScript, Scripts
<1> QED BY <1>1, <1>2

LEMMA HeadTail ==
    ASSUME NEW S, NEW q \in Seq(S), q # <<>>
    PROVE  /\ Len(q) \in Nat \ {0}
           /\ Head(q) = q[1] /\ q[1] \in S
           /\ Tail(q) \in Seq(S)
           /\ Len(Tail(q)) = Len(q) - 1
           /\ \A i \in DOMAIN Tail(q) : i + 1 \in DOMAIN q /\ Tail(q)[i] = q[i + 1]
OBVIOUS

LEMMA AppendFacts ==
    ASSUME NEW S, NEW q \in Seq(S), NEW x \in S
    PROVE  /\ Append(q, x) \in Seq(S)
           /\ Len(Append(q, x)) = Len(q) + 1
           /\ Append(q, x)[Len(q) + 1] = x
           /\ \A i \in DOMAIN q : i \in DOMAIN Append(q, x) /\ Append(q, x)[i] = q[i]
           /\ \A i \in DOMAIN Append(q, x) : i \in DOMAIN q \/ i = Len(q) + 1
OBVIOUS

\* The initial state.
LEMMA InitServer == Init => ServerInv
<1> SUFFICES ASSUME Init
             PROVE  ServerInv
    OBVIOUS
<1>1. TypeInv
  <2>1. /\ slots = [i \in Slots |-> Zero] /\ Zero \in Frames
        /\ script = [c \in Clients |-> EndedScript] /\ EndedScript \in Scripts
    BY FrameTypes, ScriptTypes DEF Init
  <2>2. /\ slots \in [Slots -> Frames]
        /\ script \in [Clients -> Scripts]
    BY <2>1
  <2>3. /\ wr \in Pointers /\ rd \in Pointers
        /\ replyQueue \in Seq(Replies) /\ wire \in Seq(Data \cup Replies)
        /\ commands \in Seq(Commands)
        /\ now \in 0 .. MaxFrame
    BY Sizes DEF Init
  <2> QED BY <2>2, <2>3 DEF Init, TypeInv
<1>2. WorkerInv
    BY DEF Init, WorkerInv
<1>3. PollInv
    BY DEF Init, PollInv, Clients, EndedScript, NewScript
<1> QED BY <1>1, <1>2, <1>3 DEF ServerInv

\* The front end fills the socket only.
LEMMA FrontEndServer == ServerInv /\ FrontEnd => ServerInv'
<1> SUFFICES ASSUME ServerInv, FrontEnd
             PROVE  ServerInv'
    OBVIOUS
<1>1. ASSUME NEW p \in Data \cup Replies, Arrive(p)
      PROVE  wire' \in Seq(Data \cup Replies)
    BY <1>1 DEF Arrive, ServerInv, TypeInv
<1>2. /\ UNCHANGED <<ringVars, modeVars, workerVars, replyQueue, pollVars, scriptVars>>
      /\ wire' \in Seq(Data \cup Replies)
      /\ commands' \in Seq(Commands)
      /\ sync' \in Nat /\ now' \in 0 .. MaxFrame
  <2>1. CASE FrameSent
    <3>1. [type |-> "data", frame |-> Frame(sync, now)] \in Data
        BY <2>1, Sizes DEF FrameSent, Data, Frame, ServerInv, TypeInv
    <3> QED BY <2>1, <3>1, <1>1, Sizes DEF FrameSent, ServerInv, TypeInv, clockVars
  <2>2. CASE CommandArrives
    <3>1. /\ commands # <<>> /\ commands' = Tail(commands)
          /\ Head(commands) \in Commands
          /\ commands' \in Seq(Commands)
      <4>1. commands \in Seq(Commands)
        BY DEF ServerInv, TypeInv
      <4>2. commands # <<>> /\ commands' = Tail(commands)
        BY <2>2 DEF CommandArrives
      <4> QED BY <4>1, <4>2, HeadTail
    <3>2. ASSUME NEW f \in Frames \ {Torn}
          PROVE  [type |-> "reply", sn |-> Head(commands).sn, tag |-> f] \in Replies
        BY <3>1 DEF Commands, Replies
    <3>3. ASSUME NEW lag \in 0 .. MaxLag
          PROVE  Frame(sync, now + lag) \in Frames \ {Torn}
      <4>1. sync \in Nat /\ now \in 0 .. MaxFrame
        BY DEF ServerInv, TypeInv
      <4>2. now + lag \in 0 .. MaxFrame + MaxLag
        BY <4>1, Sizes
      <4> QED BY <4>1, <4>2, FrameTypes
    <3>4. CASE /\ sync' = sync + 1 /\ now' = 0
               /\ Arrive([type |-> "reply", sn |-> Head(commands).sn, tag |-> Zero])
      <4>1. wire' \in Seq(Data \cup Replies)
        BY <3>2, <3>4, <1>1, FrameTypes
      <4>2. sync' \in Nat /\ now' \in 0 .. MaxFrame
        BY <3>4, Sizes DEF ServerInv, TypeInv
      <4>3. UNCHANGED <<ringVars, modeVars, workerVars, replyQueue, pollVars, scriptVars>>
        BY <2>2 DEF CommandArrives
      <4> QED BY <3>1, <4>1, <4>2, <4>3
    <3>5. ASSUME NEW lag \in 0 .. MaxLag, UNCHANGED clockVars,
                 Arrive([type |-> "reply", sn |-> Head(commands).sn,
                         tag |-> Frame(sync, now + lag)])
          PROVE  /\ wire' \in Seq(Data \cup Replies)
                 /\ sync' \in Nat /\ now' \in 0 .. MaxFrame
        BY <3>2, <3>3, <3>5, <1>1 DEF ServerInv, TypeInv, clockVars
    <3> QED BY <2>2, <3>1, <3>4, <3>5 DEF CommandArrives
  <2> QED BY <2>1, <2>2 DEF FrontEnd
<1>3. TypeInv'
    BY <1>2 DEF ServerInv, TypeInv, ringVars, modeVars, workerVars, pollVars, scriptVars
<1>4. WorkerInv' /\ PollInv'
    BY <1>2 DEF ServerInv, WorkerInv, PollInv, ringVars, modeVars, workerVars, pollVars,
       scriptVars
<1> QED BY <1>3, <1>4 DEF ServerInv

\* The worker leaves the requests and the scripts alone.
LEMMA WorkerServer == ServerInv /\ Worker => ServerInv'
<1> SUFFICES ASSUME ServerInv, Worker
             PROVE  ServerInv'
    OBVIOUS
<1>1. /\ UNCHANGED <<rd, modeVars, commands, clockVars, pollVars, scriptVars>>
      /\ hasWorker
      /\ worker' # "none"
    BY DEF Worker, WorkerEnds, WorkerReply, WorkerData, WorkerSlot, WorkerCopy,
           WorkerPush, ServerInv, WorkerInv, ringVars, modeVars, workerVars, netVars
<1>2. /\ wr' \in Pointers
      /\ slots' \in [Slots -> Frames]
      /\ worker' \in {"recv", "slot", "copy", "push", "done"}
      /\ packet' \in {NoPacket} \cup Data
      /\ slot' \in Slots \cup {NoSlot}
      /\ replyQueue' \in Seq(Replies)
      /\ wire' \in Seq(Data \cup Replies)
      /\ worker' \in {"slot", "copy", "push"} <=> packet' # NoPacket
      /\ slot' # NoSlot => worker' \in {"copy", "push"}
  <2>1. CASE WorkerEnds
    BY <2>1 DEF WorkerEnds, ServerInv, TypeInv, WorkerInv, ringVars, netVars
  <2>2. CASE WorkerReply
    <3>1. Head(wire) \in Replies /\ wire' \in Seq(Data \cup Replies)
        BY <2>2 DEF WorkerReply, ServerInv, TypeInv, Data
    <3> QED BY <2>2, <3>1 DEF WorkerReply, ServerInv, TypeInv, WorkerInv, ringVars, workerVars
  <2>3. CASE WorkerData
    <3>1. Head(wire) \in Data /\ wire' \in Seq(Data \cup Replies)
        BY <2>3 DEF WorkerData, ServerInv, TypeInv, Replies
    <3> QED BY <2>3, <3>1, FrameTypes DEF WorkerData, ServerInv, TypeInv, WorkerInv, ringVars
  <2>4. CASE WorkerSlot
    <3>1. slot' \in Slots \cup {NoSlot}
        BY <2>4, Sizes DEF WorkerSlot, ServerInv, TypeInv
    <3>2. slots' \in [Slots -> Frames]
        BY <2>4, FrameTypes DEF WorkerSlot, ServerInv, TypeInv
    <3> QED BY <2>4, <3>1, <3>2 DEF WorkerSlot, ServerInv, TypeInv, WorkerInv, netVars
  <2>5. CASE WorkerCopy
    <3>1. packet \in Data
        BY <2>5 DEF WorkerCopy, ServerInv, TypeInv, WorkerInv
    <3>2. slots' \in [Slots -> Frames]
        BY <2>5, <3>1, FrameTypes DEF WorkerCopy, ServerInv, TypeInv
    <3>3. worker' \in {"recv", "push"}
        BY <2>5 DEF WorkerCopy
    <3> QED BY <2>5, <3>1, <3>2, <3>3
            DEF WorkerCopy, ServerInv, TypeInv, WorkerInv, netVars
  <2>6. CASE WorkerPush
    <3>1. wr' \in Pointers
        BY <2>6, Sizes DEF WorkerPush, ServerInv, TypeInv
    <3> QED BY <2>6, <3>1 DEF WorkerPush, ServerInv, TypeInv, WorkerInv, netVars
  <2> QED BY <2>1, <2>2, <2>3, <2>4, <2>5, <2>6 DEF Worker
<1>3. TypeInv'
    BY <1>1, <1>2 DEF ServerInv, TypeInv, modeVars, clockVars, pollVars, scriptVars
<1>4. WorkerInv' /\ PollInv'
    BY <1>1, <1>2 DEF ServerInv, WorkerInv, PollInv, modeVars, pollVars, scriptVars
<1> QED BY <1>3, <1>4 DEF ServerInv

\* Every script's record stays one when places, pointers and counters change.
LEMMA ScriptUpdate ==
    ASSUME ServerInv, NEW c \in Clients, NEW s \in Scripts
    PROVE  /\ [script EXCEPT ![c] = s] \in [Clients -> Scripts]
           /\ [script EXCEPT ![c] = s][c] = s
           /\ \A d \in Clients \ {c} : [script EXCEPT ![c] = s][d] = script[d]
BY DEF ServerInv, TypeInv

\* The script of client c becomes s, or stays ended.
Moved(c, s) ==
    /\ script' \in [Clients -> Scripts]
    /\ \A d \in Clients \ {c} : script'[d] = script[d]
    /\ script'[c] = s

LEMMA ContinueEffect ==
    ASSUME ServerInv, NEW c \in Clients, NEW s \in Scripts, Continue(c, s)
    PROVE  \/ At(c, {"ended"}) /\ script' = script
           \/ ~At(c, {"ended"}) /\ Moved(c, s)
BY ScriptUpdate DEF Continue, Moved, At, ServerInv, TypeInv

\* A client is there whose request is executed, and its answer makes a script of it
\* that is in its next place.
LEMMA ClientThere ==
    ASSUME ServerInv, poll # "idle"
    PROVE  /\ client \in Clients
           /\ script[client] \in Scripts
           /\ poll # "joinOff" => client \in Acquirers /\ client # Stopper
BY FrameAssumption DEF ServerInv, TypeInv, PollInv, Clients

LEMMA ScriptFields ==
    ASSUME NEW s \in Scripts
    PROVE  /\ \A p \in Places : [s EXCEPT !.pc = p] \in Scripts
           /\ \A p \in Places, f \in Frames \ {Torn} :
                [s EXCEPT !.pc = p, !.target = f, !.tries = 0] \in Scripts
           /\ s.pc \in Places /\ s.tries \in Nat /\ s.target \in Frames \ {Torn}
           /\ s.first \in Pointers /\ s.last \in Pointers
           /\ s.current \in Int /\ s.stop \in Int /\ s.file \in Seq(Frames)
BY DEF Scripts

LEMMA AcceptEffect ==
    ASSUME ServerInv, poll = "reply", NEW p \in Data \cup Replies, Accept(p)
    PROVE  \/ /\ Expected(p) /\ p \in Replies
              /\ Answered
              /\ \/ At(client, {"ended"}) /\ script' = script
                 \/ /\ At(client, {"sync"})
                    /\ Moved(client, [script[client] EXCEPT !.pc = "on",
                                        !.target = p.tag, !.tries = 0])
                 \/ /\ At(client, {"tag"})
                    /\ Moved(client, [script[client] EXCEPT !.pc = "min",
                                        !.target = p.tag, !.tries = 0])
           \/ ~Expected(p) /\ UNCHANGED <<pollVars, script>>
<1>1. CASE ~Expected(p) /\ UNCHANGED <<pollVars, script>>
    BY <1>1
<1>2. CASE /\ Expected(p)
           /\ Answered
           /\ Continue(client, [script[client] EXCEPT
                                  !.pc = IF @ = "sync" THEN "on" ELSE "min",
                                  !.target = p.tag,
                                  !.tries = 0])
  <2>1. p \in Replies /\ p.tag \in Frames \ {Torn}
    BY <1>2 DEF Expected, Data, Replies
  <2>2. client \in Clients /\ script[client] \in Scripts
    BY ClientThere
  <2>3. At(client, {"sync", "tag", "ended"})
    BY DEF ServerInv, PollInv, At
  <2> DEFINE s(q) == [script[client] EXCEPT !.pc = q, !.target = p.tag, !.tries = 0]
  <2>4. s("on") \in Scripts /\ s("min") \in Scripts
    BY <2>1, <2>2, ScriptFields, PlaceNames
  <2>5. CASE At(client, {"sync"})
    <3>1. Continue(client, s("on"))
        BY <1>2, <2>5, <2>2 DEF At, Scripts
    <3>2. ~At(client, {"ended"})
        BY <2>5 DEF At
    <3> QED BY <1>2, <2>1, <2>2, <2>4, <2>5, <3>1, <3>2, ContinueEffect
  <2>6. CASE At(client, {"tag"})
    <3>1. Continue(client, s("min"))
        BY <1>2, <2>6, <2>2 DEF At, Scripts
    <3>2. ~At(client, {"ended"})
        BY <2>6 DEF At
    <3> QED BY <1>2, <2>1, <2>2, <2>4, <2>6, <3>1, <3>2, ContinueEffect
  <2>7. CASE At(client, {"ended"})
    BY <1>2, <2>1, <2>7 DEF Continue
  <2> QED BY <2>3, <2>5, <2>6, <2>7 DEF At
<1> QED BY <1>1, <1>2 DEF Accept

LEMMA JoinEffect ==
    ASSUME ServerInv, Join
    PROVE  /\ UNCHANGED <<ringVars, mode, minimum, die, packet, slot, netVars, clockVars,
                          sn, starts>>
           /\ hasWorker => worker = "done"
           /\ hasWorker' = FALSE /\ worker' = "none"
           /\ die
           /\ \/ poll = "joinOn" /\ poll' = "sleep" /\ UNCHANGED <<client, script>>
              \/ /\ poll = "joinOff" /\ Answered
                 /\ \/ At(client, {"ended"}) /\ script' = script
                    \/ /\ client = Stopper
                       /\ Moved(client, EndedScript)
                    \/ /\ client \in Acquirers /\ At(client, {"off"})
                       /\ Moved(client, [script[client] EXCEPT !.pc = "sync"])
<1>1. poll # "idle" /\ die /\ (poll = "joinOff" => At(client, {"off", "ended"}))
    BY DEF Join, ServerInv, WorkerInv, PollInv, At
<1>2. client \in Clients /\ script[client] \in Scripts
    BY <1>1, ClientThere
<1>3. [script[client] EXCEPT !.pc = "sync"] \in Scripts
    BY <1>2, ScriptFields, PlaceNames
<1>4. ASSUME poll = "joinOff",
             Continue(client, IF client = Stopper THEN EndedScript
                              ELSE [script[client] EXCEPT !.pc = "sync"])
      PROVE  \/ At(client, {"ended"}) /\ script' = script
             \/ client = Stopper /\ Moved(client, EndedScript)
             \/ /\ client \in Acquirers /\ At(client, {"off"})
                /\ Moved(client, [script[client] EXCEPT !.pc = "sync"])
  <2>1. CASE client = Stopper
    <3>1. Continue(client, EndedScript)
        BY <1>4, <2>1
    <3> QED BY <2>1, <3>1, <1>2, ScriptTypes, ContinueEffect
  <2>2. CASE client # Stopper
    <3>1. Continue(client, [script[client] EXCEPT !.pc = "sync"])
        BY <1>4, <2>2
    <3>2. client \in Acquirers
        BY <1>2, <2>2 DEF Clients
    <3> QED BY <1>1, <1>4, <3>1, <3>2, <1>2, <1>3, ContinueEffect DEF At
  <2> QED BY <2>1, <2>2
<1> QED BY <1>1, <1>4 DEF Join

LEMMA RestartEffect ==
    ASSUME ServerInv, Restart
    PROVE  /\ UNCHANGED <<slots, packet, slot, netVars, clockVars, sn, starts>>
           /\ ~hasWorker /\ hasWorker' = TRUE /\ die' = FALSE /\ worker' = "recv"
           /\ ResetPointers /\ mode' = TRUE /\ minimum' = 0
           /\ client \in Acquirers
           /\ Answered
           /\ \/ At(client, {"ended"}) /\ script' = script
              \/ /\ At(client, {"on"})
                 /\ Moved(client, [script[client] EXCEPT !.pc = "tag"])
<1>1. /\ poll = "sleep" /\ ~hasWorker
      /\ client \in Acquirers /\ At(client, {"on", "ended"})
    BY DEF Restart, ServerInv, WorkerInv, PollInv, At
<1>2. client \in Clients /\ script[client] \in Scripts
    BY <1>1, ClientThere
<1>3. [script[client] EXCEPT !.pc = "tag"] \in Scripts
    BY <1>2, ScriptFields, PlaceNames
<1>4. Continue(client, [script[client] EXCEPT !.pc = "tag"])
    BY DEF Restart
<1>5. \/ At(client, {"ended"}) /\ script' = script
      \/ /\ At(client, {"on"})
         /\ Moved(client, [script[client] EXCEPT !.pc = "tag"])
    BY <1>1, <1>2, <1>3, <1>4, ContinueEffect DEF At
<1> QED BY <1>1, <1>5 DEF Restart

LEMMA TimeoutEffect ==
    ASSUME ServerInv, CommandTimeout
    PROVE  /\ UNCHANGED <<ringVars, modeVars, workerVars, netVars, clockVars, sn, starts>>
           /\ poll = "reply" /\ client \in Acquirers
           /\ Answered
           /\ \/ script' = script
              \/ Moved(client, EndedScript)
<1>1. client \in Clients /\ client \in Acquirers /\ script[client] \in Scripts
    BY ClientThere DEF CommandTimeout
<1>2. Continue(client, IF script[client].tries < MaxTries THEN script[client]
                       ELSE EndedScript)
    BY DEF CommandTimeout
<1>3. script' = script \/ Moved(client, EndedScript)
  <2>1. CASE script[client].tries < MaxTries
    <3>1. script' = script
        BY <1>1, <1>2, <2>1 DEF Continue, ServerInv, TypeInv
    <3> QED BY <3>1
  <2>2. CASE ~(script[client].tries < MaxTries)
    BY <1>1, <1>2, <2>2, ScriptTypes, ContinueEffect
  <2> QED BY <2>1, <2>2
<1> QED BY <1>1, <1>3 DEF CommandTimeout

\* What the poll thread does keeps the types.
LEMMA PollServer == ServerInv /\ Poll => ServerInv'
<1> SUFFICES ASSUME ServerInv, Poll
             PROVE  ServerInv'
    OBVIOUS
<1>1. CASE Join
  <2>1. script' \in [Clients -> Scripts] /\ script'[Stopper].pc \in {"off", "ended"}
    BY <1>1, JoinEffect, FrameAssumption
       DEF Moved, EndedScript, NewScript, Clients, ServerInv, TypeInv, PollInv
  <2>2. TypeInv'
    BY <1>1, <2>1, JoinEffect DEF ServerInv, TypeInv, ringVars, netVars, clockVars, Answered
  <2>3. WorkerInv'
    BY <1>1, JoinEffect DEF ServerInv, WorkerInv, ringVars, netVars, Answered
  <2>4. PollInv'
    BY <1>1, <2>1, JoinEffect DEF ServerInv, PollInv, Answered
  <2> QED BY <2>2, <2>3, <2>4 DEF ServerInv
<1>2. CASE Restart
  <2>1. script' \in [Clients -> Scripts] /\ script'[Stopper].pc \in {"off", "ended"}
    BY <1>2, RestartEffect, FrameAssumption
       DEF Moved, Clients, ServerInv, TypeInv, PollInv
  <2>2. TypeInv'
    <3>1. wr' \in Pointers /\ rd' \in Pointers
        BY <1>2, RestartEffect, Sizes DEF ResetPointers
    <3>2. /\ UNCHANGED <<slots, packet, slot, netVars, clockVars, sn, starts>>
          /\ hasWorker' = TRUE /\ die' = FALSE /\ worker' = "recv"
          /\ mode' = TRUE /\ minimum' = 0
          /\ poll' = "idle" /\ client' = Nobody
        BY <1>2, RestartEffect DEF Answered
    <3> QED BY <2>1, <3>1, <3>2 DEF ServerInv, TypeInv, netVars, clockVars
  <2>3. WorkerInv'
    BY <1>2, RestartEffect DEF ServerInv, WorkerInv, Answered
  <2>4. PollInv'
    BY <1>2, <2>1, RestartEffect DEF ServerInv, PollInv, Answered
  <2> QED BY <2>2, <2>3, <2>4 DEF ServerInv
<1>3. CASE TakeReply \/ ReceiveReply
  <2>1. PICK p \in Data \cup Replies : Accept(p)
    <3>1. CASE TakeReply
        BY <3>1, HeadTail DEF TakeReply, ServerInv, TypeInv
    <3>2. CASE ReceiveReply
        BY <3>2, HeadTail DEF ReceiveReply, ServerInv, TypeInv
    <3> QED BY <1>3, <3>1, <3>2
  <2>2. /\ UNCHANGED <<ringVars, modeVars, workerVars, commands, clockVars, sn, starts>>
        /\ poll = "reply"
        /\ wire' \in Seq(Data \cup Replies) /\ replyQueue' \in Seq(Replies)
    <3>1. CASE TakeReply
        BY <3>1, HeadTail DEF TakeReply, ServerInv, TypeInv
    <3>2. CASE ReceiveReply
        BY <3>2, HeadTail DEF ReceiveReply, ServerInv, TypeInv
    <3> QED BY <1>3, <3>1, <3>2
  <2>3. client \in Clients /\ client # Stopper
    BY <2>2, ClientThere
  <2>4. /\ script' \in [Clients -> Scripts] /\ script'[Stopper].pc \in {"off", "ended"}
        /\ Answered \/ UNCHANGED <<poll, client>>
        /\ ~Answered => script' = script
    BY <2>1, <2>2, <2>3, AcceptEffect
       DEF Moved, Clients, ServerInv, TypeInv, PollInv, pollVars
  <2>5. TypeInv'
    BY <2>2, <2>4 DEF ServerInv, TypeInv, ringVars, modeVars, workerVars, clockVars, Answered
  <2>6. WorkerInv'
    BY <2>2, <2>4 DEF ServerInv, WorkerInv, ringVars, modeVars, workerVars, Answered
  <2>7. PollInv'
    BY <2>2, <2>4 DEF ServerInv, PollInv, Answered
  <2> QED BY <2>5, <2>6, <2>7 DEF ServerInv
<1>4. CASE CommandTimeout
  <2>1. script' \in [Clients -> Scripts] /\ script'[Stopper].pc \in {"off", "ended"}
    BY <1>4, TimeoutEffect, FrameAssumption
       DEF Moved, Clients, ServerInv, TypeInv, PollInv
  <2>2. TypeInv'
    BY <1>4, <2>1, TimeoutEffect
       DEF ServerInv, TypeInv, ringVars, modeVars, workerVars, netVars, clockVars, Answered
  <2>3. WorkerInv'
    BY <1>4, TimeoutEffect DEF ServerInv, WorkerInv, modeVars, workerVars, Answered
  <2>4. PollInv'
    BY <1>4, <2>1, TimeoutEffect DEF ServerInv, PollInv, Answered
  <2> QED BY <2>2, <2>3, <2>4 DEF ServerInv
<1> QED BY <1>1, <1>2, <1>3, <1>4 DEF Poll

FrameIDs == 0 .. MaxFrame + MaxLag

LEMMA FrameIDTypes ==
    ASSUME ServerInv, NEW i \in Slots
    PROVE  getFrameID(i) \subseteq FrameIDs
BY Sizes DEF getFrameID, ServerInv, TypeInv, Frames, FrameIDs

LEMMA PointerTypes ==
    /\ \A i \in Nat : i % (2 * QueueSize) \in Pointers
    /\ \A i \in Nat : i % QueueSize \in Slots
    /\ \A i \in Pointers : (i + QueueSize - 1) % QueueSize \in Slots
    /\ Pointers \subseteq Nat
BY Sizes

LEMMA LeastOfThree ==
    ASSUME NEW x \in Int, NEW y \in Int, NEW z \in Int
    PROVE  /\ Least({x, y, z}) \in {x, y, z}
           /\ Least({x, y, z}) <= x /\ Least({x, y, z}) <= y /\ Least({x, y, z}) <= z
<1>1. \E m \in {x, y, z} : \A n \in {x, y, z} : m <= n
    OBVIOUS
<1> QED BY <1>1 DEF Least

LEMMA BlockType ==
    ASSUME ServerInv, NEW s \in Scripts
    PROVE  nFramesInBlock(s) \in Int
<1> DEFINE d == IF wr > rd THEN wr - rd ELSE rd - wr
           n == IF d > QueueSize THEN 2 * QueueSize - d ELSE d
           m == s.stop - s.current
           h == QueueSize \div 2
<1>1. nFramesInBlock(s) = Least({n, m, h})
    BY DEF nFramesInBlock
<1>2. wr \in Int /\ rd \in Int
    BY PointerTypes DEF ServerInv, TypeInv
<1>3. m \in Int
  <2>1. s.stop \in Int /\ s.current \in Int
    BY ScriptFields
  <2> QED BY <2>1
<1>4. n \in Int /\ h \in Int
    BY <1>2, Sizes
<1> HIDE DEF n, m, h
<1>5. Least({n, m, h}) \in {n, m, h}
    BY <1>3, <1>4, LeastOfThree
<1> QED BY <1>1, <1>3, <1>4, <1>5

\* The next block is a part of the ring's frames, and not an empty one.
LEMMA BlockSize ==
    ASSUME ServerInv, wr # rd, NEW s \in Scripts, s.current < s.stop
    PROVE  /\ nFramesInBlock(s) \in Nat \ {0}
           /\ nFramesInBlock(s) <= QueueSize
           /\ Held <= QueueSize => nFramesInBlock(s) <= Held
<1> DEFINE d == IF wr > rd THEN wr - rd ELSE rd - wr
           n == IF d > QueueSize THEN 2 * QueueSize - d ELSE d
<1>1. wr \in Pointers /\ rd \in Pointers /\ s.stop - s.current \in Nat \ {0}
  <2>1. s.stop \in Int /\ s.current \in Int
    BY ScriptFields
  <2> QED BY <2>1 DEF ServerInv, TypeInv
<1>2. n \in Nat \ {0} /\ n <= QueueSize /\ (Held <= QueueSize => n <= Held)
    BY <1>1, Sizes DEF Held, Ahead
<1>3. QueueSize \div 2 \in Nat \ {0}
    BY Sizes
<1> DEFINE m == s.stop - s.current
           h == QueueSize \div 2
<1>4. nFramesInBlock(s) = Least({n, m, h})
    BY DEF nFramesInBlock
<1>5. n \in Nat \ {0} /\ m \in Nat \ {0} /\ h \in Nat \ {0}
    BY <1>1, <1>2, <1>3
<1> HIDE DEF n, m, h
<1>6. n \in Int /\ m \in Int /\ h \in Int
    BY <1>5
<1>7. Least({n, m, h}) \in {n, m, h} /\ Least({n, m, h}) <= n
    BY <1>6, LeastOfThree
<1>8. nFramesInBlock(s) \in Nat \ {0} /\ nFramesInBlock(s) <= n
    BY <1>4, <1>5, <1>7
<1> QED BY <1>2, <1>5, <1>8, Sizes DEF Held, Ahead, ServerInv, TypeInv

\* A script that goes on changes its record only.
LEMMA GoesEffect ==
    ASSUME ServerInv, NEW c \in Acquirers
    PROVE  LET s == script[c] IN
           /\ AcquisitionStopped(c) \/ Kill(c) => Moved(c, EndedScript)
           /\ Synchronize(c) => Moved(c, [s EXCEPT !.pc = "flush", !.last = wr])
           /\ FirstFrame(c) => Moved(c, [s EXCEPT !.pc = "begin", !.first = rd])
           /\ BeginStep(c) => \E id \in FrameIDs :
                Moved(c, [s EXCEPT !.pc = "step0", !.current = id, !.stop = id + Required])
           /\ NextBlock(c) =>
                Moved(c, [s EXCEPT !.pc = "write", !.first = rd,
                            !.last = (rd + nFramesInBlock(s)) % (2 * QueueSize)])
           /\ WriteFrame(c) =>
                Moved(c, [s EXCEPT !.file = Append(@, slots[s.first % QueueSize]),
                            !.first = (@ + 1) % (2 * QueueSize)])
           /\ ReadCurrent(c) => \E id \in FrameIDs :
                Moved(c, [s EXCEPT !.pc = "release", !.current = id])
           /\ SetMinimumFrameID(c) => Moved(c, [s EXCEPT !.pc = "pointers"])
           /\ SendCommand(c) => Moved(c, [s EXCEPT !.tries = @ + 1])
           /\ SetReadPointer(c) =>
                Moved(c, IF s.pc = "end" THEN EndedScript
                         ELSE [s EXCEPT !.pc = IF s.pc = "flush" THEN "first"
                                               ELSE IF s.current < s.stop THEN "loop"
                                               ELSE "end"])
<1> DEFINE s == script[c]
<1>1. c \in Clients /\ s \in Scripts /\ script \in [Clients -> Scripts]
    BY DEF Clients, ServerInv, TypeInv
<1>2. /\ wr \in Pointers /\ rd \in Pointers
      /\ slots \in [Slots -> Frames]
    BY DEF ServerInv, TypeInv
<1>3. ASSUME NEW g \in Scripts, script' = [script EXCEPT ![c] = g]
      PROVE  Moved(c, g)
    BY <1>1, <1>3 DEF Moved
<1>4. /\ s.first \in Pointers /\ s.first \in Nat /\ s.file \in Seq(Frames)
      /\ s.tries \in Nat /\ s.current \in Int /\ s.stop \in Int
    BY <1>1, ScriptFields, PointerTypes
<1>5. AcquisitionStopped(c) \/ Kill(c) => Moved(c, EndedScript)
    BY <1>3, ScriptTypes DEF AcquisitionStopped, Kill
<1>6. Synchronize(c) => Moved(c, [s EXCEPT !.pc = "flush", !.last = wr])
  <2>1. [s EXCEPT !.pc = "flush", !.last = wr] \in Scripts
    BY <1>1, <1>2, PlaceNames DEF Scripts
  <2> QED BY <1>1, <1>3, <2>1 DEF Synchronize
<1>7. FirstFrame(c) => Moved(c, [s EXCEPT !.pc = "begin", !.first = rd])
  <2>1. [s EXCEPT !.pc = "begin", !.first = rd] \in Scripts
    BY <1>1, <1>2, PlaceNames DEF Scripts
  <2> QED BY <1>1, <1>3, <2>1 DEF FirstFrame
<1>8. BeginStep(c) => \E id \in FrameIDs :
        Moved(c, [s EXCEPT !.pc = "step0", !.current = id, !.stop = id + Required])
  <2> SUFFICES ASSUME BeginStep(c)
               PROVE  \E id \in FrameIDs :
                 Moved(c, [s EXCEPT !.pc = "step0", !.current = id, !.stop = id + Required])
    OBVIOUS
  <2>1. s.first % QueueSize \in Slots
    BY <1>4, PointerTypes
  <2>2. PICK id \in getFrameID(s.first % QueueSize) :
          script' = [script EXCEPT ![c] =
                       [s EXCEPT !.pc = "step0", !.current = id, !.stop = id + Required]]
    BY <1>1 DEF BeginStep
  <2>3. id \in FrameIDs /\ id \in Int /\ id + Required \in Int
    BY <2>1, FrameIDTypes, FrameAssumption, Sizes DEF FrameIDs
  <2>4. [s EXCEPT !.pc = "step0", !.current = id, !.stop = id + Required] \in Scripts
    BY <1>1, <2>3, PlaceNames DEF Scripts
  <2> QED BY <1>3, <2>2, <2>3, <2>4
<1>9. NextBlock(c) =>
        Moved(c, [s EXCEPT !.pc = "write", !.first = rd,
                    !.last = (rd + nFramesInBlock(s)) % (2 * QueueSize)])
  <2> SUFFICES ASSUME NextBlock(c)
               PROVE  Moved(c, [s EXCEPT !.pc = "write", !.first = rd,
                                  !.last = (rd + nFramesInBlock(s)) % (2 * QueueSize)])
    OBVIOUS
  <2>1. nFramesInBlock(s) \in Int
    BY <1>1, BlockType
  <2>2. rd \in Int
    BY <1>2, PointerTypes
  <2>3. (rd + nFramesInBlock(s)) % (2 * QueueSize) \in Pointers
    BY <2>1, <2>2, Sizes
  <2>4. [s EXCEPT !.pc = "write", !.first = rd,
           !.last = (rd + nFramesInBlock(s)) % (2 * QueueSize)] \in Scripts
    BY <1>1, <1>2, <2>3, PlaceNames DEF Scripts
  <2> QED BY <1>1, <1>3, <2>4 DEF NextBlock
<1>10. WriteFrame(c) =>
        Moved(c, [s EXCEPT !.file = Append(@, slots[s.first % QueueSize]),
                    !.first = (@ + 1) % (2 * QueueSize)])
  <2>1. slots[s.first % QueueSize] \in Frames /\ (s.first + 1) % (2 * QueueSize) \in Pointers
    BY <1>2, <1>4, PointerTypes
  <2>2. Append(s.file, slots[s.first % QueueSize]) \in Seq(Frames)
    BY <1>4, <2>1, AppendFacts
  <2>3. [s EXCEPT !.file = Append(@, slots[s.first % QueueSize]),
            !.first = (@ + 1) % (2 * QueueSize)] \in Scripts
    BY <1>1, <2>1, <2>2 DEF Scripts
  <2> QED BY <1>1, <1>3, <2>3 DEF WriteFrame
<1>11. ReadCurrent(c) => \E id \in FrameIDs :
        Moved(c, [s EXCEPT !.pc = "release", !.current = id])
  <2> SUFFICES ASSUME ReadCurrent(c)
               PROVE  \E id \in FrameIDs :
                        Moved(c, [s EXCEPT !.pc = "release", !.current = id])
    OBVIOUS
  <2>1. (s.first + QueueSize - 1) % QueueSize \in Slots
    BY <1>4, PointerTypes
  <2>2. PICK id \in getFrameID((s.first + QueueSize - 1) % QueueSize) :
          script' = [script EXCEPT ![c] = [s EXCEPT !.pc = "release", !.current = id]]
    BY <1>1 DEF ReadCurrent
  <2>3. id \in FrameIDs /\ id \in Int
    BY <2>1, FrameIDTypes, Sizes DEF FrameIDs
  <2>4. [s EXCEPT !.pc = "release", !.current = id] \in Scripts
    BY <1>1, <2>3, PlaceNames DEF Scripts
  <2> QED BY <1>3, <2>2, <2>3, <2>4
<1>12. SetMinimumFrameID(c) => Moved(c, [s EXCEPT !.pc = "pointers"])
    BY <1>1, <1>3, ScriptFields, PlaceNames DEF SetMinimumFrameID
<1>13. SendCommand(c) => Moved(c, [s EXCEPT !.tries = @ + 1])
  <2>1. [s EXCEPT !.tries = @ + 1] \in Scripts
    <3>1. s.tries + 1 \in Nat
        BY <1>4
    <3> QED BY <1>1, <3>1 DEF Scripts
  <2> QED BY <1>1, <1>3, <2>1 DEF SendCommand
<1>14. SetReadPointer(c) =>
        Moved(c, IF s.pc = "end" THEN EndedScript
                 ELSE [s EXCEPT !.pc = IF s.pc = "flush" THEN "first"
                                       ELSE IF s.current < s.stop THEN "loop"
                                       ELSE "end"])
  <2>1. /\ [s EXCEPT !.pc = "first"] \in Scripts
        /\ [s EXCEPT !.pc = "loop"] \in Scripts
        /\ [s EXCEPT !.pc = "end"] \in Scripts
    BY <1>1, ScriptFields, PlaceNames
  <2> QED BY <1>1, <1>3, <2>1, ScriptTypes DEF SetReadPointer
<1> QED BY <1>5, <1>6, <1>7, <1>8, <1>9, <1>10, <1>11, <1>12, <1>13, <1>14

\* Where a script goes, and what it keeps.
LEMMA ScriptPlaces ==
    ASSUME ServerInv, NEW c \in Acquirers
    PROVE  LET s == script[c]
               g == script'[c]
               same == g.file = s.file /\ g.target = s.target
           IN
           /\ Synchronize(c) => g.pc = "flush" /\ g.last = wr /\ same
           /\ FirstFrame(c) => g.pc = "begin" /\ g.first = rd /\ same
           /\ BeginStep(c) => g.pc = "step0" /\ g.first = s.first /\ same
           /\ NextBlock(c) => g.pc = "write" /\ g.first = rd /\ same
           /\ WriteFrame(c) =>
                /\ g.pc = "write" /\ g.target = s.target
                /\ g.file = Append(s.file, slots[s.first % QueueSize])
                /\ g.first = (s.first + 1) % (2 * QueueSize)
           /\ ReadCurrent(c) => g.pc = "release" /\ g.first = s.first /\ same
           /\ SetMinimumFrameID(c) => g.pc = "pointers" /\ same
           /\ SendCommand(c) => g.pc = s.pc /\ same
           /\ SetReadPointer(c) =>
                \/ s.pc = "end" /\ g = EndedScript
                \/ /\ s.pc # "end" /\ same
                   /\ g.pc = IF s.pc = "flush" THEN "first"
                             ELSE IF s.current < s.stop THEN "loop" ELSE "end"
<1> DEFINE s == script[c]
           g == script'[c]
           same == g.file = s.file /\ g.target = s.target
<1>1. s \in Scripts
    BY DEF ServerInv, TypeInv, Clients
<1>2. ASSUME Synchronize(c)
      PROVE  g.pc = "flush" /\ g.last = wr /\ same
  <2>1. Moved(c, [s EXCEPT !.pc = "flush", !.last = wr])
    BY <1>2, GoesEffect
  <2> QED BY <1>1, <2>1 DEF Moved, Scripts
<1>3. ASSUME FirstFrame(c)
      PROVE  g.pc = "begin" /\ g.first = rd /\ same
  <2>1. Moved(c, [s EXCEPT !.pc = "begin", !.first = rd])
    BY <1>3, GoesEffect
  <2> QED BY <1>1, <2>1 DEF Moved, Scripts
<1>4. BeginStep(c) => g.pc = "step0" /\ g.first = s.first /\ same
  <2> SUFFICES ASSUME BeginStep(c)
               PROVE  g.pc = "step0" /\ g.first = s.first /\ same
    OBVIOUS
  <2>1. PICK id \in FrameIDs :
          Moved(c, [s EXCEPT !.pc = "step0", !.current = id, !.stop = id + Required])
    BY GoesEffect
  <2> QED BY <1>1, <2>1 DEF Moved, Scripts
<1>5. ASSUME NextBlock(c)
      PROVE  g.pc = "write" /\ g.first = rd /\ same
  <2>1. Moved(c, [s EXCEPT !.pc = "write", !.first = rd,
                     !.last = (rd + nFramesInBlock(s)) % (2 * QueueSize)])
    BY <1>5, GoesEffect
  <2> QED BY <1>1, <2>1 DEF Moved, Scripts
<1>6. ASSUME WriteFrame(c)
      PROVE  /\ g.pc = "write" /\ g.target = s.target
             /\ g.file = Append(s.file, slots[s.first % QueueSize])
             /\ g.first = (s.first + 1) % (2 * QueueSize)
  <2>1. Moved(c, [s EXCEPT !.file = Append(@, slots[s.first % QueueSize]),
                     !.first = (@ + 1) % (2 * QueueSize)]) /\ s.pc = "write"
    BY <1>6, GoesEffect DEF WriteFrame, At
  <2> QED BY <1>1, <2>1 DEF Moved, Scripts
<1>7. ReadCurrent(c) => g.pc = "release" /\ g.first = s.first /\ same
  <2> SUFFICES ASSUME ReadCurrent(c)
               PROVE  g.pc = "release" /\ g.first = s.first /\ same
    OBVIOUS
  <2>1. PICK id \in FrameIDs : Moved(c, [s EXCEPT !.pc = "release", !.current = id])
    BY GoesEffect
  <2> QED BY <1>1, <2>1 DEF Moved, Scripts
<1>8. ASSUME SetMinimumFrameID(c)
      PROVE  g.pc = "pointers" /\ same
  <2>1. Moved(c, [s EXCEPT !.pc = "pointers"])
    BY <1>8, GoesEffect
  <2> QED BY <1>1, <2>1 DEF Moved, Scripts
<1>9. ASSUME SendCommand(c)
      PROVE  g.pc = s.pc /\ same
  <2>1. Moved(c, [s EXCEPT !.tries = @ + 1])
    BY <1>9, GoesEffect
  <2> QED BY <1>1, <2>1 DEF Moved, Scripts
<1>10. ASSUME SetReadPointer(c)
       PROVE  \/ s.pc = "end" /\ g = EndedScript
              \/ /\ s.pc # "end" /\ same
                 /\ g.pc = IF s.pc = "flush" THEN "first"
                           ELSE IF s.current < s.stop THEN "loop" ELSE "end"
  <2>1. Moved(c, IF s.pc = "end" THEN EndedScript
                 ELSE [s EXCEPT !.pc = IF s.pc = "flush" THEN "first"
                                       ELSE IF s.current < s.stop THEN "loop"
                                       ELSE "end"])
    BY <1>10, GoesEffect
  <2>2. CASE s.pc = "end"
    BY <2>1, <2>2 DEF Moved
  <2>3. CASE s.pc # "end"
    BY <1>1, <2>1, <2>3 DEF Moved, Scripts
  <2> QED BY <2>2, <2>3
<1> QED BY <1>2, <1>3, <1>4, <1>5, <1>6, <1>7, <1>8, <1>9, <1>10

LEMMA SetReadPointerEffect ==
    ASSUME ServerInv, NEW c \in Acquirers, SetReadPointer(c)
    PROVE  /\ UNCHANGED <<wr, slots, modeVars, workerVars, netVars, clockVars, pollVars, sn,
                          starts>>
           /\ poll = "idle"
           /\ rd' = IF At(c, {"flush"}) THEN script[c].last ELSE script[c].first
           /\ rd' \in Pointers
<1>1. script[c].first \in Pointers /\ script[c].last \in Pointers
    BY ScriptFields DEF ServerInv, TypeInv, Clients
<1>2. \A p \in Pointers : p % (2 * QueueSize) = p
    BY Sizes
<1>3. /\ UNCHANGED <<wr, slots, modeVars, workerVars, netVars, clockVars, pollVars, sn,
                     starts>>
      /\ poll = "idle"
      /\ rd' = (IF At(c, {"flush"}) THEN script[c].last ELSE script[c].first)
                 % (2 * QueueSize)
    BY DEF SetReadPointer, At
<1> QED BY <1>1, <1>2, <1>3

\* What the scripts and their requests do keeps the types.
LEMMA ScriptServer ==
    ASSUME ServerInv, NEW c \in Acquirers, Script(c) \/ Kill(c)
    PROVE  ServerInv'
<1>1. c \in Clients /\ c # Stopper /\ c # Nobody
    BY FrameAssumption, Sizes DEF Clients
<1>2. CASE AcqOnOff(c)
  <2>1. TypeInv'
    <3>1. wr' \in Pointers /\ rd' \in Pointers
        BY <1>2, Sizes DEF AcqOnOff, ResetPointers
    <3>2. die' \in BOOLEAN
        BY <1>2 DEF AcqOnOff, ServerInv, TypeInv
    <3> QED BY <1>1, <1>2, <3>1, <3>2
            DEF AcqOnOff, ServerInv, TypeInv, workerVars, netVars, clockVars, scriptVars
  <2>2. WorkerInv'
    BY <1>2 DEF AcqOnOff, ServerInv, WorkerInv, workerVars
  <2>3. PollInv'
    BY <1>1, <1>2 DEF AcqOnOff, ServerInv, PollInv, scriptVars, At
  <2> QED BY <2>1, <2>2, <2>3 DEF ServerInv
<1>3. CASE SendCommand(c)
  <2>1. /\ Moved(c, [script[c] EXCEPT !.tries = @ + 1])
        /\ At(c, {"sync", "tag"})
    BY <1>3, GoesEffect DEF SendCommand
  <2>2. script'[c].pc = script[c].pc
    BY <2>1 DEF Moved, ServerInv, TypeInv, Scripts
  <2>3. commands' \in Seq(Commands)
    BY <1>3 DEF SendCommand, At, ServerInv, TypeInv, Commands
  <2>4. TypeInv'
    BY <1>1, <1>3, <2>1, <2>3 DEF SendCommand, Moved, ServerInv, TypeInv, ringVars, modeVars,
       workerVars, clockVars
  <2>5. WorkerInv'
    BY <1>3 DEF SendCommand, ServerInv, WorkerInv, modeVars, workerVars
  <2>6. PollInv'
    BY <1>1, <1>3, <2>1, <2>2 DEF SendCommand, Moved, ServerInv, PollInv, At, Clients
  <2> QED BY <2>4, <2>5, <2>6 DEF ServerInv
<1>4. CASE SetMinimumFrameID(c)
  <2>1. Moved(c, [script[c] EXCEPT !.pc = "pointers"])
    BY <1>4, GoesEffect
  <2>2. script[c].target.id \in Nat
    BY <1>1, Sizes DEF ServerInv, TypeInv, Scripts, Frames, Torn, Frame
  <2>3. TypeInv'
    BY <1>4, <2>1, <2>2 DEF SetMinimumFrameID, Moved, ServerInv, TypeInv, ringVars,
       workerVars, netVars, clockVars, pollVars
  <2>4. WorkerInv'
    BY <1>4 DEF SetMinimumFrameID, ServerInv, WorkerInv, workerVars, pollVars
  <2>5. PollInv'
    BY <1>1, <1>4, <2>1
       DEF SetMinimumFrameID, Moved, ServerInv, PollInv, pollVars, Clients
  <2> QED BY <2>3, <2>4, <2>5 DEF ServerInv
<1>5. CASE SetReadPointer(c)
  <2>1. PICK s : Moved(c, s)
    BY <1>5, GoesEffect
  <2>2. TypeInv'
    BY <1>5, <2>1, SetReadPointerEffect DEF Moved, ServerInv, TypeInv, modeVars, workerVars,
       netVars, clockVars, pollVars
  <2>3. WorkerInv'
    BY <1>5, SetReadPointerEffect DEF ServerInv, WorkerInv, modeVars, workerVars, pollVars
  <2>4. PollInv'
    BY <1>1, <1>5, <2>1, SetReadPointerEffect
       DEF Moved, ServerInv, PollInv, pollVars, Clients
  <2> QED BY <2>2, <2>3, <2>4 DEF ServerInv
<1>6. CASE \/ AcquisitionStopped(c) \/ Kill(c) \/ Synchronize(c) \/ FirstFrame(c)
           \/ BeginStep(c) \/ NextBlock(c) \/ WriteFrame(c) \/ ReadCurrent(c)
  <2>1. UNCHANGED <<serverVars, sn, starts>>
    BY <1>6 DEF AcquisitionStopped, Kill, Synchronize, FirstFrame, BeginStep, NextBlock,
       WriteFrame, ReadCurrent
  <2>2. PICK s : Moved(c, s)
    BY <1>6, GoesEffect
  <2>3. ~At(c, {"ended"})
    BY <1>6 DEF AcquisitionStopped, Kill, Synchronize, FirstFrame, BeginStep, NextBlock,
       WriteFrame, ReadCurrent, At
  <2>4. \/ poll = "idle"
        \/ s.pc = "ended"
        \/ client # c
    <3>1. CASE Kill(c)
        BY <3>1, <1>1, <2>2, GoesEffect DEF Moved, EndedScript, NewScript
    <3>2. CASE AcquisitionStopped(c) \/ Synchronize(c) \/ FirstFrame(c) \/ NextBlock(c)
        BY <3>2 DEF AcquisitionStopped, Synchronize, FirstFrame, NextBlock
    <3>3. CASE BeginStep(c) \/ WriteFrame(c) \/ ReadCurrent(c)
        BY <3>3 DEF BeginStep, WriteFrame, ReadCurrent, At, ServerInv, TypeInv, PollInv
    <3> QED BY <1>6, <3>1, <3>2, <3>3
  <2>5. TypeInv' /\ WorkerInv'
    BY <2>1, <2>2 DEF Moved, ServerInv, TypeInv, WorkerInv, serverVars, ringVars, modeVars,
       workerVars, netVars, clockVars, pollVars
  <2>6. PollInv'
    BY <1>1, <2>1, <2>2, <2>4 DEF Moved, ServerInv, TypeInv, PollInv, serverVars, pollVars,
       Clients
  <2> QED BY <2>5, <2>6 DEF ServerInv
<1> QED BY <1>2, <1>3, <1>4, <1>5, <1>6 DEF Script

LEMMA OtherServer ==
    ASSUME ServerInv, NEW c \in Clients, StartScript(c) \/ (c = Stopper /\ AcqOnOff(c))
    PROVE  ServerInv'
<1>1. CASE StartScript(c)
  <2>1. /\ UNCHANGED <<serverVars, sn>> /\ starts' \in Nat
        /\ Moved(c, NewScript)
        /\ client # c
    BY <1>1, ScriptTypes DEF StartScript, Moved, ServerInv, TypeInv
  <2>2. script'[Stopper].pc \in {"off", "ended"}
    BY <2>1 DEF Moved, NewScript, ServerInv, PollInv, Clients
  <2>3. TypeInv' /\ WorkerInv'
    BY <2>1 DEF Moved, ServerInv, TypeInv, WorkerInv, serverVars, ringVars, modeVars,
       workerVars, netVars, clockVars, pollVars
  <2>4. PollInv'
    BY <2>1, <2>2 DEF Moved, ServerInv, TypeInv, PollInv, serverVars, pollVars, Clients
  <2> QED BY <2>3, <2>4 DEF ServerInv
<1>2. CASE c = Stopper /\ AcqOnOff(c)
  <2>1. poll' = "joinOff" /\ At(c, {"off"}) /\ c # Nobody
    BY <1>2, Sizes DEF AcqOnOff, At, ServerInv, PollInv
  <2>2. wr' \in Pointers /\ rd' \in Pointers
    BY <1>2, Sizes DEF AcqOnOff, ResetPointers
  <2>3. die' \in BOOLEAN
    BY <1>2 DEF AcqOnOff, ServerInv, TypeInv
  <2>4. TypeInv'
    BY <1>2, <2>1, <2>2, <2>3
       DEF AcqOnOff, ServerInv, TypeInv, workerVars, netVars, clockVars, scriptVars
  <2>5. WorkerInv'
    BY <1>2 DEF AcqOnOff, ServerInv, WorkerInv, workerVars
  <2>6. PollInv'
    BY <1>2, <2>1 DEF AcqOnOff, ServerInv, PollInv, scriptVars, At
  <2> QED BY <2>4, <2>5, <2>6 DEF ServerInv
<1> QED BY <1>1, <1>2

LEMMA NextServer == ServerInv /\ [Next]_vars => ServerInv'
<1> SUFFICES ASSUME ServerInv, [Next]_vars
             PROVE  ServerInv'
    OBVIOUS
<1>1. CASE Next
    BY <1>1, FrontEndServer, WorkerServer, PollServer, ScriptServer, OtherServer
       DEF Next, Clients
<1>2. CASE UNCHANGED vars
    BY <1>2 DEF vars, ServerInv, TypeInv, WorkerInv, PollInv, ringVars, modeVars, workerVars,
       netVars, clockVars, pollVars, scriptVars
<1> QED BY <1>1, <1>2

\* A step of the history is one of the program, or none.
LEMMA HistoryStep == [HistoryNext]_<<vars, interrupted>> => [Next]_vars
BY DEF HistoryNext

\* The pointers, slots and positions of the server's threads and the scripts have
\* their types, and a client is known exactly while a request is executed
\* (FrameServer.cpp:63-79, 179-189).
THEOREM TypeCorrect == HistorySpec => []TypeOK
<1>1. HistoryInit => ServerInv
    BY InitServer DEF HistoryInit
<1>2. ServerInv /\ [HistoryNext]_<<vars, interrupted>> => ServerInv'
    BY NextServer, HistoryStep
<1>3. ServerInv => TypeOK
  <2> SUFFICES ASSUME ServerInv
               PROVE  TypeOK
    OBVIOUS
  <2>1. \A c \in Clients :
          /\ script[c].pc \in Places
          /\ script[c].first \in Pointers /\ script[c].last \in Pointers
          /\ script[c].target \in Frames
          /\ script[c].file \in Seq(Frames)
    BY ScriptFields DEF ServerInv, TypeInv
  <2> QED BY <2>1, PlaceNames DEF ServerInv, TypeInv, WorkerInv, PollInv, TypeOK
<1> QED BY <1>1, <1>2, <1>3, PTL DEF HistorySpec

-----------------------------------------------------------------------------
\* Distances on the ring.

LEMMA AheadRange ==
    ASSUME NEW a \in Pointers, NEW b \in Pointers
    PROVE  /\ Ahead(a, b) \in Pointers
           /\ (b - a) % (2 * QueueSize) = Ahead(a, b)
           /\ Ahead(a, b) = 0 <=> a = b
BY Sizes DEF Ahead

LEMMA AheadNext ==
    ASSUME NEW a \in Pointers, NEW b \in Pointers, Ahead(a, b) < 2 * QueueSize - 1
    PROVE  /\ (b + 1) % (2 * QueueSize) \in Pointers
           /\ Ahead(a, (b + 1) % (2 * QueueSize)) = Ahead(a, b) + 1
<1>1. (b + 1) % (2 * QueueSize) = IF b + 1 = 2 * QueueSize THEN 0 ELSE b + 1
    BY Sizes
<1> QED BY <1>1, Sizes DEF Ahead

LEMMA AheadAdd ==
    ASSUME NEW a \in Pointers, NEW n \in Pointers
    PROVE  /\ (a + n) % (2 * QueueSize) \in Pointers
           /\ Ahead(a, (a + n) % (2 * QueueSize)) = n
<1>1. (a + n) % (2 * QueueSize) =
        IF a + n >= 2 * QueueSize THEN a + n - 2 * QueueSize ELSE a + n
    BY Sizes
<1> QED BY <1>1, Sizes DEF Ahead

LEMMA AheadRest ==
    ASSUME NEW a \in Pointers, NEW p \in Pointers, NEW b \in Pointers,
           Ahead(a, p) <= Ahead(a, b)
    PROVE  Ahead(p, b) = Ahead(a, b) - Ahead(a, p)
BY Sizes DEF Ahead

LEMMA FullRing ==
    ASSUME ServerInv
    PROVE  isFull <=> Held = QueueSize
<1>1. wr \in Pointers /\ rd \in Pointers
    BY DEF ServerInv, TypeInv
<1>2. \A p \in Pointers : p % QueueSize = IF p >= QueueSize THEN p - QueueSize ELSE p
    BY Sizes
<1> DEFINE w == wr % QueueSize
           r == rd % QueueSize
<1>3. /\ w = IF wr >= QueueSize THEN wr - QueueSize ELSE wr
      /\ r = IF rd >= QueueSize THEN rd - QueueSize ELSE rd
    BY <1>1, <1>2
<1>4. isFull <=> wr # rd /\ w = r
    BY DEF isFull
<1> HIDE DEF w, r
<1> QED BY <1>1, <1>3, <1>4, Sizes DEF Held, Ahead

-----------------------------------------------------------------------------
\* The ring of frames.

LEMMA RingSame ==
    ASSUME RInv, UNCHANGED <<wr, rd, hasWorker, die, slot, script>>
    PROVE  LoopInv' /\ RingInv' /\ ReaderInv'
BY DEF RInv, LoopInv, RingInv, ReaderInv, Reader, Unread, Held, Ahead, Live, At

\* One script moves, the ring stays.
LEMMA RingMoved ==
    ASSUME RInv, UNCHANGED <<wr, rd, hasWorker, die, slot>>,
           NEW c \in Clients, NEW g, Moved(c, g),
           g.pc = "loop" => g.current < g.stop,
           Live /\ c \in Acquirers => Reader(g)
    PROVE  LoopInv' /\ RingInv' /\ ReaderInv'
<1>1. LoopInv'
    BY DEF RInv, LoopInv, At, Moved
<1>2. RingInv' /\ Held' = Held /\ Live' = Live
    BY DEF RInv, RingInv, Held, Ahead, Live
<1>3. ASSUME NEW d \in Acquirers, Live
      PROVE  Reader(script[d])'
  <2>1. Reader(script'[d])
    BY <1>3 DEF RInv, ReaderInv, Moved, Clients
  <2> QED BY <2>1, <1>2 DEF Reader, Unread, Ahead
<1> QED BY <1>1, <1>2, <1>3 DEF ReaderInv

\* Nothing to read for a script outside the places where it reads.
LEMMA ReaderOutside ==
    ASSUME ServerInv, NEW s, s.pc \notin {"flush", "write", "release", "begin", "step0", "end"}
    PROVE  Reader(s)
<1>1. wr \in Pointers /\ rd \in Pointers
    BY DEF ServerInv, TypeInv
<1>2. Ahead(rd, rd) = 0 /\ Held \in Nat
    BY <1>1, AheadRange, PointerTypes DEF Held
<1> QED BY <1>2 DEF Reader, Unread

LEMMA WorkerRing == RInv /\ Worker => LoopInv' /\ RingInv' /\ ReaderInv'
<1> SUFFICES ASSUME RInv, Worker
             PROVE  LoopInv' /\ RingInv' /\ ReaderInv'
    OBVIOUS
<1>1. CASE WorkerEnds \/ WorkerReply \/ WorkerData
    BY <1>1, RingSame DEF WorkerEnds, WorkerReply, WorkerData, ringVars, modeVars, workerVars,
       scriptVars
<1>2. CASE WorkerSlot \/ WorkerCopy
  <2>1. UNCHANGED <<wr, rd, modeVars, script>>
    BY <1>2 DEF WorkerSlot, WorkerCopy, scriptVars
  <2>2. slot' # NoSlot => Held < QueueSize
    <3>1. CASE WorkerSlot
      <4>1. Held <= QueueSize /\ Held \in Nat
        BY <3>1, AheadRange, PointerTypes DEF WorkerSlot, RInv, ServerInv, TypeInv, WorkerInv, RingInv, Held
      <4> QED BY <3>1, <4>1, FullRing, Sizes DEF WorkerSlot, RInv
    <3>2. CASE WorkerCopy
        BY <3>2 DEF WorkerCopy, RInv, RingInv
    <3> QED BY <1>2, <3>1, <3>2
  <2> QED BY <2>1, <2>2
          DEF RInv, LoopInv, RingInv, ReaderInv, Reader, Unread, Held, Ahead, Live, At, modeVars
<1>3. CASE WorkerPush
  <2>1. UNCHANGED <<rd, modeVars, script>> /\ slot' = NoSlot
    BY <1>3 DEF WorkerPush, scriptVars
  <2>2. Held \in Nat /\ Held' \in Nat /\ Held <= Held' /\ Held' <= QueueSize
    <3>1. wr \in Pointers /\ rd \in Pointers /\ Held \in Nat /\ Held <= QueueSize
        BY <1>3, AheadRange, PointerTypes
           DEF WorkerPush, RInv, ServerInv, TypeInv, WorkerInv, RingInv, Held
    <3>2. CASE slot = NoSlot
        BY <1>3, <2>1, <3>1, <3>2 DEF WorkerPush, Held, Ahead
    <3>3. CASE slot # NoSlot
      <4>1. Held < QueueSize
        BY <3>3 DEF RInv, RingInv
      <4>2. Held' = Held + 1
        BY <1>3, <2>1, <3>1, <3>3, <4>1, AheadNext, Sizes DEF WorkerPush, Held
      <4> QED BY <3>1, <4>1, <4>2, Sizes
    <3> QED BY <3>2, <3>3
  <2>3. LoopInv' /\ RingInv'
    BY <2>1, <2>2 DEF RInv, LoopInv, RingInv, At
  <2>4. ASSUME NEW c \in Acquirers, Live
        PROVE  Reader(script[c])'
    <3>1. Reader(script[c])
        BY <2>4 DEF RInv, ReaderInv
    <3>2. /\ script[c].first \in Pointers /\ script[c].last \in Pointers /\ rd \in Pointers
        BY ScriptFields DEF RInv, ServerInv, TypeInv, Clients
    <3>3. /\ Ahead(rd, script[c].first) \in Nat /\ Ahead(rd, script[c].last) \in Nat
          /\ Ahead(rd, rd) \in Nat
        BY <3>2, AheadRange, PointerTypes
    <3>4. Ahead(rd, Unread(script[c])) \in Nat
        BY <3>3 DEF Unread
    <3>5. UNCHANGED <<Ahead(rd, Unread(script[c])), Ahead(rd, script[c].first),
                      Ahead(rd, script[c].last)>>
        BY <2>1 DEF Ahead, Unread
    <3> QED BY <2>1, <2>2, <3>1, <3>3, <3>4, <3>5 DEF Reader
  <2> QED BY <2>1, <2>3, <2>4 DEF ReaderInv, Live, modeVars
<1> QED BY <1>1, <1>2, <1>3 DEF Worker

LEMMA PollRing == OneAcquirer /\ RInv /\ Poll => LoopInv' /\ RingInv' /\ ReaderInv'
<1> SUFFICES ASSUME OneAcquirer, RInv, Poll
             PROVE  LoopInv' /\ RingInv' /\ ReaderInv'
    OBVIOUS
<1> USE DEF RInv
<1>1. ASSUME NEW g, Moved(client, g), g.pc # "loop"
      PROVE  LoopInv'
    BY <1>1 DEF LoopInv, Moved, At
<1>2. ASSUME NEW p, p \in {"sync", "on", "tag", "min"}, poll # "idle"
      PROVE  /\ [script[client] EXCEPT !.pc = p].pc = p
             /\ \A f : [script[client] EXCEPT !.pc = p, !.target = f, !.tries = 0].pc = p
    BY <1>2, ClientThere DEF Scripts
<1>3. EndedScript.pc = "ended"
    BY DEF EndedScript, NewScript
<1>4. ASSUME script' = script
      PROVE  LoopInv'
    BY <1>4 DEF LoopInv, At
<1>5. CASE Join
  <2>1. hasWorker' = FALSE /\ slot' = slot /\ slot = NoSlot
    BY <1>5, JoinEffect DEF ServerInv, WorkerInv
  <2>2. LoopInv'
    BY <1>1, <1>2, <1>3, <1>4, <1>5, JoinEffect
  <2> QED BY <2>1, <2>2 DEF RingInv, ReaderInv, Live
<1>6. CASE Restart
  <2>1. /\ wr' = 0 /\ rd' = 0 /\ slot' = NoSlot
        /\ client \in Acquirers
        /\ script'[client].pc \in {"ended", "tag"}
        /\ LoopInv'
    BY <1>1, <1>2, <1>4, <1>6, RestartEffect DEF ResetPointers, Moved, ServerInv, WorkerInv, At,
       Restart
  <2>2. Held' = 0 /\ Ahead(rd, rd)' = 0
    BY <2>1, Sizes DEF Held, Ahead
  <2>3. ASSUME NEW c \in Acquirers
        PROVE  Reader(script[c])'
    <3>1. c = client
        BY <2>1 DEF OneAcquirer
    <3> QED BY <3>1, <2>1, <2>2 DEF Reader, Unread
  <2> QED BY <2>1, <2>2, <2>3, Sizes DEF RingInv, ReaderInv
<1>7. CASE TakeReply \/ ReceiveReply
  <2>1. PICK p \in Data \cup Replies : Accept(p)
    <3>1. CASE TakeReply
        BY <3>1, HeadTail DEF TakeReply, ServerInv, TypeInv
    <3>2. CASE ReceiveReply
        BY <3>2, HeadTail DEF ReceiveReply, ServerInv, TypeInv
    <3> QED BY <1>7, <3>1, <3>2
  <2>2. UNCHANGED <<wr, rd, hasWorker, die, slot>> /\ poll = "reply" /\ client \in Clients
    BY <1>7, ClientThere DEF TakeReply, ReceiveReply, ringVars, modeVars, workerVars
  <2>3. CASE script' = script
    BY <2>2, <2>3, RingSame
  <2>4. ASSUME NEW q, q \in {"on", "min"},
               Moved(client, [script[client] EXCEPT !.pc = q, !.target = p.tag, !.tries = 0])
        PROVE  LoopInv' /\ RingInv' /\ ReaderInv'
    <3> DEFINE g == [script[client] EXCEPT !.pc = q, !.target = p.tag, !.tries = 0]
    <3>1. g.pc = q
        BY <1>2, <2>2, <2>4
    <3> HIDE DEF g
    <3>2. Moved(client, g)
        BY <2>4 DEF g
    <3> QED BY <2>2, <2>4, <3>1, <3>2, RingMoved, ReaderOutside
  <2> QED BY <2>1, <2>2, <2>3, <2>4, AcceptEffect DEF pollVars
<1>8. CASE CommandTimeout
  <2>1. /\ UNCHANGED <<wr, rd, hasWorker, die, slot>> /\ client \in Clients
        /\ script' = script \/ Moved(client, EndedScript)
    BY <1>8, TimeoutEffect DEF ringVars, modeVars, workerVars, Clients
  <2> QED BY <1>3, <2>1, RingSame, RingMoved, ReaderOutside
<1> QED BY <1>5, <1>6, <1>7, <1>8 DEF Poll

LEMMA AcqOnOffRing ==
    ASSUME RInv, NEW c \in Clients, AcqOnOff(c)
    PROVE  LoopInv' /\ RingInv' /\ ReaderInv'
<1>1. wr' = 0 /\ rd' = 0 /\ UNCHANGED <<hasWorker, slot, script>> /\ (hasWorker => die')
    BY DEF AcqOnOff, ResetPointers, workerVars, scriptVars
<1>2. Held' = 0
    BY <1>1 DEF Held, Ahead
<1>3. ~Live'
    BY <1>1 DEF Live
<1> QED BY <1>1, <1>2, <1>3, Sizes DEF RInv, LoopInv, RingInv, ReaderInv, At

\* Different pointers have different distances.
LEMMA AheadDiffer ==
    ASSUME NEW a \in Pointers, NEW b \in Pointers, NEW r \in Pointers, a # b
    PROVE  Ahead(r, a) # Ahead(r, b)
BY Sizes DEF Ahead

LEMMA SetReadPointerRing ==
    ASSUME OneAcquirer, RInv, NEW c \in Acquirers, SetReadPointer(c)
    PROVE  LoopInv' /\ RingInv' /\ ReaderInv'
<1> USE DEF RInv
<1> DEFINE s == script[c]
           g == IF s.pc = "end" THEN EndedScript
                ELSE [s EXCEPT !.pc = IF s.pc = "flush" THEN "first"
                                      ELSE IF s.current < s.stop THEN "loop"
                                      ELSE "end"]
<1>1. /\ Moved(c, g)
      /\ UNCHANGED <<wr, hasWorker, die, slot>>
      /\ poll = "idle"
      /\ rd' = IF s.pc = "flush" THEN s.last ELSE s.first
      /\ rd' \in Pointers /\ rd \in Pointers /\ wr \in Pointers
      /\ s \in Scripts /\ c \in Clients
      /\ s.pc \in {"flush", "step0", "release", "end"}
    BY GoesEffect, SetReadPointerEffect
       DEF SetReadPointer, At, modeVars, workerVars, ServerInv, TypeInv, Clients
<1>2. /\ s.pc = "end" => g.pc = "ended"
      /\ s.pc # "end" => /\ g.first = s.first /\ g.current = s.current /\ g.stop = s.stop
                         /\ g.pc = IF s.pc = "flush" THEN "first"
                                   ELSE IF s.current < s.stop THEN "loop" ELSE "end"
    BY <1>1 DEF Scripts, EndedScript, NewScript
<1> HIDE DEF g
<1>3. LoopInv'
    BY <1>1, <1>2 DEF LoopInv, Moved, At
<1>4. CASE ~hasWorker
  <2>1. slot = NoSlot
    BY <1>4 DEF ServerInv, WorkerInv
  <2> QED BY <1>1, <1>3, <1>4, <2>1 DEF RingInv, ReaderInv, Live
<1>5. CASE hasWorker
  <2>1. Live /\ Held <= QueueSize /\ Reader(s)
    BY <1>1, <1>5 DEF ServerInv, WorkerInv, Live, RingInv, ReaderInv
  <2>2. Ahead(rd, rd') <= Held
    BY <1>1, <2>1 DEF Reader, Unread
  <2>3. Held' = Held - Ahead(rd, rd')
    BY <1>1, <2>2, AheadRest DEF Held
  <2>4. Ahead(rd, rd') \in Nat /\ Held \in Nat /\ Held' \in Nat
    BY <1>1, AheadRange, PointerTypes DEF Held
  <2>5. RingInv'
    BY <1>1, <2>1, <2>3, <2>4, Sizes DEF RingInv
  <2>6. Reader(script[c])'
    <3>1. Ahead(rd, rd)' = 0
        BY <1>1, AheadRange
    <3>2. /\ script'[c].pc \notin {"flush", "write", "release", "begin", "step0"}
          /\ script'[c].pc = "end" => script'[c].first = rd'
        BY <1>1, <1>2 DEF Moved
    <3> QED BY <2>4, <3>1, <3>2 DEF Reader, Unread
  <2> QED BY <1>3, <2>5, <2>6 DEF ReaderInv, OneAcquirer
<1> QED BY <1>4, <1>5

LEMMA ScriptRing ==
    ASSUME OneAcquirer, RInv, NEW c \in Acquirers, Script(c) \/ Kill(c)
    PROVE  LoopInv' /\ RingInv' /\ ReaderInv'
<1> USE DEF RInv
<1> DEFINE s == script[c]
<1>1. /\ s \in Scripts /\ c \in Clients
      /\ wr \in Pointers /\ rd \in Pointers /\ s.first \in Pointers /\ s.last \in Pointers
    BY ScriptFields DEF ServerInv, TypeInv, Clients
<1>2. /\ Ahead(rd, rd) = 0 /\ Held \in Nat
      /\ Ahead(rd, s.first) \in Nat /\ Ahead(rd, s.last) \in Nat
    BY <1>1, AheadRange, PointerTypes DEF Held
<1>3. CASE AcqOnOff(c)
    BY <1>1, <1>3, AcqOnOffRing
<1>4. CASE SetReadPointer(c)
    BY <1>4, SetReadPointerRing
<1>5. ASSUME NEW g, Moved(c, g), UNCHANGED <<wr, rd, hasWorker, die, slot>>,
             g.pc = "loop" => g.current < g.stop, Live => Reader(g)
      PROVE  LoopInv' /\ RingInv' /\ ReaderInv'
    BY <1>1, <1>5, RingMoved
<1>6. CASE SendCommand(c) \/ SetMinimumFrameID(c) \/ AcquisitionStopped(c) \/ Kill(c)
  <2>1. UNCHANGED <<wr, rd, hasWorker, die, slot>>
    BY <1>6 DEF SendCommand, SetMinimumFrameID, AcquisitionStopped, Kill, serverVars,
       ringVars, modeVars, workerVars
  <2>2. CASE SendCommand(c)
    <3> DEFINE g == [s EXCEPT !.tries = @ + 1]
    <3>1. Moved(c, g) /\ s.pc \in {"sync", "tag"}
        BY <2>2, GoesEffect DEF SendCommand, At
    <3>2. g.pc = s.pc
        BY <1>1 DEF Scripts
    <3> HIDE DEF g
    <3> QED BY <1>5, <2>1, <3>1, <3>2, ReaderOutside
  <2>3. CASE SetMinimumFrameID(c)
    <3> DEFINE g == [s EXCEPT !.pc = "pointers"]
    <3>1. Moved(c, g)
        BY <2>3, GoesEffect
    <3>2. g.pc = "pointers"
        BY <1>1 DEF Scripts
    <3> HIDE DEF g
    <3> QED BY <1>5, <2>1, <3>1, <3>2, ReaderOutside
  <2>4. CASE AcquisitionStopped(c) \/ Kill(c)
    <3>1. Moved(c, EndedScript)
        BY <2>4, GoesEffect
    <3>2. EndedScript.pc = "ended"
        BY DEF EndedScript, NewScript
    <3> QED BY <1>5, <2>1, <3>1, <3>2, ReaderOutside
  <2> QED BY <1>6, <2>2, <2>3, <2>4
<1>7. CASE Synchronize(c) \/ FirstFrame(c) \/ BeginStep(c) \/ NextBlock(c) \/ WriteFrame(c)
           \/ ReadCurrent(c)
  <2>1. UNCHANGED <<wr, rd, hasWorker, die, slot>>
    BY <1>7 DEF Synchronize, FirstFrame, BeginStep, NextBlock, WriteFrame, ReadCurrent,
       serverVars, ringVars, modeVars, workerVars
  <2>2. CASE Synchronize(c)
    <3> DEFINE g == [s EXCEPT !.pc = "flush", !.last = wr]
    <3>1. Moved(c, g)
        BY <2>2, GoesEffect
    <3>2. g.pc = "flush" /\ g.last = wr
        BY <1>1 DEF Scripts
    <3> HIDE DEF g
    <3>3. Reader(g)
        BY <1>2, <3>2 DEF Reader, Unread, Held
    <3> QED BY <1>5, <2>1, <3>1, <3>2, <3>3
  <2>3. CASE FirstFrame(c)
    <3> DEFINE g == [s EXCEPT !.pc = "begin", !.first = rd]
    <3>1. Moved(c, g)
        BY <2>3, GoesEffect
    <3>2. g.pc = "begin" /\ g.first = rd
        BY <1>1 DEF Scripts
    <3> HIDE DEF g
    <3>3. Reader(g)
        BY <1>2, <3>2 DEF Reader, Unread
    <3> QED BY <1>5, <2>1, <3>1, <3>2, <3>3
  <2>4. CASE BeginStep(c)
    <3>1. PICK id \in FrameIDs :
            Moved(c, [s EXCEPT !.pc = "step0", !.current = id, !.stop = id + Required])
        BY <2>4, GoesEffect
    <3> DEFINE g == [s EXCEPT !.pc = "step0", !.current = id, !.stop = id + Required]
    <3>2. g.pc = "step0" /\ g.first = s.first
        BY <1>1 DEF Scripts
    <3>3. Moved(c, g)
        BY <3>1
    <3> HIDE DEF g
    <3>4. Live => s.first = rd
        BY <2>4 DEF BeginStep, At, ReaderInv, Reader
    <3>5. Live => Reader(g)
        BY <1>2, <3>2, <3>4 DEF Reader, Unread
    <3> QED BY <1>5, <2>1, <3>2, <3>3, <3>5
  <2>5. CASE NextBlock(c)
    <3> DEFINE n == nFramesInBlock(s)
               g == [s EXCEPT !.pc = "write", !.first = rd,
                       !.last = (rd + n) % (2 * QueueSize)]
    <3>1. Moved(c, g)
        BY <2>5, GoesEffect
    <3>2. g.pc = "write" /\ g.first = rd /\ g.last = (rd + n) % (2 * QueueSize)
        BY <1>1 DEF Scripts
    <3>3. s.current < s.stop /\ wr # rd
        BY <1>1, <2>5 DEF NextBlock, LoopInv, At
    <3>4. n \in Nat \ {0} /\ n <= QueueSize /\ (Held <= QueueSize => n <= Held)
        BY <1>1, <3>3, BlockSize
    <3> HIDE DEF g, n
    <3>5. n \in Pointers
        BY <3>4, Sizes
    <3>6. Live => Held <= QueueSize
        BY DEF Live, RingInv
    <3>7. Ahead(rd, g.last) = n
        BY <1>1, <3>2, <3>5, AheadAdd
    <3>8. Live => Reader(g)
        BY <1>2, <3>2, <3>4, <3>6, <3>7 DEF Reader, Unread
    <3> QED BY <1>5, <2>1, <3>1, <3>2, <3>8
  <2>6. CASE WriteFrame(c)
    <3> DEFINE g == [s EXCEPT !.file = Append(@, slots[s.first % QueueSize]),
                       !.first = (@ + 1) % (2 * QueueSize)]
    <3>1. Moved(c, g)
        BY <2>6, GoesEffect
    <3>2. /\ g.pc = s.pc /\ g.last = s.last /\ g.first = (s.first + 1) % (2 * QueueSize)
          /\ s.pc = "write" /\ s.first # s.last
        BY <1>1, <2>6 DEF Scripts, WriteFrame, At
    <3> HIDE DEF g
    <3>3. Live => Reader(s)
        BY DEF ReaderInv
    <3>4. Live => Ahead(rd, s.first) < Ahead(rd, s.last)
        BY <1>1, <1>2, <3>2, <3>3, AheadDiffer DEF Reader
    <3>5. Ahead(rd, s.last) <= 2 * QueueSize - 1
      <4>1. Ahead(rd, s.last) \in Pointers
        BY <1>1, AheadRange
      <4> HIDE DEF s
      <4> QED BY <4>1, Sizes
    <3>6. Live => Ahead(rd, g.first) = Ahead(rd, s.first) + 1
      <4>1. s.first \in Pointers /\ s.last \in Pointers /\ rd \in Pointers
        BY <1>1, <1>2
      <4>2. Ahead(rd, s.first) \in Pointers /\ Ahead(rd, s.last) \in Pointers
        BY <4>1, AheadRange
      <4> HIDE DEF s
      <4>3. Live => Ahead(rd, s.first) < 2 * QueueSize - 1
        BY <3>4, <3>5, <4>2, Sizes
      <4> QED BY <3>2, <4>1, <4>3, AheadNext
    <3>7. Live => Reader(g)
        BY <1>2, <3>2, <3>3, <3>4, <3>6 DEF Reader, Unread
    <3> QED BY <1>5, <2>1, <3>1, <3>2, <3>7
  <2>7. CASE ReadCurrent(c)
    <3>1. PICK id \in FrameIDs : Moved(c, [s EXCEPT !.pc = "release", !.current = id])
        BY <2>7, GoesEffect
    <3> DEFINE g == [s EXCEPT !.pc = "release", !.current = id]
    <3>2. g.pc = "release" /\ g.first = s.first
        BY <1>1 DEF Scripts
    <3>3. Moved(c, g)
        BY <3>1
    <3> HIDE DEF g
    <3>4. Live => Ahead(rd, s.first) <= Held
        BY <2>7 DEF ReadCurrent, At, ReaderInv, Reader, Unread
    <3>5. Live => Reader(g)
        BY <3>2, <3>4 DEF Reader, Unread
    <3> QED BY <1>5, <2>1, <3>2, <3>3, <3>5
  <2> QED BY <1>7, <2>2, <2>3, <2>4, <2>5, <2>6, <2>7
<1> QED BY <1>3, <1>4, <1>6, <1>7 DEF Script

LEMMA NextRing == OneAcquirer /\ RInv /\ [Next]_vars => RInv'
<1> SUFFICES ASSUME OneAcquirer, RInv, [Next]_vars
             PROVE  RInv'
    OBVIOUS
<1>1. ServerInv'
    BY NextServer DEF RInv
<1>2. CASE FrontEnd
  <2>1. UNCHANGED <<wr, rd, hasWorker, die, slot, script>>
    BY <1>2 DEF FrontEnd, FrameSent, CommandArrives, ringVars, modeVars, workerVars, scriptVars
  <2> QED BY <1>1, <2>1, RingSame DEF RInv
<1>3. CASE Worker
    BY <1>1, <1>3, WorkerRing DEF RInv
<1>4. CASE Poll
    BY <1>1, <1>4, PollRing DEF RInv
<1>5. ASSUME NEW c \in Acquirers, Script(c) \/ Kill(c)
      PROVE  RInv'
    BY <1>1, <1>5, ScriptRing DEF RInv
<1>6. CASE AcqOnOff(Stopper)
    BY <1>1, <1>6, AcqOnOffRing DEF RInv, Clients
<1>7. ASSUME NEW c \in Clients, StartScript(c)
      PROVE  RInv'
  <2>1. UNCHANGED <<wr, rd, hasWorker, die, slot>> /\ Moved(c, NewScript)
    BY <1>7, ScriptTypes DEF StartScript, Moved, RInv, ServerInv, TypeInv, serverVars, ringVars,
       modeVars, workerVars
  <2>2. NewScript.pc = "off"
    BY DEF NewScript
  <2> QED BY <1>1, <2>1, <2>2, RingMoved, ReaderOutside DEF RInv
<1>8. CASE UNCHANGED vars
  <2>1. UNCHANGED <<wr, rd, hasWorker, die, slot, script>>
    BY <1>8 DEF vars, ringVars, modeVars, workerVars, scriptVars
  <2> QED BY <1>1, <2>1, RingSame DEF RInv
<1> QED BY <1>2, <1>3, <1>4, <1>5, <1>6, <1>7, <1>8 DEF Next

LEMMA InitRing == Init => RInv
<1> SUFFICES ASSUME Init
             PROVE  RInv
    OBVIOUS
<1>1. ServerInv
    BY InitServer
<1>2. \A c \in Clients : script[c].pc = "ended"
    BY DEF Init, EndedScript, NewScript
<1>3. Held = 0 /\ slot = NoSlot /\ ~hasWorker
    BY DEF Init, Held, Ahead
<1> QED BY <1>1, <1>2, <1>3 DEF RInv, LoopInv, RingInv, ReaderInv, Live, At

\* The ring never holds more frames than it has slots, whatever its size, although
\* the pointer a script sets is older than the frames pushed since and
\* stop_daq.py resets the pointers at any moment (FrameServer.cpp:162,
\* daqd.py:1244).
THEOREM RingIsConsistent ==
    ASSUME OneAcquirer
    PROVE  HistorySpec => []RingConsistent
<1>1. HistoryInit => RInv
    BY InitRing DEF HistoryInit
<1>2. RInv /\ [HistoryNext]_<<vars, interrupted>> => RInv'
    BY NextRing, HistoryStep
<1>3. RInv => RingConsistent
    BY AheadRange DEF RInv, ServerInv, TypeInv, RingInv, RingConsistent, Held
<1> QED BY <1>1, <1>2, <1>3, PTL DEF HistorySpec

-----------------------------------------------------------------------------
\* Datagrams, commands and replies.

LEMMA NetTypes ==
    ASSUME ServerInv
    PROVE  /\ wire \in Seq(Data \cup Replies)
           /\ replyQueue \in Seq(Replies)
           /\ commands \in Seq(Commands)
           /\ sync \in Nat /\ now \in 0 .. MaxFrame /\ sn \in Nat
           /\ DOMAIN wire = 1 .. Len(wire) /\ Len(wire) \in Nat
           /\ DOMAIN replyQueue = 1 .. Len(replyQueue) /\ Len(replyQueue) \in Nat
           /\ DOMAIN commands = 1 .. Len(commands) /\ Len(commands) \in Nat
           /\ \A i \in DOMAIN wire : wire[i] \in Data \cup Replies
           /\ \A i \in DOMAIN replyQueue : replyQueue[i] \in Replies
           /\ \A i \in DOMAIN commands : commands[i] \in Commands
BY DEF ServerInv, TypeInv

\* Of a datagram: a frame with its numbers, or a reply with its serial number.
LEMMA DatagramFields ==
    ASSUME NEW p \in Data \cup Replies
    PROVE  /\ IsData(p) <=> p.type # "reply"
           /\ IsData(p) => /\ p \in Data /\ p.frame.sync \in Nat
                           /\ p.frame.id \in 0 .. MaxFrame /\ p.frame \in Frames
           /\ ~IsData(p) => p \in Replies /\ p.sn \in Nat /\ p.tag \in Frames
BY FrameTypes DEF IsData, Data, Replies, Frames

\* The request that is executed waits for a time tag as before.
SameRequest ==
    poll' = "reply" /\ script'[client'].pc = "tag" =>
        poll = "reply" /\ client' = client /\ script[client].pc = "tag"

LEMMA NetSame ==
    ASSUME NetInv, UNCHANGED <<netVars, clockVars, sn>>, SameRequest
    PROVE  NetInv'
BY DEF NetInv, WireInv, CommandInv, ReplyInv, TagInv, SameRequest, netVars, clockVars

\* The first datagram leaves the socket, to the worker or to the poll thread.
LEMMA NetTaken ==
    ASSUME ServerInv, NetInv, wire # <<>>, wire' = Tail(wire),
           UNCHANGED <<commands, clockVars, sn>>, SameRequest,
           \/ replyQueue' = replyQueue
           \/ replyQueue' = Append(replyQueue, Head(wire)) /\ Head(wire).type = "reply"
    PROVE  NetInv'
<1>1. /\ Head(wire) = wire[1] /\ 1 \in DOMAIN wire
      /\ DOMAIN wire' \subseteq Nat
      /\ \A i \in DOMAIN wire' : i + 1 \in DOMAIN wire /\ wire'[i] = wire[i + 1]
    BY NetTypes, HeadTail
<1>2. ASSUME NEW i \in DOMAIN replyQueue'
      PROVE  \/ i \in DOMAIN replyQueue /\ replyQueue'[i] = replyQueue[i]
             \/ replyQueue'[i] = wire[1] /\ wire[1].type = "reply"
  <2>1. CASE replyQueue' = replyQueue
    BY <2>1
  <2>2. CASE replyQueue' = Append(replyQueue, Head(wire)) /\ Head(wire).type = "reply"
    <3>1. Head(wire) \in Replies
        BY <1>1, <2>2, NetTypes, DatagramFields
    <3>2. \A j \in DOMAIN Append(replyQueue, Head(wire)) :
            \/ j \in DOMAIN replyQueue /\ Append(replyQueue, Head(wire))[j] = replyQueue[j]
            \/ Append(replyQueue, Head(wire))[j] = Head(wire)
        BY <3>1, NetTypes, AppendFacts
    <3> QED BY <1>1, <2>2, <3>2
  <2> QED BY <2>1, <2>2
<1>3. WireInv' /\ CommandInv'
    BY <1>1, NetTypes DEF NetInv, WireInv, CommandInv, clockVars
<1>4. ReplyInv'
  <2>1. ASSUME NEW i \in DOMAIN wire', wire'[i].type = "reply"
        PROVE  /\ wire'[i].sn <= sn'
               /\ wire'[i].sn = sn' =>
                    /\ commands' = <<>>
                    /\ \A j \in DOMAIN wire' :
                         j > i /\ IsData(wire'[j]) => wire'[j].frame.sync = sync'
    <3>1. /\ wire[i + 1].sn <= sn
          /\ wire[i + 1].sn = sn =>
               /\ commands = <<>>
               /\ \A j \in DOMAIN wire :
                    j > i + 1 /\ IsData(wire[j]) => wire[j].frame.sync = sync
        BY <1>1, <2>1 DEF NetInv, ReplyInv
    <3>2. \A j \in DOMAIN wire' : j > i => j + 1 > i + 1
        BY <1>1
    <3> QED BY <1>1, <3>1, <3>2 DEF clockVars
  <2>2. ASSUME NEW i \in DOMAIN replyQueue'
        PROVE  /\ replyQueue'[i].sn <= sn'
               /\ replyQueue'[i].sn = sn' => commands' = <<>>
    BY <1>1, <1>2 DEF NetInv, ReplyInv
  <2> QED BY <2>1, <2>2 DEF ReplyInv
<1>5. TagInv'
    BY <1>1, <1>2 DEF NetInv, TagInv, SameRequest, clockVars
<1> QED BY <1>3, <1>4, <1>5 DEF NetInv

LEMMA ArriveEffect ==
    ASSUME ServerInv, NEW p \in Data \cup Replies, Arrive(p)
    PROVE  /\ \A i \in DOMAIN wire' : \/ i \in DOMAIN wire /\ wire'[i] = wire[i]
                                      \/ i = Len(wire) + 1 /\ wire'[i] = p
           /\ \A i \in DOMAIN wire : i < Len(wire) + 1
BY NetTypes, AppendFacts DEF Arrive

LEMMA FrameSentNet ==
    ASSUME ServerInv, NetInv, FrameSent
    PROVE  NetInv'
<1> DEFINE p == [type |-> "data", frame |-> Frame(sync, now)]
<1>1. /\ Arrive(p) /\ now' = now + 1
      /\ UNCHANGED <<replyQueue, commands, sync, sn, poll, client, script>>
    BY DEF FrameSent, pollVars, scriptVars
<1>2. /\ p \in Data /\ p.frame.sync = sync /\ p.frame.id = now /\ IsData(p)
      /\ p.type # "reply"
    BY NetTypes, Sizes DEF Data, Frame, IsData
<1> HIDE DEF p
<1>3. /\ \A i \in DOMAIN wire' : \/ i \in DOMAIN wire /\ wire'[i] = wire[i]
                                 \/ i = Len(wire) + 1 /\ wire'[i] = p
      /\ \A i \in DOMAIN wire : i < Len(wire) + 1
    BY <1>1, <1>2, ArriveEffect
<1>4. WireInv'
  <2>1. now \in Nat /\ sync \in Nat
    BY NetTypes, Sizes
  <2>2. ASSUME NEW i \in DOMAIN wire', IsData(wire'[i])
        PROVE  /\ wire'[i].frame.sync <= sync'
               /\ wire'[i].frame.sync = sync' => wire'[i].frame.id < now'
    <3>1. CASE i \in DOMAIN wire /\ wire'[i] = wire[i]
      <4>1. wire[i].frame.id \in Nat
        BY <2>2, <3>1, NetTypes, DatagramFields, Sizes
      <4> QED BY <1>1, <2>1, <2>2, <3>1, <4>1 DEF NetInv, WireInv
    <3>2. CASE wire'[i] = p
        BY <1>1, <1>2, <2>1, <3>2
    <3> QED BY <1>3, <3>1, <3>2
  <2>3. ASSUME NEW i \in DOMAIN wire', NEW j \in DOMAIN wire',
               i < j, IsData(wire'[i]), IsData(wire'[j])
        PROVE  /\ wire'[i].frame.sync <= wire'[j].frame.sync
               /\ wire'[i].frame.sync = wire'[j].frame.sync =>
                     wire'[i].frame.id < wire'[j].frame.id
    <3>1. i \in DOMAIN wire /\ wire'[i] = wire[i]
        BY <1>3, <2>3, NetTypes
    <3>2. CASE j \in DOMAIN wire /\ wire'[j] = wire[j]
        BY <2>3, <3>1, <3>2 DEF NetInv, WireInv
    <3>3. CASE wire'[j] = p
        BY <1>2, <2>3, <3>1, <3>3 DEF NetInv, WireInv
    <3> QED BY <1>3, <3>2, <3>3
  <2> QED BY <2>2, <2>3 DEF WireInv
<1>5. CommandInv'
    BY <1>1 DEF NetInv, CommandInv
<1>6. ReplyInv'
    BY <1>1, <1>2, <1>3, NetTypes DEF NetInv, ReplyInv
<1>7. TagInv'
    BY <1>1, <1>2, <1>3 DEF NetInv, TagInv
<1> QED BY <1>4, <1>5, <1>6, <1>7 DEF NetInv

\* A reply joins the socket; the command it answers leaves.
LEMMA CommandArrivesNet ==
    ASSUME ServerInv, NetInv, CommandArrives
    PROVE  NetInv'
<1>1. /\ commands # <<>> /\ commands' = Tail(commands)
      /\ UNCHANGED <<replyQueue, sn, poll, client, script>>
    BY DEF CommandArrives, pollVars, scriptVars
<1>2. /\ Head(commands) = commands[1] /\ 1 \in DOMAIN commands
      /\ commands[1].sn \in Nat /\ commands[1].what \in {"sync", "tag"}
      /\ DOMAIN commands' \subseteq Nat
      /\ \A i \in DOMAIN commands' :
            i + 1 \in DOMAIN commands /\ commands'[i] = commands[i + 1]
      /\ Len(commands) = 1 => commands' = <<>>
  <2>1. commands \in Seq(Commands)
    BY NetTypes
  <2>2. /\ Len(commands) \in Nat \ {0}
        /\ Head(commands) = commands[1] /\ commands[1] \in Commands
        /\ Tail(commands) \in Seq(Commands) /\ Len(Tail(commands)) = Len(commands) - 1
        /\ \A i \in DOMAIN Tail(commands) :
              i + 1 \in DOMAIN commands /\ Tail(commands)[i] = commands[i + 1]
    BY <1>1, <2>1, HeadTail
  <2>3. DOMAIN Tail(commands) \subseteq Nat
    BY <2>2
  <2>4. Len(commands) = 1 => Tail(commands) = <<>>
    BY <2>2
  <2> QED BY <1>1, <2>1, <2>2, <2>3, <2>4 DEF Commands
<1>3. PICK p \in Replies :
        /\ Arrive(p) /\ p.sn = commands[1].sn
        /\ \/ /\ commands[1].what = "sync"
              /\ sync' = sync + 1 /\ now' = 0
           \/ /\ commands[1].what = "tag" /\ p.tag.sync = sync
              /\ UNCHANGED clockVars
  <2> DEFINE Reply(t) == [type |-> "reply", sn |-> Head(commands).sn, tag |-> t]
  <2>1. ASSUME NEW t \in Frames \ {Torn}
        PROVE  Reply(t) \in Replies /\ Reply(t).sn = commands[1].sn /\ Reply(t).tag = t
    BY <1>2 DEF Replies
  <2>2. CASE /\ Head(commands).what = "sync"
             /\ sync' = sync + 1 /\ now' = 0
             /\ Arrive(Reply(Zero))
    <3>1. Reply(Zero) \in Replies /\ Reply(Zero).sn = commands[1].sn
        BY <2>1, FrameTypes
    <3> HIDE DEF Reply
    <3> QED BY <1>2, <2>2, <3>1
  <2>3. ASSUME NEW lag \in 0 .. MaxLag, Head(commands).what = "tag", UNCHANGED clockVars,
               Arrive(Reply(Frame(sync, now + lag)))
        PROVE  \E p \in Replies :
                 /\ Arrive(p) /\ p.sn = commands[1].sn
                 /\ commands[1].what = "tag" /\ p.tag.sync = sync
                 /\ UNCHANGED clockVars
    <3>1. now + lag \in 0 .. MaxFrame + MaxLag
        BY NetTypes, Sizes
    <3>2. Frame(sync, now + lag) \in Frames \ {Torn} /\ Frame(sync, now + lag).sync = sync
        BY <3>1, NetTypes, FrameTypes DEF Frame
    <3>3. /\ Reply(Frame(sync, now + lag)) \in Replies
          /\ Reply(Frame(sync, now + lag)).sn = commands[1].sn
          /\ Reply(Frame(sync, now + lag)).tag.sync = sync
        BY <2>1, <3>2
    <3> HIDE DEF Reply
    <3> QED BY <1>2, <2>3, <3>3
  <2> QED BY <2>2, <2>3 DEF CommandArrives
<1>4. /\ \A i \in DOMAIN wire' : \/ i \in DOMAIN wire /\ wire'[i] = wire[i]
                                 \/ i = Len(wire) + 1 /\ wire'[i] = p
      /\ \A i \in DOMAIN wire : i < Len(wire) + 1
      /\ p.type = "reply" /\ ~IsData(p) /\ p.sn \in Nat
    BY <1>3, ArriveEffect DEF Replies, IsData
<1>5. sync \in Nat /\ sn \in Nat /\ Len(commands) \in Nat
    BY NetTypes
\* No reply that is already there has the current serial number.
<1>6. /\ \A i \in DOMAIN wire : wire[i].type = "reply" => wire[i].sn # sn
      /\ \A i \in DOMAIN replyQueue : replyQueue[i].sn # sn
    BY <1>1 DEF NetInv, ReplyInv
\* If it answers the current one, it answers the last.
<1>7. p.sn <= sn /\ (p.sn = sn => commands' = <<>>)
  <2>1. p.sn <= sn
    BY <1>2, <1>3 DEF NetInv, CommandInv
  <2>2. ASSUME p.sn = sn, Len(commands) # 1
        PROVE  FALSE
    <3>1. 2 \in DOMAIN commands
        BY <1>2, <2>2, NetTypes
    <3>2. commands[1].sn < commands[2].sn /\ commands[2].sn <= sn
        BY <1>2, <3>1 DEF NetInv, CommandInv
    <3>3. commands[2].sn \in Nat
        BY <3>1, NetTypes DEF Commands
    <3> QED BY <1>2, <1>3, <1>5, <2>2, <3>2, <3>3
  <2> QED BY <1>2, <2>1, <2>2
<1>8. WireInv'
  <2>1. ASSUME NEW i \in DOMAIN wire', IsData(wire'[i])
        PROVE  /\ i \in DOMAIN wire /\ wire'[i] = wire[i]
               /\ wire'[i].frame.sync <= sync'
               /\ wire'[i].frame.sync = sync' => wire'[i].frame.id < now'
    <3>1. i \in DOMAIN wire /\ wire'[i] = wire[i]
        BY <1>4, <2>1
    <3>2. wire[i].frame.sync \in Nat
        BY <2>1, <3>1, NetTypes, DatagramFields
    <3> QED BY <1>3, <1>5, <2>1, <3>1, <3>2 DEF NetInv, WireInv, clockVars
  <2> QED BY <2>1 DEF NetInv, WireInv
<1>9. CommandInv'
  <2>1. \A i, j \in DOMAIN commands' : i < j => i + 1 < j + 1
    BY <1>2
  <2> QED BY <1>1, <1>2, <2>1 DEF NetInv, CommandInv
<1>10. ReplyInv'
  <2>1. ASSUME NEW i \in DOMAIN wire', wire'[i].type = "reply"
        PROVE  /\ wire'[i].sn <= sn'
               /\ wire'[i].sn = sn' =>
                    /\ commands' = <<>>
                    /\ \A j \in DOMAIN wire' :
                         j > i /\ IsData(wire'[j]) => wire'[j].frame.sync = sync'
    <3>1. CASE i \in DOMAIN wire /\ wire'[i] = wire[i]
        BY <1>1, <1>6, <2>1, <3>1 DEF NetInv, ReplyInv
    <3>2. CASE i = Len(wire) + 1 /\ wire'[i] = p
      <4>1. \A j \in DOMAIN wire' : ~(j > i)
        BY <1>4, <3>2, NetTypes
      <4> QED BY <1>1, <1>3, <1>7, <3>2, <4>1
    <3> QED BY <1>4, <3>1, <3>2
  <2>2. ASSUME NEW i \in DOMAIN replyQueue'
        PROVE  /\ replyQueue'[i].sn <= sn'
               /\ replyQueue'[i].sn = sn' => commands' = <<>>
    BY <1>1, <1>6, <2>2 DEF NetInv, ReplyInv
  <2> QED BY <2>1, <2>2 DEF ReplyInv
<1>11. TagInv'
  <2> SUFFICES ASSUME poll = "reply", script[client].pc = "tag"
               PROVE  /\ \A i \in DOMAIN commands' :
                           commands'[i].sn = sn => commands'[i].what = "tag"
                      /\ \A i \in DOMAIN wire' :
                           wire'[i].type = "reply" /\ wire'[i].sn = sn =>
                             wire'[i].tag.sync = sync'
                      /\ \A i \in DOMAIN replyQueue :
                           replyQueue[i].sn = sn => replyQueue[i].tag.sync = sync'
    BY <1>1 DEF TagInv
  <2>1. p.sn = sn => p.tag.sync = sync'
    BY <1>2, <1>3 DEF NetInv, TagInv, clockVars
  <2> QED BY <1>2, <1>4, <1>6, <2>1 DEF NetInv, TagInv
<1> QED BY <1>8, <1>9, <1>10, <1>11 DEF NetInv

\* The command that goes out is the only one with its serial number.
LEMMA SendCommandNet ==
    ASSUME ServerInv, NetInv, NEW c \in Acquirers, SendCommand(c)
    PROVE  NetInv'
<1>1. /\ sn' = sn + 1 /\ client' = c
      /\ commands' = Append(commands, [what |-> script[c].pc, sn |-> sn'])
      /\ UNCHANGED <<replyQueue, wire, sync, now>>
    BY DEF SendCommand, clockVars
<1>2. script'[c].pc = script[c].pc /\ script[c].pc \in {"sync", "tag"}
  <2>1. Moved(c, [script[c] EXCEPT !.tries = @ + 1])
    BY GoesEffect
  <2>2. script[c] \in Scripts
    BY DEF ServerInv, TypeInv, Clients
  <2>3. script[c].pc \in {"sync", "tag"}
    BY DEF SendCommand, At
  <2> QED BY <2>1, <2>2, <2>3 DEF Moved, Scripts
<1> DEFINE m == [what |-> script[c].pc, sn |-> sn']
<1>3. sn \in Nat /\ m \in Commands /\ m.sn = sn + 1 /\ m.what = script[c].pc
    BY <1>1, <1>2, NetTypes DEF Commands
<1>4. commands' = Append(commands, m)
    BY <1>1
<1> HIDE DEF m
<1>5. /\ \A i \in DOMAIN commands' : \/ i \in DOMAIN commands /\ commands'[i] = commands[i]
                                     \/ i = Len(commands) + 1 /\ commands'[i] = m
      /\ \A i \in DOMAIN commands : i < Len(commands) + 1
      /\ \A i \in DOMAIN commands : commands[i].sn \in Nat /\ commands[i].sn <= sn
      /\ DOMAIN commands \subseteq Nat
    BY <1>3, <1>4, NetTypes, AppendFacts DEF Commands, NetInv, CommandInv
<1>6. /\ \A i \in DOMAIN wire : wire[i].type = "reply" =>
            wire[i].sn \in Nat /\ wire[i].sn <= sn
      /\ \A i \in DOMAIN replyQueue :
            replyQueue[i].sn \in Nat /\ replyQueue[i].sn <= sn
    BY NetTypes, DatagramFields DEF NetInv, ReplyInv, Replies
<1>7. WireInv'
    BY <1>1 DEF NetInv, WireInv
<1>8. CommandInv'
  <2>1. ASSUME NEW i \in DOMAIN commands'
        PROVE  commands'[i].sn <= sn'
    BY <1>1, <1>3, <1>5, <2>1
  <2>2. ASSUME NEW i \in DOMAIN commands', NEW j \in DOMAIN commands', i < j
        PROVE  commands'[i].sn < commands'[j].sn
    <3>1. i \in DOMAIN commands /\ commands'[i] = commands[i]
        BY <1>5, <2>2, NetTypes
    <3>2. CASE j \in DOMAIN commands /\ commands'[j] = commands[j]
        BY <2>2, <3>1, <3>2 DEF NetInv, CommandInv
    <3>3. CASE commands'[j] = m
        BY <1>3, <1>5, <3>1, <3>3
    <3> QED BY <1>5, <3>2, <3>3
  <2> QED BY <2>1, <2>2 DEF CommandInv
<1>9. ReplyInv'
    BY <1>1, <1>3, <1>6 DEF ReplyInv
<1>10. TagInv'
    BY <1>1, <1>2, <1>3, <1>5, <1>6 DEF TagInv
<1> QED BY <1>7, <1>8, <1>9, <1>10 DEF NetInv

\* The poll thread takes a reply of the worker.
LEMMA TakeReplyNet ==
    ASSUME ServerInv, NetInv, TakeReply
    PROVE  NetInv'
<1>1. /\ replyQueue # <<>> /\ replyQueue' = Tail(replyQueue)
      /\ UNCHANGED <<wire, commands, clockVars, sn>>
      /\ Accept(Head(replyQueue)) /\ poll = "reply"
    BY DEF TakeReply
<1>2. /\ Head(replyQueue) \in Data \cup Replies
      /\ \A i \in DOMAIN replyQueue' :
            i + 1 \in DOMAIN replyQueue /\ replyQueue'[i] = replyQueue[i + 1]
    BY <1>1, NetTypes, HeadTail
<1>3. SameRequest
    BY <1>1, <1>2, AcceptEffect DEF SameRequest, Answered, pollVars
<1>4. WireInv' /\ CommandInv'
    BY <1>1 DEF NetInv, WireInv, CommandInv, clockVars
<1>5. ReplyInv'
    BY <1>1, <1>2 DEF NetInv, ReplyInv, clockVars
<1>6. TagInv'
    BY <1>1, <1>2, <1>3 DEF NetInv, TagInv, SameRequest, clockVars
<1> QED BY <1>4, <1>5, <1>6 DEF NetInv

LEMMA WorkerNet == ServerInv /\ NetInv /\ Worker => NetInv'
<1> SUFFICES ASSUME ServerInv, NetInv, Worker
             PROVE  NetInv'
    OBVIOUS
<1>1. SameRequest
    BY DEF SameRequest, Worker, WorkerEnds, WorkerReply, WorkerData, WorkerSlot, WorkerCopy,
           WorkerPush, pollVars, scriptVars
<1>2. CASE WorkerReply \/ WorkerData
  <2>1. /\ wire # <<>> /\ wire' = Tail(wire) /\ UNCHANGED <<commands, clockVars, sn>>
        /\ \/ replyQueue' = replyQueue
           \/ replyQueue' = Append(replyQueue, Head(wire)) /\ Head(wire).type = "reply"
    BY <1>2 DEF WorkerReply, WorkerData, scriptVars
  <2> QED BY <1>1, <2>1, NetTaken
<1>3. CASE WorkerEnds \/ WorkerSlot \/ WorkerCopy \/ WorkerPush
  <2>1. UNCHANGED <<netVars, clockVars, sn>>
    BY <1>3 DEF WorkerEnds, WorkerSlot, WorkerCopy, WorkerPush, scriptVars
  <2> QED BY <1>1, <2>1, NetSame
<1> QED BY <1>2, <1>3 DEF Worker

LEMMA PollNet == ServerInv /\ NetInv /\ Poll => NetInv'
<1> SUFFICES ASSUME ServerInv, NetInv, Poll
             PROVE  NetInv'
    OBVIOUS
<1>1. CASE Join
  <2>1. UNCHANGED <<netVars, clockVars, sn>> /\ poll' # "reply"
    BY <1>1, JoinEffect DEF Answered
  <2> QED BY <2>1, NetSame DEF SameRequest
<1>2. CASE Restart \/ CommandTimeout
  <2>1. UNCHANGED <<netVars, clockVars, sn>> /\ poll' # "reply"
    BY <1>2 DEF Restart, CommandTimeout, Answered
  <2> QED BY <2>1, NetSame DEF SameRequest
<1>3. CASE TakeReply
    BY <1>3, TakeReplyNet
<1>4. CASE ReceiveReply
  <2>1. /\ wire # <<>> /\ wire' = Tail(wire)
        /\ UNCHANGED <<replyQueue, commands, clockVars, sn>>
        /\ Accept(Head(wire)) /\ poll = "reply"
    BY <1>4 DEF ReceiveReply
  <2>2. Head(wire) \in Data \cup Replies
    BY <2>1, NetTypes, HeadTail
  <2>3. SameRequest
    BY <2>1, <2>2, AcceptEffect DEF SameRequest, Answered, pollVars
  <2> QED BY <2>1, <2>3, NetTaken
<1> QED BY <1>1, <1>2, <1>3, <1>4 DEF Poll

\* A script that moves does not get in the way of a request.
LEMMA RequestKept ==
    ASSUME ServerInv, NEW c \in Clients, NEW g, Moved(c, g), UNCHANGED pollVars,
           poll = "idle" \/ g.pc # "tag"
    PROVE  SameRequest
<1>1. poll = "reply" => client \in Clients
    BY ClientThere
<1> QED BY <1>1 DEF SameRequest, Moved, pollVars

LEMMA ScriptNet ==
    ASSUME ServerInv, NetInv, NEW c \in Acquirers, Script(c) \/ Kill(c)
    PROVE  NetInv'
<1>0. c \in Clients
    BY DEF Clients
<1>1. CASE AcqOnOff(c)
  <2>1. UNCHANGED <<netVars, clockVars, sn>> /\ poll' # "reply"
    BY <1>1 DEF AcqOnOff, scriptVars
  <2> QED BY <2>1, NetSame DEF SameRequest
<1>2. CASE SendCommand(c)
    BY <1>2, SendCommandNet
<1>3. CASE SetMinimumFrameID(c) \/ AcquisitionStopped(c) \/ Synchronize(c) \/ FirstFrame(c)
           \/ NextBlock(c) \/ SetReadPointer(c)
  <2>1. UNCHANGED <<netVars, clockVars, sn>> /\ poll' # "reply"
    BY <1>3 DEF SetMinimumFrameID, AcquisitionStopped, Synchronize, FirstFrame, NextBlock,
       SetReadPointer, serverVars, pollVars
  <2> QED BY <2>1, NetSame DEF SameRequest
<1>4. CASE BeginStep(c) \/ WriteFrame(c) \/ ReadCurrent(c) \/ Kill(c)
  <2>1. UNCHANGED <<netVars, clockVars, sn, pollVars>>
    BY <1>4 DEF BeginStep, WriteFrame, ReadCurrent, Kill, serverVars
  <2>2. PICK g : Moved(c, g)
    BY <1>4, GoesEffect
  <2>3. g.pc # "tag"
    <3>1. CASE Kill(c)
        BY <2>2, <3>1, GoesEffect DEF Moved, EndedScript, NewScript
    <3>2. CASE BeginStep(c) \/ WriteFrame(c) \/ ReadCurrent(c)
        BY <2>2, <3>2, ScriptPlaces DEF Moved
    <3> QED BY <1>4, <3>1, <3>2
  <2>4. SameRequest
    BY <1>0, <2>1, <2>2, <2>3, RequestKept
  <2> QED BY <2>1, <2>4, NetSame
<1> QED BY <1>1, <1>2, <1>3, <1>4 DEF Script

LEMMA NextNet == ServerInv /\ NetInv /\ [Next]_vars => NetInv'
<1> SUFFICES ASSUME ServerInv, NetInv, [Next]_vars
             PROVE  NetInv'
    OBVIOUS
<1>1. CASE FrontEnd
    BY <1>1, FrameSentNet, CommandArrivesNet DEF FrontEnd
<1>2. CASE Worker \/ Poll
    BY <1>2, WorkerNet, PollNet
<1>3. ASSUME NEW c \in Acquirers, Script(c) \/ Kill(c)
      PROVE  NetInv'
    BY <1>3, ScriptNet
<1>4. CASE AcqOnOff(Stopper)
  <2>1. UNCHANGED <<netVars, clockVars, sn>> /\ poll' # "reply"
    BY <1>4 DEF AcqOnOff, scriptVars
  <2> QED BY <2>1, NetSame DEF SameRequest
<1>5. ASSUME NEW c \in Clients, StartScript(c)
      PROVE  NetInv'
  <2>1. UNCHANGED <<netVars, clockVars, sn, pollVars>>
    BY <1>5 DEF StartScript, serverVars
  <2>2. Moved(c, NewScript) /\ NewScript.pc # "tag"
    BY <1>5, ScriptTypes DEF StartScript, Moved, ServerInv, TypeInv, NewScript
  <2> QED BY <2>1, <2>2, RequestKept, NetSame
<1>6. CASE UNCHANGED vars
  <2>1. UNCHANGED <<netVars, clockVars, sn, pollVars, script>>
    BY <1>6 DEF vars, scriptVars
  <2> QED BY <2>1, NetSame DEF SameRequest, pollVars
<1> QED BY <1>1, <1>2, <1>3, <1>4, <1>5, <1>6 DEF Next

LEMMA InitNet == Init => NetInv
BY DEF Init, NetInv, WireInv, CommandInv, ReplyInv, TagInv

-----------------------------------------------------------------------------
\* Nothing of an earlier synchronisation.

\* The datagrams and commands that are left are of those there were.
LEMMA SettledKept ==
    ASSUME SettledInv, Settled' => Settled,
           \A c \in Acquirers : At(c, {"sync"})' => ~hasWorker',
           sync' = sync,
           \A i \in DOMAIN commands' : \E j \in DOMAIN commands : commands'[i] = commands[j],
           \A i \in DOMAIN wire' : \E j \in DOMAIN wire : wire'[i] = wire[j]
    PROVE  SettledInv'
BY DEF SettledInv

\* A script moves, not to the synchronisation.
LEMMA SettledMoved ==
    ASSUME SettledInv, UNCHANGED <<commands, wire, sync, hasWorker, die, poll>>,
           NEW c \in Clients, NEW g, Moved(c, g), g.pc \notin {"on", "sync"}
    PROVE  SettledInv'
<1>1. \A d \in Acquirers : At(d, {"on"})' => At(d, {"on"})
    BY DEF Moved, At, Clients
<1>2. \A d \in Acquirers : At(d, {"sync"})' => At(d, {"sync"})
    BY DEF Moved, At, Clients
<1>3. Settled' => Settled
    BY <1>1 DEF Settled, Live
<1>4. \A d \in Acquirers : At(d, {"sync"})' => ~hasWorker'
    BY <1>2 DEF SettledInv
<1> QED BY <1>3, <1>4, SettledKept

LEMMA FrontEndSettled == ServerInv /\ SettledInv /\ FrontEnd => SettledInv'
<1> SUFFICES ASSUME ServerInv, SettledInv, FrontEnd
             PROVE  SettledInv'
    OBVIOUS
<1>1. UNCHANGED <<hasWorker, die, poll, script>>
    BY DEF FrontEnd, FrameSent, CommandArrives, modeVars, pollVars, scriptVars
<1>2. (Settled' <=> Settled) /\ \A c \in Acquirers : At(c, {"sync"})' => ~hasWorker'
    BY <1>1 DEF Settled, Live, At, SettledInv
<1> SUFFICES ASSUME Settled
             PROVE  /\ \A i \in DOMAIN commands' : commands'[i].what # "sync"
                    /\ \A i \in DOMAIN wire' : IsData(wire'[i]) => wire'[i].frame.sync = sync'
    BY <1>2 DEF SettledInv
<1>3. /\ \A i \in DOMAIN commands : commands[i].what # "sync"
      /\ \A i \in DOMAIN wire : IsData(wire[i]) => wire[i].frame.sync = sync
    BY DEF SettledInv
<1>4. CASE FrameSent
  <2> DEFINE p == [type |-> "data", frame |-> Frame(sync, now)]
  <2>1. Arrive(p) /\ UNCHANGED <<commands, sync>>
    BY <1>4 DEF FrameSent
  <2>2. p \in Data \cup Replies /\ p.frame.sync = sync
    BY NetTypes, Sizes DEF Data, Frame
  <2> HIDE DEF p
  <2> QED BY <1>3, <2>1, <2>2, ArriveEffect
<1>5. CASE CommandArrives
  <2>1. commands # <<>> /\ commands' = Tail(commands)
    BY <1>5 DEF CommandArrives
  <2>2. /\ Head(commands) = commands[1] /\ 1 \in DOMAIN commands
        /\ \A i \in DOMAIN commands' :
              i + 1 \in DOMAIN commands /\ commands'[i] = commands[i + 1]
    BY <2>1, NetTypes, HeadTail
  <2>3. Head(commands).what # "sync"
    BY <1>3, <2>2
  <2>4. PICK lag \in 0 .. MaxLag :
          /\ Arrive([type |-> "reply", sn |-> Head(commands).sn,
                     tag |-> Frame(sync, now + lag)])
          /\ UNCHANGED clockVars
    BY <1>5, <2>3 DEF CommandArrives
  <2> DEFINE p == [type |-> "reply", sn |-> Head(commands).sn,
                   tag |-> Frame(sync, now + lag)]
  <2>5. now + lag \in 0 .. MaxFrame + MaxLag
    BY NetTypes, Sizes
  <2>6. Frame(sync, now + lag) \in Frames \ {Torn} /\ Head(commands).sn \in Nat
    BY <2>2, <2>5, NetTypes, FrameTypes DEF Commands
  <2>7. p \in Data \cup Replies /\ ~IsData(p)
    BY <2>6 DEF Replies, IsData
  <2>8. Arrive(p)
    BY <2>4
  <2> HIDE DEF p
  <2>9. \A i \in DOMAIN wire' : IsData(wire'[i]) => i \in DOMAIN wire /\ wire'[i] = wire[i]
    BY <2>7, <2>8, ArriveEffect
  <2> QED BY <1>3, <2>2, <2>4, <2>9 DEF clockVars
<1> QED BY <1>4, <1>5 DEF FrontEnd

LEMMA WorkerSettled == ServerInv /\ SettledInv /\ Worker => SettledInv'
<1> SUFFICES ASSUME ServerInv, SettledInv, Worker
             PROVE  SettledInv'
    OBVIOUS
<1>1. UNCHANGED <<hasWorker, die, poll, script, commands, sync>>
    BY DEF Worker, WorkerEnds, WorkerReply, WorkerData, WorkerSlot, WorkerCopy, WorkerPush,
           modeVars, pollVars, scriptVars, netVars, clockVars
<1>2. wire' = wire \/ (wire # <<>> /\ wire' = Tail(wire))
    BY DEF Worker, WorkerEnds, WorkerReply, WorkerData, WorkerSlot, WorkerCopy, WorkerPush,
           netVars
<1>3. \A i \in DOMAIN wire' : \E j \in DOMAIN wire : wire'[i] = wire[j]
  <2>1. CASE wire' = wire
    BY <2>1
  <2>2. CASE wire # <<>> /\ wire' = Tail(wire)
    <3>1. \A i \in DOMAIN wire' : i + 1 \in DOMAIN wire /\ wire'[i] = wire[i + 1]
        BY <2>2, NetTypes, HeadTail
    <3> QED BY <3>1
  <2> QED BY <1>2, <2>1, <2>2
<1>4. (Settled' <=> Settled) /\ \A c \in Acquirers : At(c, {"sync"})' => ~hasWorker'
    BY <1>1 DEF Settled, Live, At, SettledInv
<1> QED BY <1>1, <1>3, <1>4, SettledKept

\* The reply to the last synchronisation is the last datagram of an earlier one.
LEMMA ReplySettles ==
    ASSUME OneAcquirer, ServerInv, NetInv, SettledInv, TakeReply \/ ReceiveReply
    PROVE  SettledInv'
<1>1. PICK p \in Data \cup Replies :
        /\ Accept(p)
        /\ \/ hasWorker /\ UNCHANGED wire
           \/ /\ ~hasWorker /\ wire # <<>> /\ wire' = Tail(wire) /\ p = Head(wire)
  <2>1. CASE TakeReply
    BY <2>1, NetTypes, HeadTail DEF TakeReply
  <2>2. CASE ReceiveReply
    BY <2>2, NetTypes, HeadTail DEF ReceiveReply
  <2> QED BY <2>1, <2>2
<1>2. /\ UNCHANGED <<hasWorker, die, commands, sync, sn>> /\ poll = "reply"
      /\ client \in Clients /\ client \in Acquirers
    BY ClientThere DEF TakeReply, ReceiveReply, modeVars, clockVars
<1>3. wire # <<>> =>
        /\ Head(wire) = wire[1] /\ 1 \in DOMAIN wire
        /\ \A i \in DOMAIN Tail(wire) :
             i + 1 \in DOMAIN wire /\ Tail(wire)[i] = wire[i + 1] /\ i + 1 > 1
    BY NetTypes, HeadTail
<1>4. \A i \in DOMAIN wire' : \E j \in DOMAIN wire : wire'[i] = wire[j]
    BY <1>1, <1>3
<1>5. CASE UNCHANGED <<pollVars, script>>
  <2>1. (Settled' <=> Settled) /\ \A c \in Acquirers : At(c, {"sync"})' => ~hasWorker'
    BY <1>2, <1>5 DEF Settled, Live, At, SettledInv, pollVars
  <2> QED BY <1>2, <1>4, <2>1, SettledKept
<1>6. CASE Answered /\ script' = script
  <2>1. (Settled' => Settled) /\ \A c \in Acquirers : At(c, {"sync"})' => ~hasWorker'
    BY <1>2, <1>6 DEF Settled, Live, At, SettledInv, Answered
  <2> QED BY <1>2, <1>4, <2>1, SettledKept
<1>7. ASSUME NEW q, q \in {"on", "min"}, Answered,
             Moved(client, [script[client] EXCEPT !.pc = q, !.target = p.tag, !.tries = 0])
      PROVE  /\ script'[client].pc = q
             /\ \A c \in Acquirers : At(c, {"sync"})' => ~hasWorker'
             /\ q = "min" => (Settled' => Settled)
  <2>1. script[client] \in Scripts
    BY ClientThere, <1>2
  <2>2. script'[client].pc = q
    BY <1>7, <2>1 DEF Moved, Scripts
  <2> QED BY <1>2, <1>7, <2>2 DEF Settled, Live, At, SettledInv, Answered, Moved, Clients
<1>8. CASE /\ Answered /\ At(client, {"tag"})
           /\ Moved(client, [script[client] EXCEPT !.pc = "min", !.target = p.tag, !.tries = 0])
    BY <1>2, <1>4, <1>7, <1>8, SettledKept
<1>9. CASE /\ Answered /\ At(client, {"sync"}) /\ Expected(p) /\ p \in Replies
           /\ Moved(client, [script[client] EXCEPT !.pc = "on", !.target = p.tag, !.tries = 0])
  <2>1. ~hasWorker
    BY <1>2, <1>9 DEF SettledInv
  <2>2. wire # <<>> /\ wire' = Tail(wire) /\ p = wire[1]
    BY <1>1, <1>3, <2>1
  <2>3. /\ commands = <<>>
        /\ \A j \in DOMAIN wire : j > 1 /\ IsData(wire[j]) => wire[j].frame.sync = sync
    BY <1>3, <1>9, <2>2 DEF NetInv, ReplyInv, Expected
  <2>4. \A i \in DOMAIN wire' : IsData(wire'[i]) => wire'[i].frame.sync = sync'
    BY <1>2, <1>3, <2>2, <2>3
  <2>5. \A i \in DOMAIN commands' : commands'[i].what # "sync"
    BY <1>2, <2>3
  <2>6. \A c \in Acquirers : At(c, {"sync"})' => ~hasWorker'
    BY <1>7, <1>9
  <2> QED BY <2>4, <2>5, <2>6 DEF SettledInv
<1> QED BY <1>1, <1>2, <1>5, <1>6, <1>8, <1>9, AcceptEffect

LEMMA PollSettled ==
    OneAcquirer /\ ServerInv /\ NetInv /\ SettledInv /\ Poll => SettledInv'
<1> SUFFICES ASSUME OneAcquirer, ServerInv, NetInv, SettledInv, Poll
             PROVE  SettledInv'
    OBVIOUS
<1>1. ASSUME NEW q, q \in {"sync", "tag"}, poll # "idle",
             Moved(client, [script[client] EXCEPT !.pc = q])
      PROVE  script'[client].pc = q
    BY <1>1, ClientThere DEF Moved, Scripts
<1>2. EndedScript.pc = "ended"
    BY DEF EndedScript, NewScript
<1>3. CASE Join
  <2>1. /\ hasWorker' = FALSE /\ UNCHANGED <<commands, wire, sync>>
        /\ poll \in {"joinOff", "joinOn"} /\ (poll' = "sleep" => poll = "joinOn")
        /\ poll' \in {"sleep", "idle"}
        /\ client \in Clients
    BY <1>3, JoinEffect, ClientThere DEF netVars, clockVars, Answered
  <2>2. \A c \in Acquirers : At(c, {"on"})' => At(c, {"on"})
    <3>1. CASE script' = script
        BY <3>1 DEF At
    <3>2. CASE script'[client].pc \in {"ended", "sync"} /\
               \A d \in Clients \ {client} : script'[d] = script[d]
        BY <3>2 DEF At, Clients
    <3> QED BY <1>1, <1>2, <1>3, <2>1, <3>1, <3>2, JoinEffect DEF Moved
  <2> QED BY <2>1, <2>2, SettledKept DEF Settled, Live
<1>4. CASE Restart
  <2>1. /\ UNCHANGED <<commands, wire, sync>> /\ Settled
        /\ client \in Acquirers
        /\ script'[client].pc \in {"ended", "tag"}
    BY <1>1, <1>4, RestartEffect DEF Restart, netVars, clockVars, Settled, At
  <2>2. \A c \in Acquirers : ~At(c, {"sync"})'
    BY <2>1 DEF OneAcquirer, At
  <2> QED BY <2>1, <2>2, SettledKept
<1>5. CASE TakeReply \/ ReceiveReply
    BY <1>5, ReplySettles
<1>6. CASE CommandTimeout
  <2>1. /\ UNCHANGED <<commands, wire, sync, hasWorker, die>> /\ Answered
        /\ client \in Clients
        /\ script' = script \/ Moved(client, EndedScript)
    BY <1>6, TimeoutEffect DEF netVars, clockVars, modeVars, Clients
  <2>2. \A c \in Acquirers : /\ At(c, {"on"})' => At(c, {"on"})
                             /\ At(c, {"sync"})' => At(c, {"sync"})
    BY <1>2, <2>1 DEF Moved, At, Clients
  <2>3. (Settled' => Settled) /\ \A c \in Acquirers : At(c, {"sync"})' => ~hasWorker'
    BY <2>1, <2>2 DEF Settled, Live, Answered, SettledInv
  <2> QED BY <2>1, <2>3, SettledKept
<1> QED BY <1>3, <1>4, <1>5, <1>6 DEF Poll

LEMMA ScriptSettled ==
    ASSUME OneAcquirer, ServerInv, SettledInv, NEW c \in Acquirers, Script(c) \/ Kill(c)
    PROVE  SettledInv'
<1>0. c \in Clients /\ script[c] \in Scripts
    BY DEF Clients, ServerInv, TypeInv
<1>1. CASE AcqOnOff(c)
  <2>1. /\ UNCHANGED <<commands, wire, sync, hasWorker, script>>
        /\ poll' = "joinOn" => At(c, {"on"})
        /\ poll' # "sleep" /\ (hasWorker => die')
    BY <1>1 DEF AcqOnOff, netVars, clockVars, scriptVars
  <2> QED BY <2>1, SettledKept DEF Settled, Live, At, SettledInv
<1>2. CASE SendCommand(c)
  <2>1. /\ UNCHANGED <<wire, sync, hasWorker, die>> /\ poll = "idle" /\ poll' = "reply"
        /\ commands' = Append(commands, [what |-> script[c].pc, sn |-> sn'])
        /\ script[c].pc \in {"sync", "tag"} /\ sn' = sn + 1
    BY <1>2 DEF SendCommand, modeVars, clockVars, At
  <2>2. script'[c].pc = script[c].pc /\ \A d \in Clients \ {c} : script'[d] = script[d]
    BY <1>2, ScriptPlaces, GoesEffect DEF Moved
  <2>3. (Settled' => Settled) /\ \A d \in Acquirers : At(d, {"sync"})' => ~hasWorker'
    BY <2>1, <2>2 DEF Settled, Live, At, SettledInv, Clients
  <2> DEFINE m == [what |-> script[c].pc, sn |-> sn']
  <2>4. m \in Commands /\ m.what = script[c].pc
    BY <2>1, NetTypes DEF Commands
  <2>5. \A i \in DOMAIN commands' : \/ i \in DOMAIN commands /\ commands'[i] = commands[i]
                                    \/ commands'[i] = m
    <3>1. commands' = Append(commands, m)
        BY <2>1
    <3> HIDE DEF m
    <3> QED BY <2>4, <3>1, NetTypes, AppendFacts
  <2>6. Settled => script[c].pc # "sync"
    <3>1. \A d \in Acquirers : d = c
        BY DEF OneAcquirer
    <3> QED BY <2>1, <3>1 DEF Settled, Live, SettledInv, At
  <2> HIDE DEF m
  <2> QED BY <2>1, <2>3, <2>4, <2>5, <2>6 DEF SettledInv
<1>3. CASE /\ ~AcqOnOff(c) /\ ~SendCommand(c)
  <2>1. UNCHANGED <<commands, wire, sync, hasWorker, die, poll>>
    BY <1>3 DEF Script, SetMinimumFrameID, AcquisitionStopped, Synchronize, FirstFrame, BeginStep,
       NextBlock, WriteFrame, ReadCurrent, SetReadPointer, Kill, serverVars, modeVars, netVars,
       clockVars, pollVars
  <2>2. PICK g : Moved(c, g)
    BY <1>3, GoesEffect DEF Script
  <2>3. g.pc \notin {"on", "sync"}
    <3>1. CASE AcquisitionStopped(c) \/ Kill(c)
        BY <2>2, <3>1, GoesEffect DEF Moved, EndedScript, NewScript
    <3>2. CASE ~AcquisitionStopped(c) /\ ~Kill(c)
        BY <1>3, <2>2, <3>2, ScriptPlaces DEF Script, Moved, EndedScript, NewScript
    <3> QED BY <3>1, <3>2
  <2> QED BY <1>0, <2>1, <2>2, <2>3, SettledMoved
<1> QED BY <1>1, <1>2, <1>3

LEMMA NextSettled ==
    OneAcquirer /\ ServerInv /\ NetInv /\ SettledInv /\ [Next]_vars => SettledInv'
<1> SUFFICES ASSUME OneAcquirer, ServerInv, NetInv, SettledInv, [Next]_vars
             PROVE  SettledInv'
    OBVIOUS
<1>1. CASE FrontEnd \/ Worker \/ Poll
    BY <1>1, FrontEndSettled, WorkerSettled, PollSettled
<1>2. ASSUME NEW c \in Acquirers, Script(c) \/ Kill(c)
      PROVE  SettledInv'
    BY <1>2, ScriptSettled
<1>3. CASE AcqOnOff(Stopper)
  <2>1. /\ UNCHANGED <<commands, wire, sync, hasWorker, script>>
        /\ poll' = "joinOff" /\ (hasWorker => die')
    BY <1>3 DEF AcqOnOff, netVars, clockVars, scriptVars, At, ServerInv, PollInv
  <2> QED BY <2>1, SettledKept DEF Settled, Live, At, SettledInv
<1>4. ASSUME NEW c \in Clients, StartScript(c)
      PROVE  SettledInv'
  <2>1. UNCHANGED <<commands, wire, sync, hasWorker, die, poll>>
    BY <1>4 DEF StartScript, serverVars, modeVars, netVars, clockVars, pollVars
  <2>2. Moved(c, NewScript) /\ NewScript.pc = "off"
    BY <1>4, ScriptTypes DEF StartScript, Moved, ServerInv, TypeInv, NewScript
  <2> QED BY <2>1, <2>2, SettledMoved
<1>5. CASE UNCHANGED vars
  <2>1. UNCHANGED <<commands, wire, sync, hasWorker, die, poll, script>>
    BY <1>5 DEF vars, modeVars, netVars, clockVars, pollVars, scriptVars
  <2> QED BY <2>1, SettledKept DEF Settled, Live, At, SettledInv
<1> QED BY <1>1, <1>2, <1>3, <1>4, <1>5 DEF Next

LEMMA InitSettled == Init => SettledInv
BY DEF Init, SettledInv

-----------------------------------------------------------------------------
\* The slots of the ring.

TurnOf(n) == IF n < QueueSize THEN n
             ELSE IF n < 2 * QueueSize THEN n - QueueSize
             ELSE IF n < 3 * QueueSize THEN n - 2 * QueueSize
             ELSE n - 3 * QueueSize

LEMMA Turn == \A n \in 0 .. 4 * QueueSize - 1 : n % QueueSize = TurnOf(n)
BY Sizes DEF TurnOf

\* The slot of a pointer is that of its distance; while the ring is not full, the
\* next slot to be written is none of those that are filled.
LEMMA RingSlots ==
    ASSUME ServerInv
    PROVE  /\ \A p \in Pointers : (rd + Ahead(rd, p)) % QueueSize = p % QueueSize
           /\ Held < QueueSize =>
                \A k \in 0 .. Held - 1 : (rd + k) % QueueSize # wr % QueueSize
<1>1. wr \in Pointers /\ rd \in Pointers /\ Held \in Pointers
    BY AheadRange DEF ServerInv, TypeInv, Held
<1>2. ASSUME NEW p \in Pointers
      PROVE  (rd + Ahead(rd, p)) % QueueSize = p % QueueSize
  <2>1. Ahead(rd, p) = IF rd <= p THEN p - rd ELSE p - rd + 2 * QueueSize
    BY DEF Ahead
  <2>2. rd + Ahead(rd, p) = IF rd <= p THEN p ELSE p + 2 * QueueSize
    BY <1>1, <2>1, Sizes
  <2>3. p \in 0 .. 4 * QueueSize - 1 /\ p + 2 * QueueSize \in 0 .. 4 * QueueSize - 1
    BY Sizes
  <2>4. (p + 2 * QueueSize) % QueueSize = p % QueueSize
    <3>1. TurnOf(p + 2 * QueueSize) = TurnOf(p)
        BY Sizes DEF TurnOf
    <3> QED BY <2>3, <3>1, Turn
  <2> QED BY <2>2, <2>4
<1>3. ASSUME Held < QueueSize, NEW k \in 0 .. Held - 1
      PROVE  (rd + k) % QueueSize # wr % QueueSize
  <2>1. rd + k \in 0 .. 4 * QueueSize - 1 /\ wr \in 0 .. 4 * QueueSize - 1
    BY <1>1, <1>3, Sizes
  <2>2. TurnOf(rd + k) # TurnOf(wr)
    BY <1>1, <1>3, Sizes DEF TurnOf, Held, Ahead
  <2> QED BY <2>1, <2>2, Turn
<1> QED BY <1>2, <1>3

-----------------------------------------------------------------------------
\* What a step does to the frames under way while the worker lives.

Still == UNCHANGED <<wr, slots, workerVars, wire, clockVars>>

LEMMA LiveStep ==
    ASSUME ServerInv, Next, Live, Live'
    PROVE  \/ FrontEnd
           \/ Worker
           \/ Still /\ (rd' = rd \/ \E c \in Acquirers : SetReadPointer(c))
<1>1. CASE Poll
  <2>1. ~Join /\ ~Restart /\ ~ReceiveReply
    BY JoinEffect, RestartEffect DEF Live, ReceiveReply
  <2> QED BY <1>1, <2>1 DEF Poll, TakeReply, CommandTimeout, Still, ringVars, netVars
<1>2. ASSUME NEW c \in Clients, AcqOnOff(c)
      PROVE  FALSE
    BY <1>2 DEF AcqOnOff, Live
<1>3. ASSUME NEW c \in Acquirers, Script(c) \/ Kill(c)
      PROVE  Still /\ (rd' = rd \/ SetReadPointer(c))
  <2>1. CASE SetReadPointer(c)
    BY <2>1 DEF SetReadPointer, Still, netVars
  <2>2. CASE SendCommand(c) \/ SetMinimumFrameID(c)
    BY <2>2 DEF SendCommand, SetMinimumFrameID, Still, ringVars, netVars
  <2>3. CASE Kill(c) \/ AcquisitionStopped(c) \/ Synchronize(c) \/ FirstFrame(c)
             \/ BeginStep(c) \/ NextBlock(c) \/ WriteFrame(c) \/ ReadCurrent(c)
    BY <2>3 DEF Kill, AcquisitionStopped, Synchronize, FirstFrame, BeginStep, NextBlock,
       WriteFrame, ReadCurrent, Still, serverVars, ringVars, netVars
  <2> QED BY <1>2, <1>3, <2>1, <2>2, <2>3 DEF Script, Clients
<1>4. ASSUME NEW c \in Clients, StartScript(c)
      PROVE  Still /\ rd' = rd
    BY <1>4 DEF StartScript, Still, serverVars, ringVars, netVars
<1> QED BY <1>1, <1>2, <1>3, <1>4 DEF Next, Clients

\* The worker begins with an empty ring and no datagram.
LEMMA BecomesLive ==
    ASSUME ServerInv, [Next]_vars, ~Live, Live'
    PROVE  Held' = 0 /\ packet' = NoPacket /\ slot' = NoSlot
<1>1. Restart
  <2>1. ASSUME NEW c \in Clients, AcqOnOff(c)
        PROVE  FALSE
    BY <2>1 DEF AcqOnOff, Live
  <2>2. CASE UNCHANGED vars
    BY <2>2 DEF vars, modeVars, Live
  <2>3. CASE FrontEnd \/ Worker
    BY <2>3 DEF FrontEnd, FrameSent, CommandArrives, Worker, WorkerEnds, WorkerReply,
       WorkerData, WorkerSlot, WorkerCopy, WorkerPush, modeVars, Live
  <2>4. CASE Poll
    BY <2>4 DEF Poll, Join, TakeReply, ReceiveReply, CommandTimeout, modeVars, Live
  <2>5. ASSUME NEW c \in Acquirers, Script(c) \/ Kill(c)
        PROVE  FALSE
    BY <2>1, <2>5 DEF Script, SendCommand, SetMinimumFrameID, SetReadPointer, Kill,
       AcquisitionStopped, Synchronize, FirstFrame, BeginStep, NextBlock, WriteFrame,
       ReadCurrent, serverVars, modeVars, Live, Clients
  <2>6. ASSUME NEW c \in Clients, StartScript(c)
        PROVE  FALSE
    BY <2>6 DEF StartScript, serverVars, modeVars, Live
  <2> QED BY <2>1, <2>2, <2>3, <2>4, <2>5, <2>6 DEF Next, Clients
<1>2. /\ wr' = 0 /\ rd' = 0 /\ packet' = packet /\ slot' = slot
      /\ worker = "none"
    BY <1>1, RestartEffect DEF ResetPointers, ServerInv, WorkerInv
<1> QED BY <1>2 DEF Held, Ahead, ServerInv, WorkerInv

\* No synchronisation takes place while the worker lives.
LEMMA SyncKept ==
    ASSUME ServerInv, SettledInv, [Next]_vars, Live
    PROVE  sync' = sync
<1>1. CASE CommandArrives
  <2>1. commands # <<>> /\ commands \in Seq(Commands)
    BY <1>1 DEF CommandArrives, ServerInv, TypeInv
  <2>2. 1 \in DOMAIN commands /\ Head(commands) = commands[1]
    BY <2>1
  <2>3. Head(commands).what # "sync"
    BY <2>2 DEF SettledInv, Settled
  <2> QED BY <1>1, <2>3 DEF CommandArrives, clockVars
<1>2. CASE FrameSent
    BY <1>2 DEF FrameSent
<1>3. CASE Worker \/ Poll \/ UNCHANGED vars
    BY <1>3 DEF Worker, WorkerEnds, WorkerReply, WorkerData, WorkerSlot, WorkerCopy, WorkerPush,
       Poll, Join, Restart, TakeReply, ReceiveReply, CommandTimeout, vars, clockVars
<1>4. ASSUME NEW c \in Clients, Script(c) \/ Kill(c) \/ StartScript(c) \/ AcqOnOff(c)
      PROVE  sync' = sync
    BY <1>4 DEF Script, AcqOnOff, SendCommand, SetMinimumFrameID, SetReadPointer, Kill,
       AcquisitionStopped, Synchronize, FirstFrame, BeginStep, NextBlock, WriteFrame,
       ReadCurrent, StartScript, serverVars, clockVars
<1> QED BY <1>1, <1>2, <1>3, <1>4 DEF Next, FrontEnd, Clients

LEMMA FrontEndSent ==
    ASSUME ServerInv, SettledInv, FrontEnd, Live
    PROVE  Sent \subseteq Sent'
<1> SUFFICES ASSUME NEW f \in Sent
             PROVE  f \in Sent'
    OBVIOUS
<1>1. /\ f \in Frames /\ f.sync = sync /\ f.id < now
      /\ \A i \in DOMAIN wire : IsData(wire[i]) => Later(f, wire[i].frame)
    BY DEF Sent
<1>2. sync' = sync
    BY SyncKept DEF Next
<1>3. CASE FrameSent
  <2> DEFINE p == [type |-> "data", frame |-> Frame(sync, now)]
  <2>1. p \in Data /\ Arrive(p) /\ now' = now + 1
    BY <1>3, Sizes DEF FrameSent, Data, Frame, ServerInv, TypeInv
  <2>2. Later(f, p.frame)
    BY <1>1 DEF Later, Frame
  <2> HIDE DEF p
  <2>3. \A i \in DOMAIN wire' : IsData(wire'[i]) => Later(f, wire'[i].frame)
    BY <1>1, <2>1, <2>2, ArriveEffect
  <2>4. f.id < now'
    <3>1. f.id \in Int
        BY <1>1, Sizes DEF Frames, Torn, Frame
    <3> QED BY <1>1, <2>1, <3>1 DEF ServerInv, TypeInv
  <2> QED BY <1>1, <1>2, <2>3, <2>4 DEF Sent
<1>4. CASE CommandArrives
  <2>1. Head(commands) \in Commands
    BY <1>4, HeadTail DEF CommandArrives, ServerInv, TypeInv
  <2>2. PICK t \in Frames \ {Torn} :
          Arrive([type |-> "reply", sn |-> Head(commands).sn, tag |-> t])
    <3>1. ASSUME NEW lag \in 0 .. MaxLag
          PROVE  Frame(sync, now + lag) \in Frames \ {Torn}
      <4>1. sync \in Nat /\ now + lag \in 0 .. MaxFrame + MaxLag
        BY Sizes DEF ServerInv, TypeInv
      <4> QED BY <4>1, FrameTypes
    <3> QED BY <1>4, <3>1, FrameTypes DEF CommandArrives
  <2> DEFINE p == [type |-> "reply", sn |-> Head(commands).sn, tag |-> t]
  <2>3. p \in Replies /\ ~IsData(p)
    BY <2>1 DEF Replies, Commands, IsData
  <2>4. Arrive(p)
    BY <2>2
  <2> HIDE DEF p
  <2>5. \A i \in DOMAIN wire' : IsData(wire'[i]) => Later(f, wire'[i].frame)
    BY <1>1, <2>3, <2>4, ArriveEffect
  <2>6. now' = now
    BY <1>2, <1>4 DEF CommandArrives, clockVars, ServerInv, TypeInv
  <2> QED BY <1>1, <1>2, <2>5, <2>6 DEF Sent
<1> QED BY <1>3, <1>4 DEF FrontEnd

\* Taking the head off the wire leaves what comes before the rest.
LEMMA SentTaken ==
    ASSUME ServerInv, wire # <<>>, wire' = Tail(wire), UNCHANGED clockVars
    PROVE  Sent \subseteq Sent'
<1>1. \A i \in DOMAIN wire' : i + 1 \in DOMAIN wire /\ wire'[i] = wire[i + 1]
    BY NetTypes, HeadTail
<1> QED BY <1>1 DEF Sent, clockVars

LEMMA WorkerFlow ==
    ASSUME ServerInv, NetInv, SettledInv, PacketInv, Worker, Live
    PROVE  PacketInv' /\ Past \subseteq Past'
<1>1. ~WorkerEnds
    BY DEF WorkerEnds, Live
<1>2. CASE WorkerReply
  <2>1. Sent \subseteq Sent' /\ packet' = packet
    BY <1>2, SentTaken DEF WorkerReply, workerVars
  <2> QED BY <2>1 DEF Past, PacketInv
<1>3. CASE WorkerData
  <2>1. wire # <<>> /\ wire' = Tail(wire) /\ UNCHANGED clockVars
    BY <1>3 DEF WorkerData
  <2>2. /\ Head(wire) = wire[1] /\ 1 \in DOMAIN wire /\ IsData(wire[1])
        /\ \A i \in DOMAIN wire' : /\ i \in Nat \ {0}
                                   /\ i + 1 \in DOMAIN wire /\ wire'[i] = wire[i + 1]
    BY <1>3, <2>1, NetTypes, HeadTail DEF WorkerData, IsData
  <2>3. packet' \in {Head(wire), NoPacket}
    BY <1>3 DEF WorkerData, ServerInv, WorkerInv
  <2>4. wire[1].frame \in Sent'
    <3>1. wire[1].frame \in Frames
        BY <2>2, NetTypes, DatagramFields
    <3>2. wire[1].frame.sync = sync
        BY <2>2 DEF SettledInv, Settled
    <3>3. wire[1].frame.id < now
        BY <2>2, <3>2 DEF NetInv, WireInv
    <3>4. ASSUME NEW i \in DOMAIN wire', IsData(wire'[i])
          PROVE  Later(wire[1].frame, wire'[i].frame)
      <4>1. 1 < i + 1 /\ i + 1 \in DOMAIN wire /\ IsData(wire[i + 1])
        BY <2>2, <3>4
      <4>2. wire[i + 1].frame.sync = sync
        BY <4>1 DEF SettledInv, Settled
      <4>3. wire[1].frame.id < wire[i + 1].frame.id
        BY <2>2, <3>2, <4>1, <4>2 DEF NetInv, WireInv
      <4> QED BY <2>2, <3>2, <4>2, <4>3 DEF Later
    <3> QED BY <2>1, <3>1, <3>2, <3>3, <3>4 DEF Sent, clockVars
  <2>5. PacketInv'
    BY <2>2, <2>3, <2>4 DEF PacketInv
  <2>6. \A f \in Sent : Later(f, wire[1].frame)
    BY <2>2 DEF Sent
  <2> QED BY <2>1, <2>2, <2>3, <2>5, <2>6, SentTaken DEF Past
<1>4. CASE WorkerSlot \/ WorkerCopy \/ WorkerPush
  <2>1. UNCHANGED <<wire, clockVars>> /\ packet' \in {packet, NoPacket}
    BY <1>4 DEF WorkerSlot, WorkerCopy, WorkerPush, netVars
  <2>2. Sent' = Sent
    BY <2>1 DEF Sent, clockVars
  <2>3. UNCHANGED modeVars
    BY <1>4 DEF WorkerSlot, WorkerCopy, WorkerPush
  <2>4. Live' <=> Live
    BY <2>3 DEF modeVars, Live
  <2> QED BY <2>1, <2>2, <2>4 DEF Past, PacketInv
<1> QED BY <1>1, <1>2, <1>3, <1>4 DEF Worker

LEMMA PastKept ==
    ASSUME ServerInv, NetInv, SettledInv, PacketInv, [Next]_vars, Live
    PROVE  PacketInv' /\ (Live' => Past \subseteq Past')
<1> SUFFICES ASSUME Live'
             PROVE  PacketInv' /\ Past \subseteq Past'
    BY DEF PacketInv
<1>1. CASE FrontEnd
  <2>1. packet' = packet
    BY <1>1 DEF FrontEnd, FrameSent, CommandArrives, workerVars
  <2> QED BY <1>1, <2>1, FrontEndSent DEF PacketInv, Past
<1>2. CASE Worker
    BY <1>2, WorkerFlow
<1>3. CASE Still \/ UNCHANGED vars
    BY <1>3 DEF Still, vars, netVars, workerVars, clockVars, PacketInv, Past, Sent
<1> QED BY <1>1, <1>2, <1>3, LiveStep

\* The ring loses its first d frames, or gains one.
Released(d) ==
    /\ d \in 0 .. Held
    /\ Held' = Held - d
    /\ \A k \in 0 .. Held - d - 1 : Ring(k)' = Ring(k + d)

Grown ==
    /\ worker = "push" /\ slot # NoSlot /\ packet # NoPacket
    /\ Held' = Held + 1
    /\ \A k \in 0 .. Held : Ring(k)' = IF k = Held THEN packet.frame ELSE Ring(k)

LEMMA RingTypes ==
    ASSUME ServerInv
    PROVE  /\ wr \in Pointers /\ rd \in Pointers
           /\ Held \in Nat /\ Held <= 2 * QueueSize - 1
           /\ \A k \in Nat : (rd + k) % QueueSize \in Slots /\ Ring(k) \in Frames
           /\ slots \in [Slots -> Frames]
<1>1. wr \in Pointers /\ rd \in Pointers /\ slots \in [Slots -> Frames] /\ Held \in Pointers
    BY AheadRange DEF ServerInv, TypeInv, Held
<1>2. \A k \in Nat : (rd + k) % QueueSize \in Slots
  <2>1. \A k \in Nat : rd + k \in Nat
    BY <1>1, PointerTypes
  <2> QED BY <2>1, PointerTypes
<1> QED BY <1>1, <1>2, Sizes DEF Ring

\* Nothing but the slot in hand is written.
LEMMA RingUntouched ==
    ASSUME ServerInv, UNCHANGED <<wr, rd>>,
           \A i \in Slots : slots'[i] # slots[i] => i = wr % QueueSize /\ Held < QueueSize
    PROVE  Released(0)
<1>1. Held' = Held
    BY DEF Held, Ahead
<1>2. ASSUME NEW k \in 0 .. Held - 1
      PROVE  Ring(k)' = Ring(k + 0)
  <2>1. (rd + k) % QueueSize \in Slots /\ k \in Nat
    BY <1>2, RingTypes
  <2>2. slots'[(rd + k) % QueueSize] = slots[(rd + k) % QueueSize]
    BY <1>2, <2>1, RingSlots
  <2> QED BY <2>1, <2>2 DEF Ring
<1> QED BY <1>1, <1>2, RingTypes DEF Released

LEMMA WorkerRingFlow ==
    ASSUME RInv, SlotInv, Worker, Live
    PROVE  /\ SlotInv'
           /\ Released(0) \/ (Grown /\ WorkerPush)
<1> USE DEF RInv
<1>1. rd' = rd /\ (Live' <=> Live)
  <2>1. rd' = rd /\ UNCHANGED modeVars
    BY DEF Worker, WorkerEnds, WorkerReply, WorkerData, WorkerSlot, WorkerCopy, WorkerPush,
       ringVars
  <2> QED BY <2>1 DEF modeVars, Live
<1>2. CASE WorkerEnds \/ WorkerReply \/ WorkerData
  <2>1. UNCHANGED <<wr, rd, slots, slot>> /\ slot = NoSlot
    BY <1>2 DEF WorkerEnds, WorkerReply, WorkerData, ringVars, workerVars, ServerInv, WorkerInv
  <2> QED BY <2>1, RingUntouched DEF SlotInv
<1>3. CASE WorkerSlot
  <2>1. /\ UNCHANGED <<wr, rd>> /\ worker' = "copy"
        /\ slot' = IF isFull THEN NoSlot ELSE wr % QueueSize
        /\ slots' = [i \in Slots |-> IF i = slot' THEN Torn ELSE slots[i]]
    BY <1>1, <1>3 DEF WorkerSlot
  <2>2. ~isFull => Held < QueueSize
    BY RingTypes, FullRing, Sizes DEF RingInv, Live
  <2>3. \A i \in Slots : slots'[i] # slots[i] => i = slot'
    BY <2>1
  <2>4. NoSlot \notin Slots
    BY Sizes DEF NoSlot
  <2>5. Released(0)
    BY <2>1, <2>2, <2>3, <2>4, RingUntouched
  <2> QED BY <2>1, <2>5 DEF SlotInv
<1>4. CASE WorkerCopy
  <2>1. /\ UNCHANGED <<wr, rd>>
        /\ slots' = [i \in Slots |-> IF i = slot THEN packet.frame ELSE slots[i]]
        /\ worker' = "push" => UNCHANGED <<packet, slot>>
        /\ worker' # "push" => slot' = NoSlot
    BY <1>1, <1>4 DEF WorkerCopy
  <2>2. slot # NoSlot => slot \in Slots /\ slot = wr % QueueSize /\ Held < QueueSize
    BY DEF SlotInv, RingInv, ServerInv, TypeInv
  <2>3. NoSlot \notin Slots
    BY Sizes DEF NoSlot
  <2>4. \A i \in Slots : slots'[i] # slots[i] => i = slot
    BY <2>1
  <2>5. Released(0)
    BY <2>1, <2>2, <2>3, <2>4, RingUntouched
  <2>6. worker' = "push" /\ slot' # NoSlot => slots'[slot'] = packet'.frame
    BY <2>1, <2>2
  <2> QED BY <2>1, <2>2, <2>5, <2>6 DEF SlotInv
<1>5. CASE WorkerPush
  <2>1. /\ slots' = slots /\ slot' = NoSlot /\ worker = "push"
        /\ wr' = IF slot = NoSlot THEN wr ELSE (wr + 1) % (2 * QueueSize)
    BY <1>5 DEF WorkerPush
  <2>2. CASE slot = NoSlot
    BY <1>1, <2>1, <2>2, RingUntouched DEF SlotInv
  <2>3. CASE slot # NoSlot
    <3>1. Held < QueueSize /\ slots[wr % QueueSize] = packet.frame /\ packet # NoPacket
        BY <2>1, <2>3 DEF SlotInv, RingInv, ServerInv, WorkerInv
    <3>2. Held' = Held + 1
      <4>1. Ahead(rd, wr) < 2 * QueueSize - 1 /\ wr \in Pointers /\ rd \in Pointers
        BY <3>1, RingTypes, Sizes DEF Held
      <4> QED BY <1>1, <2>1, <2>3, <4>1, AheadNext DEF Held, Ahead
    <3>3. (rd + Held) % QueueSize = wr % QueueSize
        BY RingTypes, RingSlots DEF Held
    <3>4. ASSUME NEW k \in 0 .. Held
          PROVE  Ring(k)' = IF k = Held THEN packet.frame ELSE Ring(k)
        BY <1>1, <2>1, <3>1, <3>3 DEF Ring
    <3> QED BY <1>5, <2>1, <2>3, <3>1, <3>2, <3>4 DEF Grown, SlotInv
  <2> QED BY <2>2, <2>3
<1> QED BY <1>2, <1>3, <1>4, <1>5 DEF Worker

\* The slots that follow a pointer are those that follow one before it.
LEMMA TurnRest ==
    ASSUME NEW a \in Pointers, NEW b \in Pointers, NEW k \in Nat,
           k + Ahead(a, b) < 2 * QueueSize
    PROVE  (b + k) % QueueSize = (a + (k + Ahead(a, b))) % QueueSize
<1>1. a + (k + Ahead(a, b)) = b + k \/ a + (k + Ahead(a, b)) = (b + k) + 2 * QueueSize
    BY Sizes DEF Ahead
<1>2. Ahead(a, b) \in Nat
    BY AheadRange, Sizes
<1>3. b + k \in 0 .. 4 * QueueSize - 1 /\ a + (k + Ahead(a, b)) \in 0 .. 4 * QueueSize - 1
    BY <1>2, Sizes
<1>4. TurnOf(a + (k + Ahead(a, b))) = TurnOf(b + k)
    BY <1>1, <1>2, <1>3, Sizes DEF TurnOf
<1> QED BY <1>3, <1>4, Turn

\* A script gives back the frames that it has read.
LEMMA ReleasedByScript ==
    ASSUME RInv, NEW c \in Acquirers, SetReadPointer(c), Live
    PROVE  Released(Done(script[c]))
<1> USE DEF RInv
<1> DEFINE s == script[c]
<1>1. /\ rd' = Unread(s) /\ rd' \in Pointers /\ UNCHANGED <<wr, slots>>
  <2>1. rd' = IF s.pc = "flush" THEN s.last ELSE s.first
    BY SetReadPointerEffect DEF At
  <2>2. s.pc \in {"flush", "step0", "release", "end"}
    BY DEF SetReadPointer, At
  <2>3. s.pc \in {"step0", "end"} => s.first = rd
    BY DEF ReaderInv, Reader
  <2> QED BY <2>1, <2>2, <2>3, SetReadPointerEffect DEF Unread
<1>2. Done(s) <= Held /\ Done(s) = Ahead(rd, rd')
    BY <1>1 DEF ReaderInv, Reader, Done
<1>3. PICK d : d = Done(s)
    OBVIOUS
<1>4. /\ wr \in Pointers /\ rd \in Pointers /\ rd' \in Pointers
      /\ d \in Pointers /\ d = Ahead(rd, rd') /\ d <= Held /\ Held \in Pointers
    BY <1>1, <1>2, <1>3, RingTypes, AheadRange DEF Held
<1>5. Held' = Held - d
  <2>1. Held' = Ahead(rd', wr)
    BY <1>1 DEF Held, Ahead
  <2> QED BY <1>4, <2>1, AheadRest DEF Held
<1>6. ASSUME NEW k \in 0 .. Held - d - 1
      PROVE  Ring(k)' = Ring(k + d)
  <2>1. (rd' + k) % QueueSize = (rd + (k + d)) % QueueSize
    <3>1. k \in Nat /\ k + Ahead(rd, rd') < 2 * QueueSize
        BY <1>4, <1>6, Sizes
    <3> QED BY <1>4, <3>1, TurnRest
  <2> QED BY <1>1, <2>1 DEF Ring
<1>7. d \in 0 .. Held
    BY <1>4, Sizes
<1> QED BY <1>3, <1>5, <1>6, <1>7 DEF Released

LEMMA RingFlow ==
    ASSUME RInv, SlotInv, [Next]_vars, Live
    PROVE  /\ SlotInv'
           /\ Live' => \/ rd' = rd /\ Released(0)
                       \/ rd' = rd /\ Grown /\ WorkerPush
                       \/ \E c \in Acquirers : SetReadPointer(c) /\ Released(Done(script[c]))
<1> USE DEF RInv
<1> SUFFICES ASSUME Live'
             PROVE  /\ SlotInv'
                    /\ \/ rd' = rd /\ Released(0)
                       \/ rd' = rd /\ Grown /\ WorkerPush
                       \/ \E c \in Acquirers :
                            SetReadPointer(c) /\ Released(Done(script[c]))
    BY DEF SlotInv
<1>1. CASE Worker
  <2>1. rd' = rd
    BY <1>1 DEF Worker, WorkerEnds, WorkerReply, WorkerData, WorkerSlot, WorkerCopy, WorkerPush,
       ringVars
  <2> QED BY <1>1, <2>1, WorkerRingFlow
<1>2. CASE UNCHANGED <<wr, slots, workerVars>> /\ rd' = rd
    BY <1>2, RingUntouched DEF SlotInv, workerVars
<1>3. CASE FrontEnd
  <2>1. UNCHANGED <<wr, slots, workerVars>> /\ rd' = rd
    BY <1>3 DEF FrontEnd, FrameSent, CommandArrives, ringVars
  <2> QED BY <1>2, <2>1
<1>4. CASE Still /\ \E c \in Acquirers : SetReadPointer(c)
    BY <1>4, ReleasedByScript DEF Still, workerVars, SlotInv
<1>5. CASE UNCHANGED vars
    BY <1>2, <1>5 DEF vars, ringVars
<1> QED BY <1>1, <1>2, <1>3, <1>4, <1>5, LiveStep DEF Still

LEMMA NextFlow ==
    ASSUME RInv, NetInv, SettledInv, FlowInv, [Next]_vars
    PROVE  FlowInv'
<1> USE DEF FlowInv
<1>1. CASE ~Live'
    BY <1>1 DEF PacketInv, SlotInv, OrderInv
<1>2. CASE ~Live /\ Live'
  <2>1. Held' = 0 /\ packet' = NoPacket /\ slot' = NoSlot
    BY <1>2, BecomesLive DEF RInv
  <2> QED BY <2>1 DEF PacketInv, SlotInv, OrderInv, NoSlot
<1>3. CASE Live /\ Live'
  <2>1. PacketInv' /\ Past \subseteq Past'
    BY <1>3, PastKept DEF RInv
  <2>2. SlotInv'
    BY <1>3, RingFlow
  <2>3. /\ Held \in Nat
        /\ \A k \in 0 .. Held - 1 : /\ Ring(k) \in Past
                                    /\ \A l \in 0 .. Held - 1 : k < l => Later(Ring(k), Ring(l))
    BY <1>3, RingTypes DEF OrderInv, RInv
  <2>4. ASSUME NEW d \in 0 .. Held, Released(d)
        PROVE  OrderInv'
    <3>1. ASSUME NEW k \in 0 .. Held - d - 1
          PROVE  Ring(k)' = Ring(k + d) /\ k + d \in 0 .. Held - 1
        BY <2>3, <2>4, <3>1 DEF Released
    <3>2. ASSUME NEW k \in 0 .. Held - d - 1
          PROVE  Ring(k)' \in Past'
        BY <2>1, <2>3, <3>1, <3>2
    <3>3. ASSUME NEW k \in 0 .. Held - d - 1, NEW l \in 0 .. Held - d - 1, k < l
          PROVE  Later(Ring(k), Ring(l))'
      <4>1. Later(Ring(k + d), Ring(l + d))
        BY <2>3, <3>1, <3>3
      <4> QED BY <3>1, <3>3, <4>1 DEF Later
    <3> QED BY <2>4, <3>2, <3>3 DEF OrderInv, Released
  <2>5. ASSUME Grown, WorkerPush
        PROVE  OrderInv'
    <3>1. /\ Held' = Held + 1
          /\ \A k \in 0 .. Held : Ring(k)' = IF k = Held THEN packet.frame ELSE Ring(k)
          /\ packet # NoPacket
        BY <2>5 DEF Grown
    <3>2. packet.frame \in Past'
      <4>1. packet.frame \in Sent
        BY <1>3, <3>1 DEF PacketInv
      <4>2. Sent' = Sent /\ packet' = NoPacket
        BY <2>5 DEF WorkerPush, netVars, clockVars, Sent
      <4> QED BY <4>1, <4>2 DEF Past
    <3>3. ASSUME NEW k \in 0 .. Held
          PROVE  Ring(k)' \in Past'
        BY <2>1, <2>3, <3>1, <3>2, <3>3
    <3>4. ASSUME NEW k \in 0 .. Held, NEW l \in 0 .. Held, k < l
          PROVE  Later(Ring(k), Ring(l))'
      <4>1. k \in 0 .. Held - 1 /\ Ring(k)' = Ring(k)
        BY <2>3, <3>1, <3>4
      <4>2. Later(Ring(k), packet.frame)
        BY <2>3, <3>1, <4>1 DEF Past
      <4>3. CASE l \in 0 .. Held - 1
        <5>1. Later(Ring(k), Ring(l)) /\ Ring(l)' = Ring(l)
            BY <2>3, <3>1, <3>4, <4>1, <4>3
        <5> QED BY <4>1, <5>1 DEF Later
      <4>4. CASE l = Held
        <5>1. Ring(l)' = packet.frame
            BY <3>1, <4>4
        <5> QED BY <4>1, <4>2, <5>1 DEF Later
      <4> QED BY <2>3, <4>3, <4>4
    <3> QED BY <2>3, <3>1, <3>3, <3>4 DEF OrderInv
  <2> QED BY <2>1, <2>2, <2>4, <2>5, RingFlow, <1>3 DEF Released
<1> QED BY <1>1, <1>2, <1>3

-----------------------------------------------------------------------------
\* The scripts beside the server.

\* An answer moves a script on before it has read anything; the time tag that it
\* takes over is of the current synchronisation.
LEMMA PollMoves ==
    ASSUME ServerInv, NetInv, Poll, NEW c \in Clients
    PROVE  \/ script'[c] \in {script[c], EndedScript}
           \/ /\ c \in Acquirers /\ script'[c].file = script[c].file
              /\ \/ At(c, {"off"}) /\ At(c, {"sync"})'
                 \/ At(c, {"sync"}) /\ At(c, {"on"})'
                 \/ Restart /\ At(c, {"on"}) /\ At(c, {"tag"})'
                 \/ /\ At(c, {"tag"}) /\ At(c, {"min"})'
                    /\ hasWorker => script'[c].target.sync = sync
<1>1. /\ script[c] \in Scripts /\ script[c] = script[c]
      /\ poll # "idle"
    BY DEF ServerInv, TypeInv, Poll, Join, Restart, TakeReply, ReceiveReply, CommandTimeout
<1>2. client \in Clients /\ script[client] \in Scripts
    BY <1>1, ClientThere
<1>3. ASSUME NEW p \in {"sync", "on", "tag", "min"}
      PROVE  /\ [script[client] EXCEPT !.pc = p].pc = p
             /\ [script[client] EXCEPT !.pc = p].file = script[client].file
    BY <1>2, <1>3 DEF Scripts
<1>4. CASE Join
  <2>1. CASE c # client \/ script'[c] = script[c]
    BY <1>4, <1>2, <2>1, JoinEffect DEF Moved
  <2>2. CASE c = client /\ Moved(client, [script[client] EXCEPT !.pc = "sync"])
    BY <1>3, <1>4, <2>2, JoinEffect DEF Moved, At
  <2> QED BY <1>4, <2>1, <2>2, JoinEffect DEF Moved
<1>5. CASE Restart
  <2>1. CASE c # client \/ script' = script
    BY <1>5, <1>2, <2>1, RestartEffect DEF Moved
  <2>2. CASE c = client /\ Moved(client, [script[client] EXCEPT !.pc = "tag"])
    BY <1>3, <1>5, <2>2, RestartEffect DEF Moved, At
  <2> QED BY <1>5, <2>1, <2>2, RestartEffect
<1>6. CASE CommandTimeout
    BY <1>2, <1>6, TimeoutEffect DEF Moved
<1>7. CASE TakeReply \/ ReceiveReply
  <2>1. PICK p \in Data \cup Replies :
          /\ Accept(p)
          /\ hasWorker => replyQueue # <<>> /\ p = Head(replyQueue)
    <3>1. CASE TakeReply
        BY <3>1, HeadTail DEF TakeReply, ServerInv, TypeInv
    <3>2. CASE ReceiveReply
        BY <3>2, HeadTail DEF ReceiveReply, ServerInv, TypeInv
    <3> QED BY <1>7, <3>1, <3>2
  <2>2. poll = "reply" /\ client \in Acquirers
    BY <1>1, <1>7, ClientThere DEF TakeReply, ReceiveReply
  <2>3. ASSUME At(client, {"tag"}), Expected(p), hasWorker
        PROVE  p.tag.sync = sync
    <3>1. p = replyQueue[1] /\ 1 \in DOMAIN replyQueue
        BY <2>1, <2>3, NetTypes, HeadTail
    <3> QED BY <2>2, <2>3, <3>1 DEF NetInv, TagInv, Expected, At
  <2>4. CASE c # client \/ script' = script
    BY <1>2, <2>1, <2>2, <2>4, AcceptEffect DEF Moved
  <2>5. ASSUME NEW q \in {"on", "min"}, c = client,
               Moved(client, [script[client] EXCEPT !.pc = q, !.target = p.tag, !.tries = 0])
        PROVE  /\ script'[c].pc = q /\ script'[c].target = p.tag
               /\ script'[c].file = script[c].file
    BY <1>2, <2>5 DEF Moved, Scripts
  <2>6. CASE c = client /\ script' # script
    BY <2>1, <2>2, <2>3, <2>5, <2>6, AcceptEffect DEF At
  <2> QED BY <2>4, <2>6
<1> QED BY <1>4, <1>5, <1>6, <1>7 DEF Poll

\* Only a request to switch acquisition on or off ends the worker.
LEMMA LiveKept ==
    ASSUME ServerInv, [Next]_vars, Live, ~Live'
    PROVE  \E d \in Clients : AcqOnOff(d) /\ (d = Stopper \/ d \in Acquirers)
<1>1. CASE UNCHANGED modeVars
    BY <1>1 DEF modeVars, Live
<1>2. CASE FrontEnd \/ Worker \/ UNCHANGED vars
  <2>1. UNCHANGED modeVars
    BY <1>2 DEF FrontEnd, FrameSent, CommandArrives, Worker, WorkerEnds, WorkerReply,
       WorkerData, WorkerSlot, WorkerCopy, WorkerPush, vars
  <2> QED BY <1>1, <2>1
<1>3. CASE Poll
  <2>1. ~Join /\ ~Restart
    BY JoinEffect, RestartEffect DEF Live
  <2>2. UNCHANGED modeVars
    BY <1>3, <2>1 DEF Poll, TakeReply, ReceiveReply, CommandTimeout
  <2> QED BY <1>1, <2>2
<1>4. ASSUME NEW c \in Acquirers, Script(c) \/ Kill(c)
      PROVE  AcqOnOff(c)
  <2>1. CASE SetMinimumFrameID(c)
    BY <2>1 DEF SetMinimumFrameID, Live
  <2>2. CASE SendCommand(c) \/ SetReadPointer(c) \/ Kill(c) \/ AcquisitionStopped(c)
             \/ Synchronize(c) \/ FirstFrame(c) \/ BeginStep(c) \/ NextBlock(c)
             \/ WriteFrame(c) \/ ReadCurrent(c)
    <3>1. UNCHANGED modeVars
        BY <2>2 DEF SendCommand, SetReadPointer, Kill, AcquisitionStopped, Synchronize,
           FirstFrame, BeginStep, NextBlock, WriteFrame, ReadCurrent, serverVars
    <3> QED BY <3>1 DEF modeVars, Live
  <2> QED BY <1>4, <2>1, <2>2 DEF Script
<1>5. ASSUME NEW c \in Clients, StartScript(c)
      PROVE  FALSE
  <2>1. UNCHANGED modeVars
    BY <1>5 DEF StartScript, serverVars
  <2> QED BY <2>1 DEF modeVars, Live
<1> QED BY <1>2, <1>3, <1>4, <1>5 DEF Next, Clients

\* A script goes on as one that was not interrupted only beside a living worker.
LEMMA StartedKept ==
    ASSUME OneAcquirer, ServerInv, SettledInv, ScriptInv,
           [HistoryNext]_<<vars, interrupted>>,
           NEW c \in Acquirers, c \notin interrupted', At(c, Started), At(c, Started)'
    PROVE  /\ c \notin interrupted
           /\ Live /\ Live' /\ sync' = sync
           /\ minimum' = minimum \/ SetMinimumFrameID(c)
<1>1. [Next]_vars
    BY HistoryStep
<1>2. Acquiring(c)'
    BY DEF Acquiring, At, Started
<1>3. c \notin interrupted /\ ~(poll' = "joinOff" /\ client' = Stopper /\ HistoryNext)
    BY <1>2 DEF HistoryNext
<1>4. Live
    BY <1>3 DEF ScriptInv
<1>5. ~AcqOnOff(c)
    BY DEF AcqOnOff, At, Started
<1>6. ASSUME AcqOnOff(Stopper)
      PROVE  FALSE
  <2>1. At(Stopper, {"off"})
    BY <1>6 DEF AcqOnOff, At, ServerInv, PollInv
  <2>2. poll' = "joinOff" /\ client' = Stopper /\ poll = "idle" /\ client # Stopper
    BY <1>6, <2>1, FrameAssumption
       DEF AcqOnOff, At, ServerInv, PollInv, Nobody, Clients
  <2>3. ~UNCHANGED <<vars, interrupted>>
    BY <2>2 DEF vars, pollVars
  <2> QED BY <1>3, <2>2, <2>3
<1>7. Live'
    BY <1>1, <1>4, <1>5, <1>6, LiveKept DEF OneAcquirer
<1>8. sync' = sync
    BY <1>1, <1>4, SyncKept
<1>9. minimum' = minimum \/ SetMinimumFrameID(c)
  <2>1. CASE FrontEnd \/ Worker \/ UNCHANGED vars
    <3>1. UNCHANGED modeVars
        BY <2>1 DEF FrontEnd, FrameSent, CommandArrives, Worker, WorkerEnds, WorkerReply,
           WorkerData, WorkerSlot, WorkerCopy, WorkerPush, vars
    <3> QED BY <3>1 DEF modeVars
  <2>2. CASE Poll
    <3>1. ~Join /\ ~Restart
        BY <1>4, JoinEffect, RestartEffect DEF Live
    <3>2. UNCHANGED modeVars
        BY <2>2, <3>1 DEF Poll, TakeReply, ReceiveReply, CommandTimeout
    <3> QED BY <3>2 DEF modeVars
  <2>3. ASSUME NEW d \in Acquirers, Script(d) \/ Kill(d)
        PROVE  minimum' = minimum \/ SetMinimumFrameID(c)
    <3>1. c = d
        BY DEF OneAcquirer
    <3>2. CASE SendCommand(c) \/ SetReadPointer(c) \/ Kill(c) \/ AcquisitionStopped(c)
               \/ Synchronize(c) \/ FirstFrame(c) \/ BeginStep(c) \/ NextBlock(c)
               \/ WriteFrame(c) \/ ReadCurrent(c)
      <4>1. UNCHANGED modeVars
        BY <3>2 DEF SendCommand, SetReadPointer, Kill, AcquisitionStopped, Synchronize,
           FirstFrame, BeginStep, NextBlock, WriteFrame, ReadCurrent, serverVars
      <4> QED BY <4>1 DEF modeVars
    <3> QED BY <1>5, <2>3, <3>1, <3>2 DEF Script
  <2>4. ASSUME NEW d \in Clients, StartScript(d)
        PROVE  minimum' = minimum
    <3>1. UNCHANGED modeVars
        BY <2>4 DEF StartScript, serverVars
    <3> QED BY <3>1 DEF modeVars
  <2> QED BY <1>1, <1>6, <2>1, <2>2, <2>3, <2>4 DEF Next
<1> QED BY <1>3, <1>4, <1>7, <1>8, <1>9

\* A script is changed by an answer, by a step of its own, by its start and its end.
LEMMA ScriptMoves ==
    ASSUME ServerInv, [Next]_vars, NEW c \in Clients
    PROVE  \/ script'[c] \in {script[c], NewScript, EndedScript}
           \/ Poll
           \/ c \in Acquirers /\ Script(c) /\ ~AcqOnOff(c) /\ ~AcquisitionStopped(c)
<1>1. CASE FrontEnd \/ Worker \/ UNCHANGED vars
  <2>1. script' = script
    BY <1>1 DEF FrontEnd, FrameSent, CommandArrives, Worker, WorkerEnds, WorkerReply,
       WorkerData, WorkerSlot, WorkerCopy, WorkerPush, vars, scriptVars
  <2> QED BY <2>1
<1>2. ASSUME NEW d \in Clients, AcqOnOff(d)
      PROVE  script' = script
    BY <1>2 DEF AcqOnOff, scriptVars
<1>3. ASSUME NEW d \in Acquirers, Script(d) \/ Kill(d)
      PROVE  \/ script'[c] \in {script[c], NewScript, EndedScript}
             \/ c \in Acquirers /\ Script(c) /\ ~AcqOnOff(c) /\ ~AcquisitionStopped(c)
  <2>1. CASE AcqOnOff(d)
    BY <1>2, <2>1 DEF Clients
  <2>2. CASE Kill(d) \/ AcquisitionStopped(d)
    <3>1. Moved(d, EndedScript)
        BY <2>2, GoesEffect
    <3> QED BY <3>1 DEF Moved
  <2>3. CASE Script(d) /\ ~AcqOnOff(d) /\ ~AcquisitionStopped(d)
    <3>1. PICK g : Moved(d, g)
      <4>1. SendCommand(d) \/ SetMinimumFrameID(d) \/ Synchronize(d) \/ FirstFrame(d)
            \/ BeginStep(d) \/ NextBlock(d) \/ WriteFrame(d) \/ ReadCurrent(d)
            \/ SetReadPointer(d)
        BY <2>3 DEF Script
      <4> QED BY <4>1, GoesEffect
    <3>2. CASE c # d
        BY <3>1, <3>2 DEF Moved
    <3> QED BY <2>3, <3>2
  <2> QED BY <1>3, <2>1, <2>2, <2>3
<1>4. ASSUME NEW d \in Clients, StartScript(d)
      PROVE  script'[c] \in {script[c], NewScript, EndedScript}
    BY <1>4 DEF StartScript, ServerInv, TypeInv
<1> QED BY <1>1, <1>2, <1>3, <1>4 DEF Next, Clients

\* A script writes only where it reads.
LEMMA WrittenKept ==
    ASSUME ServerInv, NetInv, ScriptInv, [Next]_vars, NEW c \in Clients
    PROVE  script'[c].file # <<>> => At(c, Writing)'
<1>1. script[c].file # <<>> => At(c, Writing)
    BY DEF ScriptInv
<1>2. CASE script'[c] \in {script[c], NewScript, EndedScript}
    BY <1>1, <1>2 DEF At, NewScript, EndedScript
<1>3. CASE Poll
    BY <1>1, <1>2, <1>3, PollMoves DEF At, Writing
<1>4. CASE c \in Acquirers /\ Script(c) /\ ~AcqOnOff(c) /\ ~AcquisitionStopped(c)
  <2>1. CASE Synchronize(c) \/ FirstFrame(c) \/ BeginStep(c) \/ SetMinimumFrameID(c)
             \/ SendCommand(c)
    <3>1. ~At(c, Writing)
        BY <2>1 DEF Synchronize, FirstFrame, BeginStep, SetMinimumFrameID, SendCommand, At,
           Writing
    <3> QED BY <1>1, <1>4, <2>1, <3>1, ScriptPlaces
  <2>2. CASE NextBlock(c) \/ WriteFrame(c) \/ ReadCurrent(c)
    BY <1>4, <2>2, ScriptPlaces DEF At, Writing
  <2>3. CASE SetReadPointer(c)
    <3>1. At(c, {"flush", "step0", "release", "end"})
        BY <2>3 DEF SetReadPointer
    <3> QED BY <1>1, <1>4, <2>3, <3>1, ScriptPlaces DEF At, Writing, EndedScript, NewScript
  <2> QED BY <1>4, <2>1, <2>2, <2>3 DEF Script
<1> QED BY <1>2, <1>3, <1>4, ScriptMoves

\* It has started the worker where the server has.
LEMMA StartedByRestart ==
    ASSUME ServerInv, NetInv, [Next]_vars, NEW c \in Acquirers, At(c, Started)', ~At(c, Started)
    PROVE  Restart /\ At(c, {"tag"})'
<1>1. script'[c] \notin {script[c], NewScript, EndedScript}
    BY DEF At, Started, NewScript, EndedScript
<1>2. ~(Script(c) /\ ~AcqOnOff(c) /\ ~AcquisitionStopped(c))
  <2>1. ~SendCommand(c)
    BY ScriptPlaces DEF At
  <2> QED BY <2>1 DEF Script, SetMinimumFrameID, Synchronize, FirstFrame, BeginStep, NextBlock,
             WriteFrame, ReadCurrent, SetReadPointer, At, Started
<1>3. Poll
    BY <1>1, <1>2, ScriptMoves DEF Clients
<1> QED BY <1>1, <1>3, PollMoves DEF At, Started, Clients

LEMMA NextScript ==
    ASSUME OneAcquirer, ServerInv, NetInv, SettledInv, ScriptInv,
           [HistoryNext]_<<vars, interrupted>>
    PROVE  ScriptInv'
<1>1. [Next]_vars
    BY HistoryStep
<1>2. \A c \in Clients : script'[c].file # <<>> => At(c, Writing)'
    BY <1>1, WrittenKept
<1>3. ASSUME NEW c \in Acquirers, c \notin interrupted', At(c, Started)'
      PROVE  /\ Live'
             /\ At(c, Tagged)' => script'[c].target.sync = sync'
             /\ At(c, Limited)' => minimum' = script'[c].target.id
  <2>1. c \in Clients
    BY DEF Clients
  <2>2. CASE At(c, Started)
    <3>1. /\ c \notin interrupted
          /\ Live /\ Live' /\ sync' = sync
          /\ minimum' = minimum \/ SetMinimumFrameID(c)
        BY <1>3, <2>2, StartedKept
    <3>2. /\ At(c, Tagged) => script[c].target.sync = sync
          /\ At(c, Limited) => minimum = script[c].target.id
        BY <3>1 DEF ScriptInv
    <3>3. CASE script'[c] \in {script[c], NewScript, EndedScript}
      <4>1. script'[c] = script[c]
        BY <1>3, <3>3 DEF At, Started, NewScript, EndedScript
      <4>2. ~SetMinimumFrameID(c)
        BY <4>1, ScriptPlaces DEF SetMinimumFrameID, At
      <4> QED BY <3>1, <3>2, <4>1, <4>2 DEF At
    <3>4. CASE Poll
      <4>1. CASE script'[c] \in {script[c], EndedScript}
        BY <3>3, <4>1
      <4>2. CASE At(c, {"tag"}) /\ At(c, {"min"})' /\ script'[c].target.sync = sync
        BY <3>1, <4>2 DEF At, Limited, Tagged, Started
      <4>3. ~Restart /\ hasWorker
        BY <3>1, RestartEffect DEF Live
      <4> QED BY <2>1, <2>2, <3>4, <4>1, <4>2, <4>3, PollMoves DEF At, Started
    <3>5. CASE Script(c) /\ ~AcqOnOff(c) /\ ~AcquisitionStopped(c)
      <4>1. CASE SetMinimumFrameID(c)
        <5>1. At(c, {"min"}) /\ minimum' = script[c].target.id
            BY <4>1 DEF SetMinimumFrameID
        <5> QED BY <3>1, <3>2, <4>1, <5>1, ScriptPlaces DEF At, Tagged, Started
      <4>2. CASE ~SetMinimumFrameID(c)
        <5>1. /\ script'[c].target = script[c].target
              /\ At(c, Tagged)' => At(c, Tagged)
              /\ At(c, Limited)' => At(c, Limited)
          <6>1. CASE Synchronize(c)
            BY <6>1, ScriptPlaces DEF Synchronize, At, Limited, Tagged, Started
          <6>2. CASE FirstFrame(c)
            BY <6>2, ScriptPlaces DEF FirstFrame, At, Limited, Tagged, Started
          <6>3. CASE BeginStep(c)
            BY <6>3, ScriptPlaces DEF BeginStep, At, Limited, Tagged, Started
          <6>4. CASE NextBlock(c)
            BY <6>4, ScriptPlaces DEF NextBlock, At, Limited, Tagged, Started
          <6>5. CASE WriteFrame(c)
            BY <6>5, ScriptPlaces DEF WriteFrame, At, Limited, Tagged, Started
          <6>6. CASE ReadCurrent(c)
            BY <6>6, ScriptPlaces DEF ReadCurrent, At, Limited, Tagged, Started
          <6>7. CASE SendCommand(c)
            BY <6>7, ScriptPlaces DEF SendCommand, At, Limited, Tagged, Started
          <6>8. CASE SetReadPointer(c)
            <7>1. At(c, {"flush", "step0", "release"})
              <8>1. At(c, {"flush", "step0", "release", "end"})
                BY <6>8 DEF SetReadPointer
              <8>2. script'[c] # EndedScript
                BY <1>3 DEF At, Started, EndedScript, NewScript
              <8> QED BY <6>8, <8>1, <8>2, ScriptPlaces DEF At
            <7> QED BY <6>8, <7>1, ScriptPlaces DEF At, Limited, Tagged, Started
          <6> QED BY <3>5, <4>2, <6>1, <6>2, <6>3, <6>4, <6>5, <6>6, <6>7, <6>8 DEF Script
        <5> QED BY <3>1, <3>2, <4>2, <5>1
      <4> QED BY <4>1, <4>2
    <3> QED BY <1>1, <2>1, <3>3, <3>4, <3>5, ScriptMoves
  <2>3. CASE ~At(c, Started)
    <3>1. Restart /\ At(c, {"tag"})'
        BY <1>1, <1>3, <2>3, StartedByRestart
    <3> QED BY <3>1, RestartEffect DEF Live, At, Limited, Tagged, Started
  <2> QED BY <2>2, <2>3
<1> QED BY <1>2, <1>3 DEF ScriptInv, At, Tagged, Limited

\* What a step does to a script that reads and to the part of the ring it has read.
LEMMA ReadingStep ==
    ASSUME OneAcquirer, RInv, NetInv, SlotInv, [Next]_vars, Live, Live',
           NEW c \in Acquirers, At(c, Reading)'
    PROVE  /\ script'[c].target = script[c].target
           /\ \/ /\ At(c, {"pointers"}) /\ script'[c].file = script[c].file
                 /\ Released(0) /\ Done(script[c])' = Held
                 /\ UNCHANGED workerVars
              \/ /\ At(c, Reading) /\ WriteFrame(c)
                 /\ script'[c].file = Append(script[c].file, Ring(Done(script[c])))
                 /\ Done(script[c]) < Held
                 /\ Released(0) /\ Done(script[c])' = Done(script[c]) + 1
                 /\ UNCHANGED workerVars
              \/ /\ At(c, Reading) /\ script'[c].file = script[c].file
                 /\ Released(Done(script[c])) /\ Done(script[c])' = 0
                 /\ UNCHANGED workerVars
              \/ /\ At(c, Reading) /\ script'[c].file = script[c].file
                 /\ Released(0) \/ (Grown /\ WorkerPush)
                 /\ Done(script[c])' = Done(script[c])
<1> USE DEF RInv
<1> DEFINE s == script[c]
           g == script'[c]
<1>1. /\ c \in Clients /\ s \in Scripts
      /\ wr \in Pointers /\ rd \in Pointers /\ s.first \in Pointers /\ s.last \in Pointers
    BY ScriptFields DEF ServerInv, TypeInv, Clients
<1>2. Ahead(rd, rd) = 0 /\ Held \in Nat
    BY <1>1, RingTypes, AheadRange
<1>3. g.pc \in Reading
    BY DEF At
<1>4. CASE script' = script /\ rd' = rd
  <2>1. Done(s)' = Done(s) /\ At(c, Reading)
    BY <1>4 DEF Done, Unread, Ahead, At
  <2>2. ~\E d \in Acquirers : SetReadPointer(d)
    <3>1. ASSUME NEW d \in Acquirers, SetReadPointer(d)
          PROVE  FALSE
      <4>1. At(d, {"flush", "step0", "release", "end"})
        BY <3>1 DEF SetReadPointer
      <4>2. script'[d] = script[d] /\ script[d] \in Scripts
        BY <1>4 DEF ServerInv, TypeInv, Clients
      <4> QED BY <3>1, <4>1, <4>2, ScriptPlaces DEF At, EndedScript, NewScript
    <3> QED BY <3>1
  <2> QED BY <1>4, <2>1, <2>2, RingFlow
<1>5. CASE FrontEnd \/ Worker \/ UNCHANGED vars
  <2>1. script' = script
    BY <1>5 DEF FrontEnd, FrameSent, CommandArrives, Worker, WorkerEnds, WorkerReply,
       WorkerData, WorkerSlot, WorkerCopy, WorkerPush, vars, scriptVars
  <2>2. rd' = rd
    BY <1>5 DEF FrontEnd, FrameSent, CommandArrives, Worker, WorkerEnds, WorkerReply,
       WorkerData, WorkerSlot, WorkerCopy, WorkerPush, vars, ringVars
  <2> QED BY <1>4, <2>1, <2>2
<1>6. ASSUME NEW d \in Clients, AcqOnOff(d)
      PROVE  FALSE
    BY <1>6 DEF AcqOnOff, Live
<1>7. ASSUME UNCHANGED <<wr, rd, slots>>
      PROVE  Released(0)
    BY <1>7, RingUntouched
<1>8. ASSUME g = s, UNCHANGED <<wr, rd, slots>>
      PROVE  At(c, Reading) /\ Released(0) /\ Done(s)' = Done(s)
    BY <1>3, <1>7, <1>8 DEF Done, Unread, Ahead, At
<1>9. CASE Poll
  <2>1. ~Join /\ ~Restart
    BY JoinEffect, RestartEffect DEF Live
  <2>2. UNCHANGED <<wr, rd, slots>>
    BY <1>9, <2>1 DEF Poll, TakeReply, ReceiveReply, CommandTimeout, ringVars
  <2>3. g = s
    BY <1>1, <1>3, <1>9, <2>1, PollMoves
       DEF At, EndedScript, NewScript, Reading, Limited, Tagged, Started
  <2> QED BY <1>8, <2>2, <2>3
<1>10. CASE Script(c) /\ ~AcqOnOff(c) /\ ~AcquisitionStopped(c)
  <2>1. ASSUME UNCHANGED serverVars
        PROVE  /\ UNCHANGED <<wr, rd, slots, workerVars>>
               /\ Released(0)
               /\ Done(s) = Ahead(rd, Unread(s))
               /\ Done(s)' = IF g.pc = "flush" THEN Ahead(rd, g.last)
                             ELSE IF g.pc \in {"write", "release"} THEN Ahead(rd, g.first)
                             ELSE 0
    <3>1. UNCHANGED <<wr, rd, slots, workerVars>>
        BY <2>1 DEF serverVars, ringVars
    <3>2. Done(s)' = Ahead(rd, IF g.pc = "flush" THEN g.last
                               ELSE IF g.pc \in {"write", "release"} THEN g.first ELSE rd)
        BY <3>1 DEF Done, Unread, Ahead
    <3> QED BY <1>2, <1>7, <3>1, <3>2 DEF Done
  <2>2. CASE Synchronize(c)
    <3>1. At(c, {"pointers"}) /\ UNCHANGED serverVars
        BY <2>2 DEF Synchronize
    <3> QED BY <2>1, <2>2, <3>1, ScriptPlaces DEF Held
  <2>3. CASE FirstFrame(c) \/ BeginStep(c)
    <3>1. s.pc \in {"first", "begin"} /\ UNCHANGED serverVars
        BY <2>3 DEF FirstFrame, BeginStep, At
    <3>2. At(c, Reading) /\ Done(s) = 0
        BY <1>2, <3>1, <2>1 DEF At, Reading, Limited, Tagged, Started, Unread
    <3> QED BY <2>1, <2>3, <3>1, <3>2, ScriptPlaces
  <2>4. CASE NextBlock(c)
    <3>1. s.pc = "loop" /\ UNCHANGED serverVars
        BY <2>4 DEF NextBlock, At
    <3>2. At(c, Reading) /\ Done(s) = 0
        BY <1>2, <3>1, <2>1 DEF At, Reading, Limited, Tagged, Started, Unread
    <3> QED BY <1>2, <2>1, <2>4, <3>1, <3>2, ScriptPlaces
  <2>5. CASE WriteFrame(c)
    <3>1. s.pc = "write" /\ s.first # s.last /\ UNCHANGED serverVars
        BY <2>5 DEF WriteFrame, At
    <3>2. At(c, Reading) /\ Done(s) = Ahead(rd, s.first)
        BY <3>1, <2>1 DEF At, Reading, Limited, Tagged, Started, Unread
    <3>3. Ahead(rd, s.first) < Held /\ Held <= 2 * QueueSize - 1
      <4>1. Ahead(rd, s.first) <= Ahead(rd, s.last) /\ Ahead(rd, s.last) <= Held
        BY <3>1 DEF ReaderInv, Reader
      <4>2. Ahead(rd, s.first) # Ahead(rd, s.last)
        BY <1>1, <3>1, AheadDiffer
      <4>3. Ahead(rd, s.first) \in Nat /\ Ahead(rd, s.last) \in Nat
        BY <1>1, AheadRange, PointerTypes
      <4> QED BY <1>2, <4>1, <4>2, <4>3, RingTypes
    <3>4. Ahead(rd, s.first) < 2 * QueueSize - 1
      <4>1. Ahead(rd, s.first) \in Nat
        BY <1>1, AheadRange, PointerTypes
      <4> QED BY <1>2, <3>3, <4>1, Sizes
    <3>5. Ahead(rd, (s.first + 1) % (2 * QueueSize)) = Ahead(rd, s.first) + 1
        BY <1>1, <3>4, AheadNext
    <3>6. slots[s.first % QueueSize] = Ring(Ahead(rd, s.first))
        BY <1>1, RingSlots DEF Ring
    <3> QED BY <2>1, <2>5, <3>1, <3>2, <3>3, <3>5, <3>6, ScriptPlaces
  <2>6. CASE ReadCurrent(c)
    <3>1. s.pc = "write" /\ UNCHANGED serverVars
        BY <2>6 DEF ReadCurrent, At
    <3>2. At(c, Reading) /\ Done(s) = Ahead(rd, s.first)
        BY <3>1, <2>1 DEF At, Reading, Limited, Tagged, Started, Unread
    <3> QED BY <2>1, <2>6, <3>1, <3>2, ScriptPlaces
  <2>7. ~SetMinimumFrameID(c) /\ ~SendCommand(c)
    <3>1. SendCommand(c) => s.pc \in {"sync", "tag"}
        BY DEF SendCommand, At
    <3> QED BY <1>3, <3>1, ScriptPlaces DEF Reading, Limited, Tagged, Started
  <2>8. CASE SetReadPointer(c)
    <3>1. /\ s.pc \in {"flush", "step0", "release", "end"}
          /\ rd' \in Pointers /\ UNCHANGED workerVars
        BY <2>8, SetReadPointerEffect DEF SetReadPointer, At
    <3>2. g # EndedScript
        BY <1>3 DEF Reading, Limited, Tagged, Started, EndedScript, NewScript
    <3>3. /\ g.file = s.file /\ g.target = s.target /\ g.pc \in {"first", "loop", "end"}
          /\ At(c, Reading)
        BY <2>8, <3>1, <3>2, ScriptPlaces DEF At, Reading, Limited, Tagged, Started
    <3>4. Done(s)' = 0
      <4>1. Ahead(rd, rd)' = 0
        BY <3>1, AheadRange
      <4> QED BY <3>3, <4>1 DEF Done, Unread
    <3>5. Released(Done(s))
        BY <2>8, ReleasedByScript
    <3> QED BY <3>1, <3>3, <3>4, <3>5
  <2> QED BY <1>10, <2>2, <2>3, <2>4, <2>5, <2>6, <2>7, <2>8 DEF Script
<1>11. CASE g \in {script[c], NewScript, EndedScript} /\ ~FrontEnd /\ ~Worker
  <2>1. g = s
    BY <1>3, <1>11 DEF NewScript, EndedScript, Reading, Limited, Tagged, Started
  <2>2. ASSUME NEW d \in Clients, StartScript(d)
        PROVE  UNCHANGED <<wr, rd, slots>>
    BY <2>2 DEF StartScript, serverVars, ringVars
  <2>3. ASSUME NEW d \in Acquirers, Script(d) \/ Kill(d)
        PROVE  UNCHANGED <<wr, rd, slots>> \/ (Script(c) /\ ~AcquisitionStopped(c))
    <3>1. CASE Kill(d) \/ AcquisitionStopped(d)
        BY <3>1 DEF Kill, AcquisitionStopped, serverVars, ringVars
    <3> QED BY <2>3, <3>1 DEF OneAcquirer
  <2> QED BY <1>5, <1>6, <1>8, <1>9, <1>10, <2>1, <2>2, <2>3 DEF Next, Clients
<1> QED BY <1>5, <1>9, <1>10, <1>11, ScriptMoves, <1>1

-----------------------------------------------------------------------------
\* The file.

\* A script that reads after a step read before it or had its minimum set, and the
\* worker has not ended.
LEMMA ReadingKept ==
    ASSUME OneAcquirer, ServerInv, NetInv, SettledInv, ScriptInv,
           [HistoryNext]_<<vars, interrupted>>,
           NEW c \in Acquirers, c \notin interrupted', At(c, Reading)'
    PROVE  c \notin interrupted /\ At(c, Started) /\ Live /\ Live'
<1>1. At(c, Started)' /\ ~At(c, {"tag"})'
    BY DEF At, Reading, Limited, Tagged, Started
<1>2. At(c, Started)
    BY <1>1, HistoryStep, StartedByRestart
<1> QED BY <1>1, <1>2, StartedKept

LEMMA DoneType ==
    ASSUME ServerInv, NEW c \in Acquirers
    PROVE  Held \in Nat /\ Done(script[c]) \in Nat
<1>1. /\ script[c].first \in Pointers /\ script[c].last \in Pointers /\ rd \in Pointers
    BY ScriptFields, RingTypes DEF ServerInv, TypeInv, Clients
<1> QED BY <1>1, RingTypes, AheadRange, PointerTypes DEF Done, Unread

LEMMA EarlyKept ==
    ASSUME OneAcquirer, RInv, NetInv, SettledInv, FlowInv, [Next]_vars, Live, Live',
           NEW c \in Acquirers, At(c, Reading), At(c, Reading)'
    PROVE  /\ Early(c) \subseteq Early(c)'
           /\ WriteFrame(c) => Ring(Done(script[c])) \in Early(c)'
<1>1. Past \subseteq Past'
    BY PastKept DEF RInv, FlowInv
<1>2. Held \in Nat /\ Done(script[c]) \in Nat
    BY DoneType DEF RInv
<1>3. Held' \in Nat /\ Done(script[c])' \in Nat
  <2>1. script' \in [Clients -> Scripts] /\ rd' \in Pointers /\ wr' \in Pointers
    BY NextServer DEF RInv, ServerInv, TypeInv
  <2>2. /\ script'[c].first \in Pointers /\ script'[c].last \in Pointers
    BY <2>1, ScriptFields DEF Clients
  <2>3. \A p \in Pointers : Ahead(rd', p) \in Nat
    BY <2>1, AheadRange, PointerTypes
  <2>4. Held' = Ahead(rd', wr')
    BY DEF Held, Ahead
  <2>5. Done(script[c])' \in {Ahead(rd', script'[c].first), Ahead(rd', script'[c].last),
                               Ahead(rd', rd')}
    BY DEF Done, Unread, Ahead
  <2> QED BY <2>1, <2>2, <2>3, <2>4, <2>5
<1>4. ASSUME NEW f \in Past', NEW b \in Nat, NEW e \in Nat, b <= e + Done(script[c])',
             Released(e),
             \A k \in b .. Held - 1 : Later(f, Ring(k))
      PROVE  f \in Early(c)'
  <2>1. ASSUME NEW k \in Done(script[c])' .. Held' - 1
        PROVE  Later(f, Ring(k)')
    <3>1. Held' = Held - e /\ k \in Nat
        BY <1>3, <1>4 DEF Released
    <3>2. k + e \in b .. Held - 1 /\ k \in 0 .. Held - e - 1
        BY <1>2, <1>3, <1>4, <2>1, <3>1
    <3>3. Ring(k)' = Ring(k + e)
        BY <1>4, <3>2 DEF Released
    <3> QED BY <1>4, <3>2, <3>3
  <2> QED BY <1>4, <2>1 DEF Early, Later
<1>5. ASSUME Grown, WorkerPush, Done(script[c])' = Done(script[c]), NEW f \in Early(c)
      PROVE  f \in Early(c)'
  <2>1. /\ f \in Past' /\ f \in Past /\ Held' = Held + 1
        /\ \A k \in 0 .. Held : Ring(k)' = IF k = Held THEN packet.frame ELSE Ring(k)
        /\ packet # NoPacket
        /\ \A k \in Done(script[c]) .. Held - 1 : Later(f, Ring(k))
    BY <1>1, <1>5 DEF Early, Grown
  <2>2. Later(f, packet.frame)
    BY <2>1 DEF Past
  <2>3. ASSUME NEW k \in Done(script[c])' .. Held' - 1
        PROVE  Later(f, Ring(k)')
    <3>1. k \in 0 .. Held
        BY <1>2, <1>5, <2>1, <2>3
    <3>2. CASE k = Held
        BY <2>1, <2>2, <3>1, <3>2
    <3>3. CASE k # Held
      <4>1. k \in Done(script[c]) .. Held - 1 /\ Ring(k)' = Ring(k)
        BY <1>2, <1>5, <2>1, <2>3, <3>1, <3>3
      <4> QED BY <2>1, <4>1
    <3> QED BY <3>2, <3>3
  <2> QED BY <2>1, <2>3 DEF Early, Later
<1>6. ~At(c, {"pointers"}) /\ SlotInv
    BY DEF At, Reading, Limited, FlowInv
<1>7. Early(c) \subseteq Early(c)'
  <2> SUFFICES ASSUME NEW f \in Early(c)
               PROVE  f \in Early(c)'
    OBVIOUS
  <2>1. f \in Past' /\ \A k \in Done(script[c]) .. Held - 1 : Later(f, Ring(k))
    BY <1>1 DEF Early
  <2>2. CASE Released(0) /\ Done(script[c])' \in {Done(script[c]), Done(script[c]) + 1}
    <3>1. Done(script[c]) <= 0 + Done(script[c])'
        BY <1>2, <2>2
    <3> QED BY <1>2, <1>4, <2>1, <2>2, <3>1
  <2>3. CASE Released(Done(script[c])) /\ Done(script[c])' = 0
    <3>1. Done(script[c]) <= Done(script[c]) + Done(script[c])'
        BY <1>2, <2>3
    <3> QED BY <1>2, <1>4, <2>1, <2>3, <3>1
  <2> QED BY <1>5, <1>6, <2>2, <2>3, ReadingStep
<1>8. ASSUME WriteFrame(c)
      PROVE  Ring(Done(script[c])) \in Early(c)'
  <2>1. script'[c].file # script[c].file
    <3>1. script[c].file \in Seq(Frames)
        BY ScriptFields DEF RInv, ServerInv, TypeInv, Clients
    <3>2. script'[c].file = Append(script[c].file, slots[script[c].first % QueueSize])
        BY <1>8, ScriptPlaces DEF RInv
    <3>3. Len(script'[c].file) = Len(script[c].file) + 1 /\ Len(script[c].file) \in Nat
        BY <3>1, <3>2
    <3> QED BY <3>3
  <2>2. /\ Released(0) /\ Done(script[c])' = Done(script[c]) + 1
        /\ Done(script[c]) < Held
    BY <1>6, <2>1, ReadingStep
  <2>3. /\ Ring(Done(script[c])) \in Past
        /\ \A l \in Done(script[c]) + 1 .. Held - 1 :
              Later(Ring(Done(script[c])), Ring(l))
    BY <1>2, <2>2 DEF FlowInv, OrderInv
  <2>4. Done(script[c]) + 1 <= 0 + Done(script[c])' /\ Done(script[c]) + 1 \in Nat
    BY <1>2, <2>2
  <2>5. PICK f : f = Ring(Done(script[c]))
    OBVIOUS
  <2> QED BY <1>1, <1>4, <2>2, <2>3, <2>4, <2>5
<1> QED BY <1>7, <1>8

LEMMA NextFile ==
    ASSUME OneAcquirer, IInv, [HistoryNext]_<<vars, interrupted>>
    PROVE  FileInv'
<1> USE DEF IInv, RInv
<1>1. [Next]_vars /\ ScriptInv'
    BY HistoryStep, NextScript
<1>2. ASSUME NEW c \in Acquirers, c \notin interrupted', NEW i \in DOMAIN script'[c].file
      PROVE  /\ script'[c].file[i] \in Early(c)'
             /\ \A j \in DOMAIN script'[c].file :
                   i < j => Later(script'[c].file[i], script'[c].file[j])
  <2> DEFINE old == script[c].file
             new == script'[c].file
  <2>1. /\ old \in Seq(Frames)
        /\ new \in Seq(Frames) /\ new # <<>>
    <3>1. script[c] \in Scripts /\ script'[c] \in Scripts
        BY <1>1, NextServer DEF ServerInv, TypeInv, Clients
    <3>2. old \in Seq(Frames) /\ new \in Seq(Frames)
        BY <3>1, ScriptFields
    <3> QED BY <1>2, <3>2
  <2>2. At(c, Reading)'
    BY <1>1, <2>1 DEF ScriptInv, Clients, At, Writing, Reading, Limited, Tagged, Started
  <2>3. c \notin interrupted /\ Live /\ Live'
    BY <1>2, <2>2, ReadingKept
  <2>4. \A k \in DOMAIN old : /\ old[k] \in Early(c)
                              /\ \A j \in DOMAIN old : k < j => Later(old[k], old[j])
    BY <2>3 DEF FileInv
  <2>5. old # <<>> => At(c, Reading)
    BY DEF ScriptInv, Clients, At, Writing, Reading, Limited, Tagged, Started
  <2>6. CASE new = old
    BY <1>1, <1>2, <2>1, <2>2, <2>3, <2>4, <2>5, <2>6, EarlyKept
  <2>7. CASE /\ At(c, Reading) /\ WriteFrame(c)
             /\ new = Append(old, Ring(Done(script[c])))
             /\ Done(script[c]) < Held
    <3>1. PICK e : e = Ring(Done(script[c]))
        OBVIOUS
    <3>2. e \in Early(c)' /\ Early(c) \subseteq Early(c)'
        BY <1>1, <2>2, <2>3, <2>7, <3>1, EarlyKept
    <3>3. /\ \A k \in DOMAIN old : k \in DOMAIN new /\ new[k] = old[k]
          /\ \A k \in DOMAIN new : k \in DOMAIN old \/ (k = Len(old) + 1 /\ new[k] = e)
          /\ \A k \in DOMAIN old : k < Len(old) + 1
        BY <2>1, <2>7, <3>1
    <3>4. \A f \in Early(c) : Later(f, e)
      <4>1. Done(script[c]) \in Done(script[c]) .. Held - 1
        BY <2>7, DoneType
      <4> QED BY <3>1, <4>1 DEF Early
    <3>5. new[i] \in Early(c)'
        BY <1>2, <2>4, <3>2, <3>3
    <3>6. ASSUME NEW j \in DOMAIN new, i < j
          PROVE  Later(new[i], new[j])
        BY <1>2, <2>1, <2>4, <3>3, <3>4, <3>6
    <3> QED BY <3>5, <3>6
  <2>8. old = <<>> \/ ~At(c, {"pointers"})
    BY <2>5 DEF At, Reading, Limited
  <2> QED BY <1>1, <2>1, <2>2, <2>3, <2>6, <2>7, <2>8, ReadingStep DEF FlowInv
<1> QED BY <1>2 DEF FileInv

\* The worker is about to push what it has just compared with minimumFrameID, or
\* what it was about to push.
LEMMA PushStep ==
    ASSUME ServerInv, [Next]_vars, Live, Live', worker' = "push"
    PROVE  \/ UNCHANGED workerVars
           \/ packet' = packet /\ packet.frame.id >= minimum
<1>1. CASE WorkerCopy
  <2>1. packet \in Data
    BY <1>1 DEF WorkerCopy, ServerInv, TypeInv, WorkerInv
  <2>2. packet.frame.id \in Int /\ minimum \in Int
    BY <2>1, DatagramFields, FrameTypes, Sizes DEF ServerInv, TypeInv
  <2>3. packet' = packet /\ ~(packet.frame.id < minimum)
    BY <1>1 DEF WorkerCopy
  <2> QED BY <2>2, <2>3
<1>2. CASE Worker /\ ~WorkerCopy
    BY <1>2 DEF Worker, WorkerEnds, WorkerReply, WorkerData, WorkerSlot, WorkerPush, workerVars,
       ServerInv, WorkerInv
<1>3. CASE FrontEnd \/ Still \/ UNCHANGED vars
    BY <1>3 DEF FrontEnd, FrameSent, CommandArrives, Still, vars
<1> QED BY <1>1, <1>2, <1>3, LiveStep

LEMMA NextStale ==
    ASSUME OneAcquirer, IInv, [HistoryNext]_<<vars, interrupted>>
    PROVE  StaleInv'
<1> USE DEF IInv, RInv
<1>1. [Next]_vars
    BY HistoryStep
<1>2. SUFFICES ASSUME NEW c \in Acquirers, c \notin interrupted', At(c, Reading)'
               PROVE  LET s == script'[c] IN
                      /\ \A i \in DOMAIN s.file : i > 1 => s.file[i].id >= s.target.id
                      /\ \A k \in Done(script[c])' .. Held' - 1 :
                            s.file # <<>> \/ k > Done(script[c])' =>
                               Ring(k)'.id >= s.target.id
                      /\ worker' = "push" /\ slot' # NoSlot
                         /\ (s.file # <<>> \/ Held' > Done(script[c])') =>
                            packet'.frame.id >= s.target.id
    BY DEF StaleInv
<1> DEFINE s == script[c]
           g == script'[c]
           D == Done(script[c])
<1>3. c \notin interrupted /\ At(c, Started) /\ Live /\ Live'
    BY <1>1, <1>2, ReadingKept
<1>4. /\ D \in Nat /\ Held \in Nat
      /\ s.file \in Seq(Frames) /\ g.target = s.target
    BY <1>1, <1>2, <1>3, DoneType, ScriptFields, ReadingStep
       DEF FlowInv, ServerInv, TypeInv, Clients
<1>5. At(c, Reading) =>
        /\ \A i \in DOMAIN s.file : i > 1 => s.file[i].id >= s.target.id
        /\ \A k \in D .. Held - 1 : s.file # <<>> \/ k > D => Ring(k).id >= s.target.id
        /\ worker = "push" /\ slot # NoSlot /\ (s.file # <<>> \/ Held > D) =>
              packet.frame.id >= s.target.id
        /\ minimum = s.target.id
  <2>1. At(c, Reading) => At(c, Limited)
    BY DEF At, Reading
  <2> QED BY <1>3, <2>1 DEF StaleInv, ScriptInv
<1>6. CASE /\ At(c, {"pointers"}) /\ g.file = s.file
           /\ Released(0) /\ Done(script[c])' = Held
  <2>1. g.file = <<>>
    BY <1>6 DEF ScriptInv, Clients, At, Writing
  <2>2. Held' = Held
    BY <1>4, <1>6 DEF Released
  <2> QED BY <1>4, <1>6, <2>1, <2>2
<1>7. CASE /\ At(c, Reading) /\ WriteFrame(c)
           /\ g.file = Append(s.file, Ring(D))
           /\ D < Held
           /\ Released(0) /\ Done(script[c])' = D + 1
           /\ UNCHANGED workerVars
  <2>1. Held' = Held /\ \A k \in 0 .. Held - 1 : Ring(k)' = Ring(k)
    BY <1>4, <1>7 DEF Released
  <2>2. ASSUME NEW i \in DOMAIN g.file, i > 1
        PROVE  g.file[i].id >= g.target.id
    <3>1. CASE i \in DOMAIN s.file
        BY <1>4, <1>5, <1>7, <2>2, <3>1
    <3>2. CASE i = Len(s.file) + 1
      <4>1. s.file # <<>> /\ g.file[i] = Ring(D) /\ D \in D .. Held - 1
        BY <1>4, <1>7, <2>2, <3>2
      <4> QED BY <1>4, <1>5, <1>7, <4>1
    <3> QED BY <1>4, <1>7, <2>2, <3>1, <3>2
  <2>3. ASSUME NEW k \in D + 1 .. Held - 1
        PROVE  Ring(k)'.id >= g.target.id
    BY <1>4, <1>5, <1>7, <2>1, <2>3
  <2>4. worker' = "push" /\ slot' # NoSlot => packet'.frame.id >= g.target.id
    BY <1>4, <1>5, <1>7 DEF workerVars
  <2> QED BY <1>7, <2>1, <2>2, <2>3, <2>4
<1>8. CASE /\ At(c, Reading) /\ g.file = s.file
           /\ Released(D) /\ Done(script[c])' = 0
           /\ UNCHANGED workerVars
  <2>1. Held' = Held - D /\ \A k \in 0 .. Held - D - 1 : Ring(k)' = Ring(k + D)
    BY <1>8 DEF Released
  <2>2. ASSUME NEW k \in 0 .. Held' - 1, g.file # <<>> \/ k > 0
        PROVE  Ring(k)'.id >= g.target.id
    <3>1. k + D \in D .. Held - 1 /\ (k > 0 => k + D > D) /\ Ring(k)' = Ring(k + D)
        BY <1>4, <2>1, <2>2
    <3> QED BY <1>4, <1>5, <1>8, <2>2, <3>1
  <2>3. Held' > 0 => Held > D
    BY <1>4, <2>1
  <2> QED BY <1>4, <1>5, <1>8, <2>2, <2>3 DEF workerVars
<1>9. CASE /\ At(c, Reading) /\ g.file = s.file
           /\ Released(0) \/ (Grown /\ WorkerPush)
           /\ Done(script[c])' = D
  <2>1. CASE Released(0)
    <3>1. Held' = Held /\ \A k \in 0 .. Held - 1 : Ring(k)' = Ring(k)
        BY <1>4, <2>1 DEF Released
    <3>2. ASSUME NEW k \in D .. Held - 1, g.file # <<>> \/ k > D
          PROVE  Ring(k)'.id >= g.target.id
        BY <1>4, <1>5, <1>9, <3>1, <3>2
    <3>3. ASSUME worker' = "push", slot' # NoSlot, g.file # <<>> \/ Held > D
          PROVE  packet'.frame.id >= g.target.id
        BY <1>1, <1>3, <1>4, <1>5, <1>9, <3>3, PushStep DEF workerVars
    <3> QED BY <1>4, <1>5, <1>9, <3>1, <3>2, <3>3
  <2>2. CASE Grown /\ WorkerPush
    <3>1. /\ Held' = Held + 1 /\ worker = "push" /\ slot # NoSlot
          /\ \A k \in 0 .. Held : Ring(k)' = IF k = Held THEN packet.frame ELSE Ring(k)
        BY <2>2 DEF Grown
    <3>2. ASSUME NEW k \in D .. Held, g.file # <<>> \/ k > D
          PROVE  Ring(k)'.id >= g.target.id
      <4>1. CASE k = Held
        BY <1>4, <1>5, <1>9, <3>1, <3>2, <4>1
      <4>2. CASE k # Held
        <5>1. k \in D .. Held - 1 /\ Ring(k)' = Ring(k)
            BY <1>4, <3>1, <3>2, <4>2
        <5> QED BY <1>4, <1>5, <1>9, <3>2, <5>1
      <4> QED BY <4>1, <4>2
    <3>3. worker' # "push"
        BY <2>2 DEF WorkerPush
    <3> QED BY <1>4, <1>5, <1>9, <3>1, <3>2, <3>3
  <2> QED BY <1>9, <2>1, <2>2
<1> QED BY <1>1, <1>2, <1>3, <1>6, <1>7, <1>8, <1>9, ReadingStep DEF FlowInv

-----------------------------------------------------------------------------
\* What reaches the file.

LEMMA InitAll == HistoryInit => IInv
<1> SUFFICES ASSUME HistoryInit
             PROVE  IInv
    OBVIOUS
<1>1. Init /\ ~Live /\ packet = NoPacket
    BY DEF HistoryInit, Init, Live
<1>2. \A c \in Clients : script[c] = EndedScript /\ script[c].pc = "ended"
                         /\ script[c].file = <<>>
    BY <1>1 DEF Init, EndedScript, NewScript
<1>3. FlowInv
    BY <1>1 DEF FlowInv, PacketInv, SlotInv, OrderInv
<1>4. ScriptInv /\ FileInv /\ StaleInv
    BY <1>2 DEF ScriptInv, FileInv, StaleInv, At, Reading, Limited, Tagged, Started, Clients
<1> QED BY <1>1, <1>3, <1>4, InitRing, InitNet, InitSettled DEF IInv

LEMMA NextAll == OneAcquirer /\ IInv /\ [HistoryNext]_<<vars, interrupted>> => IInv'
<1> SUFFICES ASSUME OneAcquirer, IInv, [HistoryNext]_<<vars, interrupted>>
             PROVE  IInv'
    OBVIOUS
<1>1. [Next]_vars
    BY HistoryStep
<1>2. RInv' /\ NetInv' /\ SettledInv' /\ FlowInv'
    BY <1>1, NextRing, NextNet, NextSettled, NextFlow DEF IInv, RInv
<1>3. ScriptInv' /\ FileInv' /\ StaleInv'
    BY NextScript, NextFile, NextStale DEF IInv, RInv
<1> QED BY <1>2, <1>3 DEF IInv

\* With one acquiring script the invariant holds: a frame overtakes no other one on
\* its way to the file, and a script's pointers stay in the filled part of the ring
\* (UDPFrameServer.cpp:149-179, daqd.py:1202-1273).
THEOREM Invariance ==
    ASSUME OneAcquirer
    PROVE  HistorySpec => []IInv
<1>1. HistoryInit => IInv
    BY InitAll
<1>2. IInv /\ [HistoryNext]_<<vars, interrupted>> => IInv'
    BY NextAll
<1> QED BY <1>1, <1>2, PTL DEF HistorySpec

LEMMA FileTypes ==
    ASSUME IInv, NEW c \in Acquirers \ interrupted
    PROVE  /\ script[c].file \in Seq(Frames)
           /\ script[c].target.id \in Nat
           /\ \A i \in DOMAIN script[c].file : script[c].file[i].id \in Nat
<1>1. \A f \in Frames : f.id \in Nat
    BY Sizes DEF Frames, Torn, Frame
<1>2. script[c] \in Scripts
    BY DEF IInv, RInv, ServerInv, TypeInv, Clients
<1>3. script[c].file \in Seq(Frames) /\ script[c].target \in Frames
    BY <1>2, ScriptFields
<1> QED BY <1>1, <1>3

\* In an acquisition that stop_daq.py does not interrupt write_raw never reads a frame
\* that is being copied, nor one of an earlier synchronisation, nor a frame twice or
\* out of order, whatever is lost on the way, times out or is killed
\* (write_raw.cpp:186, UDPFrameServer.cpp:149-179).
THEOREM FileIsInOrder ==
    ASSUME OneAcquirer
    PROVE  HistorySpec => []FileInOrder
<1>1. IInv => FileInOrder
  <2> SUFFICES ASSUME IInv, NEW c \in Acquirers \ interrupted
               PROVE  LET file == script[c].file IN
                      /\ \A i \in DOMAIN file : file[i].sync = script[c].target.sync
                      /\ \A i \in 2 .. Len(file) : file[i - 1].id < file[i].id
    BY DEF FileInOrder
  <2> DEFINE file == script[c].file
  <2>1. \A i \in DOMAIN file : /\ file[i].sync = sync
                               /\ \A j \in DOMAIN file : i < j => file[i].id < file[j].id
    BY DEF IInv, FileInv, Early, Past, Sent, Later
  <2>2. file # <<>> => script[c].target.sync = sync
    BY DEF IInv, ScriptInv, Clients, At, Writing, Tagged, Started
  <2>3. ASSUME NEW i \in 2 .. Len(file)
        PROVE  file[i - 1].id < file[i].id
    <3>1. i \in DOMAIN file /\ i - 1 \in DOMAIN file /\ i - 1 < i
        BY <2>3, FileTypes
    <3> QED BY <2>1, <3>1
  <2> QED BY <2>1, <2>2, <2>3
<1> QED BY <1>1, Invariance, PTL

\* At most one frame of an acquisition is older than its synchronisation: the one
\* that the worker had compared with the old minimumFrameID (UDPFrameServer.cpp:160,
\* daqd.py:1438).
THEOREM OneStaleFrame ==
    ASSUME OneAcquirer
    PROVE  HistorySpec => []AtMostOneStale
<1>1. IInv => AtMostOneStale
  <2> SUFFICES ASSUME IInv, NEW c \in Acquirers \ interrupted
               PROVE  Cardinality({i \in DOMAIN script[c].file :
                                     script[c].file[i].id < script[c].target.id}) <= 1
    BY DEF AtMostOneStale
  <2> DEFINE file == script[c].file
             Stale == {i \in DOMAIN file : file[i].id < script[c].target.id}
  <2>1. file # <<>> => At(c, Reading)
    BY DEF IInv, ScriptInv, Clients, At, Writing, Reading, Limited, Tagged, Started
  <2>2. ASSUME NEW i \in DOMAIN file, i > 1
        PROVE  file[i].id >= script[c].target.id
    <3>1. At(c, Reading)
        BY <2>1, <2>2, FileTypes
    <3> QED BY <2>2, <3>1 DEF IInv, StaleInv
  <2>3. Stale \in SUBSET {1}
    <3>1. ASSUME NEW i \in Stale
          PROVE  i = 1
        BY <2>2, <3>1, FileTypes
    <3> QED BY <3>1
  <2>4. Cardinality(Stale) <= Cardinality({1}) /\ Cardinality({1}) = 1
    BY <2>3, FS_Singleton, FS_Subset
  <2> QED BY <2>4
<1> QED BY <1>1, Invariance, PTL
=============================================================================
