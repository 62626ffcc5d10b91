--------------------------- MODULE CommandClientProofs ---------------------------
(***************************************************************************)
(* Proofs about CommandClient: the type invariant, that nothing            *)
(* acknowledged is lost, and the refinement of CommandService.             *)
(*                                                                         *)
(* The inductive invariant says, besides the type: what is still to be     *)
(* parsed was never accepted and is there once (Fresh), the connection     *)
(* thread pushes the command it acknowledged (Pushing), the queue begins   *)
(* with its urgent commands (UrgentFirst), and the threads are joined when *)
(* stop() goes on (Joined).                                                *)
(***************************************************************************)
EXTENDS CommandClient, TLAPS, SequenceTheorems

\* The packets sent and not yet parsed, in order: what recv has brought, then
\* what is still under way.
Both(b, w) == b \o w
Stream == Both(buffer, wire)

\* The two after one recv.
Moved(b, w, d, v) ==
    \E n \in 1..Len(w) :
        /\ d = b \o SubSeq(w, 1, n)
        /\ v = SubSeq(w, n + 1, Len(w))

\* The commands the client took over.
Accepted == Queued \cup Executed \cup {c \in Commands : Executing(c)}

\* Every packet of s is there once, was sent and was not accepted.
Unseen(s, from, gone) ==
    /\ \A i, j \in 1..Len(s) : s[i] = s[j] => i = j
    /\ \A i \in 1..Len(s) : s[i] \in from \ gone

Fresh ==
    /\ Unseen(Stream, sent, Accepted)
    /\ Accepted \subseteq sent

Pushing ==
    client = "push" => buffer # <<>> /\ Head(buffer) \in Commands

\* The first k commands of q are urgent, the others are not.
Splits(q, k) ==
    /\ k \in 0..Len(q)
    /\ \A i \in 1..k : q[i] \in Urgent
    /\ \A i \in (k + 1)..Len(q) : q[i] \notin Urgent

UrgentFirst == \E k \in 0..Len(queue) : Splits(queue, k)

Joined ==
    /\ ctl \in {"close", "joinClient", "down"} => worker = "none"
    /\ ctl = "down" => client = "none"

IInv ==
    /\ TypeOK
    /\ Fresh
    /\ Pushing
    /\ UrgentFirst
    /\ Joined
    /\ AckedIsKept

-----------------------------------------------------------------------------
\* Lemmas about sequences.

\* What Append adds to the elements of a sequence (executed.push_back).
LEMMA RangeOfAppend ==
    ASSUME NEW S, NEW q \in Seq(S), NEW c \in S
    PROVE  Range(Append(q, c)) = Range(q) \cup {c}
<1>1. /\ Append(q, c) \in Seq(S)
      /\ Len(Append(q, c)) = Len(q) + 1
      /\ \A i \in 1..Len(q) : Append(q, c)[i] = q[i]
      /\ Append(q, c)[Len(q) + 1] = c
    BY AppendProperties
<1>2. /\ Range(Append(q, c)) = {Append(q, c)[i] : i \in 1..(Len(q) + 1)}
      /\ Range(q) = {q[i] : i \in 1..Len(q)}
      /\ Len(q) \in Nat
    BY <1>1, RangeEquality, LenProperties
<1> QED BY <1>1, <1>2

\* What insertion at the front adds to them.
LEMMA RangeOfPrepend ==
    ASSUME NEW S, NEW q \in Seq(S), NEW c \in S
    PROVE  Range(<<c>> \o q) = Range(q) \cup {c}
<1> DEFINE d == <<c>>
<1>1. d \in Seq(S) /\ Len(d) = 1 /\ d[1] = c
    OBVIOUS
<1> HIDE DEF d
<1>2. Range(d) = {d[i] : i \in 1..Len(d)}
    BY <1>1, RangeEquality
<1>3. \A i : i \in 1..Len(d) <=> i = 1
    BY <1>1
<1>4. Range(d) = {c}
    BY <1>1, <1>2, <1>3
<1>5. Range(d \o q) = Range(d) \cup Range(q)
    BY <1>1, RangeConcatenation
<1> QED BY <1>4, <1>5 DEF d

\* What removal of the head leaves of them.
LEMMA RangeOfTail ==
    ASSUME NEW S, NEW q \in Seq(S), q # <<>>
    PROVE  /\ Head(q) \in S
           /\ Tail(q) \in Seq(S)
           /\ Range(q) = Range(Tail(q)) \cup {Head(q)}
<1>1. /\ Head(q) \in S
      /\ Tail(q) \in Seq(S)
      /\ Len(Tail(q)) = Len(q) - 1
      /\ \A i \in 1..Len(Tail(q)) : Tail(q)[i] = q[i + 1]
    BY HeadTailProperties
<1>2. /\ Range(Tail(q)) = {Tail(q)[i] : i \in 1..(Len(q) - 1)}
      /\ Range(q) = {q[i] : i \in 1..Len(q)}
      /\ Len(q) \in Nat \ {0}
      /\ Head(q) = q[1]
    <2>1. Range(Tail(q)) = {Tail(q)[i] : i \in 1..Len(Tail(q))}
        BY <1>1, RangeEquality
    <2>2. Range(q) = {q[i] : i \in 1..Len(q)}
        BY RangeEquality
    <2>3. Len(q) \in Nat \ {0} /\ Head(q) = q[1]
        BY EmptySeq
    <2> QED BY <1>1, <2>1, <2>2, <2>3
<1>3. \A i \in 1..(Len(q) - 1) : Tail(q)[i] = q[i + 1]
    BY <1>1
<1>4. \A i \in 2..Len(q) : q[i] = Tail(q)[i - 1] /\ i - 1 \in 1..(Len(q) - 1)
    BY <1>2, <1>3
<1>5. \A i \in 1..Len(q) : q[i] \in Range(Tail(q)) \cup {Head(q)}
    <2>1. \A i \in 1..Len(q) : i = 1 \/ i \in 2..Len(q)
        BY <1>2
    <2>2. \A i \in 2..Len(q) : q[i] \in Range(Tail(q))
        BY <1>2, <1>4
    <2> QED BY <1>2, <2>1, <2>2
<1>6. \A i \in 1..(Len(q) - 1) : Tail(q)[i] \in Range(q)
    BY <1>2, <1>3
<1>7. Head(q) \in Range(q)
    BY <1>2
<1>8. Range(q) = Range(Tail(q)) \cup {Head(q)}
    BY <1>2, <1>5, <1>6, <1>7
<1> QED BY <1>1, <1>8

-----------------------------------------------------------------------------
\* Lemmas about what is still to be parsed.

\* A new packet arrives behind the others (HubSend).
LEMMA UnseenAppend ==
    ASSUME NEW S, NEW s \in Seq(S), NEW p \in S, NEW from, NEW gone,
           Unseen(s, from, gone), p \notin from, gone \subseteq from
    PROVE  Unseen(Append(s, p), from \cup {p}, gone)
<1>1. /\ Len(Append(s, p)) = Len(s) + 1
      /\ \A i \in 1..Len(s) : Append(s, p)[i] = s[i]
      /\ Append(s, p)[Len(s) + 1] = p
      /\ Len(s) \in Nat
    BY AppendProperties, LenProperties
<1>2. \A i \in 1..(Len(s) + 1) : i \in 1..Len(s) \/ i = Len(s) + 1
    BY <1>1
<1>3. \A i \in 1..Len(s) : s[i] # p
    BY DEF Unseen
<1> QED BY <1>1, <1>2, <1>3 DEF Unseen

\* The first packet is parsed (Push).
LEMMA UnseenTail ==
    ASSUME NEW S, NEW s \in Seq(S), s # <<>>, NEW from, NEW gone,
           Unseen(s, from, gone)
    PROVE  /\ Unseen(Tail(s), from, gone \cup {Head(s)})
           /\ Head(s) \in from \ gone
<1>1. /\ Len(Tail(s)) = Len(s) - 1
      /\ \A i \in 1..Len(Tail(s)) : Tail(s)[i] = s[i + 1]
      /\ Len(s) \in Nat \ {0}
      /\ Head(s) = s[1]
    BY HeadTailProperties, EmptySeq
<1>2. \A i \in 1..(Len(s) - 1) :
        Tail(s)[i] = s[i + 1] /\ i + 1 \in 1..Len(s) /\ i + 1 # 1
    BY <1>1
<1>3. 1 \in 1..Len(s)
    BY <1>1
<1>4. \A i \in 1..(Len(s) - 1) : Tail(s)[i] # Head(s)
    BY <1>1, <1>2, <1>3 DEF Unseen
<1>5. \A i, j \in 1..(Len(s) - 1) : Tail(s)[i] = Tail(s)[j] => i + 1 = j + 1
    BY <1>2 DEF Unseen
<1>6. \A i, j \in 1..(Len(s) - 1) : Tail(s)[i] = Tail(s)[j] => i = j
    BY <1>1, <1>5
<1> QED BY <1>1, <1>2, <1>3, <1>4, <1>6 DEF Unseen

\* The end of the stream is lost with the connection (HubDrop).
LEMMA UnseenPrefix ==
    ASSUME NEW S, NEW s \in Seq(S), NEW t \in Seq(S), NEW from, NEW gone,
           Unseen(s \o t, from, gone)
    PROVE  Unseen(s, from, gone)
<1>1. /\ Len(s) \in Nat /\ Len(t) \in Nat
      /\ Len(s \o t) = Len(s) + Len(t)
      /\ \A i \in 1..(Len(s) + Len(t)) :
            (s \o t)[i] = IF i <= Len(s) THEN s[i] ELSE t[i - Len(s)]
    BY ConcatProperties, LenProperties
<1>2. \A i \in 1..Len(s) : i \in 1..Len(s \o t) /\ (s \o t)[i] = s[i]
    BY <1>1
<1> QED BY <1>2 DEF Unseen

\* Nothing is left of it.
LEMMA UnseenEmpty ==
    ASSUME NEW from, NEW gone
    PROVE  Unseen(<<>>, from, gone)
BY DEF Unseen

\* What recv moves from the wire to the buffer leaves the stream as it was.
LEMMA StreamMoves ==
    ASSUME NEW S, NEW b \in Seq(S), NEW x \in Seq(S), NEW y \in Seq(S),
           NEW w \in Seq(S), w = x \o y
    PROVE  (b \o x) \o y = b \o w
<1>1. (b \o x) \o y = b \o (x \o y)
    BY ConcatAssociative
<1> QED BY <1>1

\* recv moves the beginning of the wire to the end of the buffer.
LEMMA StreamReceive ==
    ASSUME NEW S, NEW b \in Seq(S), NEW w \in Seq(S),
           NEW d, NEW v, Moved(b, w, d, v)
    PROVE  d \in Seq(S) /\ v \in Seq(S) /\ Both(d, v) = Both(b, w)
<1>1. PICK n \in 1..Len(w) :
        /\ d = b \o SubSeq(w, 1, n)
        /\ v = SubSeq(w, n + 1, Len(w))
    BY DEF Moved
<1>2. Len(w) \in Nat /\ \A i \in 1..Len(w) : w[i] \in S
    BY LenProperties, ElementOfSeq
<1>3. SubSeq(w, 1, n) \in Seq(S)
    BY <1>2, SubSeqProperties
<1>4. SubSeq(w, n + 1, Len(w)) \in Seq(S)
    BY <1>2, SubSeqProperties
<1>5. SubSeq(w, 1, n) \o SubSeq(w, n + 1, Len(w)) = w
    <2>1. /\ 1 \in 1..(Len(w) + 1) /\ n \in (1 - 1)..Len(w)
          /\ Len(w) \in n..Len(w)
        BY <1>2
    <2> QED BY <2>1, ConcatAdjacentSubSeq, SubSeqFull
<1>6. (b \o SubSeq(w, 1, n)) \o SubSeq(w, n + 1, Len(w)) = b \o w
    <2> DEFINE front == SubSeq(w, 1, n)
               back == SubSeq(w, n + 1, Len(w))
    <2>1. front \in Seq(S) /\ back \in Seq(S) /\ w = front \o back
        BY <1>3, <1>4, <1>5
    <2> HIDE DEF front, back
    <2>2. (b \o front) \o back = b \o w
        BY <2>1, StreamMoves
    <2> QED BY <2>2 DEF front, back
<1> QED BY <1>1, <1>3, <1>4, <1>5, <1>6, ConcatProperties DEF Both

\* A send appends to the stream, a lost connection takes its end.
LEMMA StreamParts ==
    ASSUME NEW S, NEW b \in Seq(S), NEW w \in Seq(S)
    PROVE  /\ b \o w \in Seq(S)
           /\ <<>> \o w = w /\ b \o <<>> = b
           /\ \A p \in S : b \o Append(w, p) = Append(b \o w, p)
<1>1. b \o w \in Seq(S) /\ <<>> \o w = w /\ b \o <<>> = b
    BY ConcatProperties, ConcatEmptySeq
<1>2. ASSUME NEW p \in S
      PROVE  b \o Append(w, p) = Append(b \o w, p)
    <2>1. <<p>> \in Seq(S)
        OBVIOUS
    <2>2. Append(w, p) = w \o <<p>> /\ Append(b \o w, p) = (b \o w) \o <<p>>
        BY <1>1, AppendIsConcat
    <2> QED BY <2>1, <2>2, ConcatAssociative
<1> QED BY <1>1, <1>2

\* Parsing removes the head of the stream.
LEMMA StreamTail ==
    ASSUME NEW S, NEW b \in Seq(S), NEW w \in Seq(S), b # <<>>
    PROVE  /\ b \o w # <<>>
           /\ Head(b \o w) = Head(b)
           /\ Tail(b) \o w = Tail(b \o w)
<1>1. b \o w \in Seq(S)
    BY ConcatProperties
<1>2. /\ Head(b) \in S /\ Tail(b) \in Seq(S)
      /\ Len(Tail(b)) = Len(b) - 1
      /\ \A i \in 1..Len(Tail(b)) : Tail(b)[i] = b[i + 1]
      /\ Head(b) = b[1]
    BY HeadTailProperties
<1>3. Len(b) \in Nat \ {0} /\ Len(w) \in Nat
    BY EmptySeq, LenProperties
<1>4. /\ Len(b \o w) = Len(b) + Len(w)
      /\ \A i \in 1..(Len(b) + Len(w)) :
            (b \o w)[i] = IF i <= Len(b) THEN b[i] ELSE w[i - Len(b)]
    BY ConcatProperties
<1>5. b \o w # <<>> /\ Head(b \o w) = (b \o w)[1]
    BY <1>1, <1>3, <1>4, EmptySeq
<1>6. (b \o w)[1] = b[1]
    BY <1>3, <1>4
<1>7. /\ Tail(b \o w) \in Seq(S)
      /\ Len(Tail(b \o w)) = Len(b \o w) - 1
      /\ \A i \in 1..Len(Tail(b \o w)) : Tail(b \o w)[i] = (b \o w)[i + 1]
    BY <1>1, <1>5, HeadTailProperties
<1>8. /\ Tail(b) \o w \in Seq(S)
      /\ Len(Tail(b) \o w) = Len(Tail(b)) + Len(w)
      /\ \A i \in 1..(Len(Tail(b)) + Len(w)) :
            (Tail(b) \o w)[i] = IF i <= Len(Tail(b)) THEN Tail(b)[i]
                                ELSE w[i - Len(Tail(b))]
    BY <1>2, ConcatProperties
<1>9. Len(Tail(b) \o w) = Len(Tail(b \o w))
    BY <1>2, <1>3, <1>4, <1>7, <1>8
<1>10. ASSUME NEW i \in 1..Len(Tail(b) \o w)
      PROVE  (Tail(b) \o w)[i] = Tail(b \o w)[i]
    <2>1. CASE i <= Len(b) - 1
        BY <1>2, <1>3, <1>4, <1>7, <1>8, <2>1
    <2>2. CASE i > Len(b) - 1
        <3>1. (Tail(b) \o w)[i] = w[i - (Len(b) - 1)]
            BY <1>2, <1>3, <1>8, <2>2
        <3>2. Tail(b \o w)[i] = w[i + 1 - Len(b)]
            BY <1>2, <1>3, <1>4, <1>7, <1>8, <2>2
        <3>3. i - (Len(b) - 1) = i + 1 - Len(b)
            BY <1>2, <1>3, <1>8
        <3> QED BY <3>1, <3>2, <3>3
    <2> QED BY <1>2, <1>3, <1>8, <2>1, <2>2
<1> QED BY <1>2, <1>5, <1>6, <1>7, <1>8, <1>9, <1>10, SeqEqual

-----------------------------------------------------------------------------
\* Lemmas about the two parts of the queue.

\* The urgent part ends where the others begin.
LEMMA LeadIs ==
    ASSUME NEW q \in Seq(Commands), NEW k, Splits(q, k)
    PROVE  Lead(q) = k
<1> DEFINE P(j) == /\ \A i \in 1..j : q[i] \in Urgent
                   /\ j < Len(q) => q[j + 1] \notin Urgent
<1>1. Len(q) \in Nat /\ k \in 0..Len(q)
    BY LenProperties DEF Splits
<1>2. P(k)
    BY <1>1 DEF Splits
<1>3. ASSUME NEW j \in 0..Len(q), P(j)
      PROVE  j = k
    <2>1. ~(j < k)
        <3>1. j < k => j + 1 \in 1..k /\ j < Len(q)
            BY <1>1
        <3> QED BY <1>3, <3>1 DEF Splits
    <2>2. ~(k < j)
        <3>1. k < j => k + 1 \in 1..j /\ k + 1 \in (k + 1)..Len(q)
            BY <1>1
        <3> QED BY <1>3, <3>1 DEF Splits
    <2> QED BY <1>1, <2>1, <2>2
<1>4. Lead(q) = CHOOSE j \in 0..Len(q) : P(j)
    BY DEF Lead
<1> HIDE DEF P
<1> QED BY <1>1, <1>2, <1>3, <1>4

\*\* The two parts of the queue, element by element.
LEMMA PartsOf ==
    ASSUME NEW q \in Seq(Commands), NEW k \in 0..Len(q)
    PROVE  /\ SubSeq(q, 1, k) \in Seq(Commands)
           /\ Len(SubSeq(q, 1, k)) = k
           /\ \A i \in 1..k : SubSeq(q, 1, k)[i] = q[i]
           /\ SubSeq(q, k + 1, Len(q)) \in Seq(Commands)
           /\ Len(SubSeq(q, k + 1, Len(q))) = Len(q) - k
           /\ \A i \in 1..(Len(q) - k) :
                SubSeq(q, k + 1, Len(q))[i] = q[k + i]
<1> DEFINE u == SubSeq(q, 1, k)
           n == SubSeq(q, k + 1, Len(q))
<1>1. Len(q) \in Nat /\ \A i \in 1..Len(q) : q[i] \in Commands
    BY LenProperties, ElementOfSeq
<1>2. /\ u \in Seq(Commands) /\ Len(u) = k
      /\ \A i \in 1..k : u[i] = q[i]
    BY <1>1, SubSeqProperties
<1>3. /\ n \in Seq(Commands) /\ Len(n) = Len(q) - k
      /\ \A i \in 1..(Len(q) - k) : n[i] = q[k + i]
    <2>1. \A i \in (k + 1)..Len(q) : q[i] \in Commands
        BY <1>1
    <2>2. /\ n \in Seq(Commands)
          /\ Len(n) = IF k + 1 <= Len(q) THEN Len(q) - (k + 1) + 1 ELSE 0
          /\ \A i \in 1..(Len(q) - (k + 1) + 1) : n[i] = q[(k + 1) + i - 1]
        BY <1>1, <2>1, SubSeqProperties
    <2> QED BY <1>1, <2>2
<1> QED BY <1>2, <1>3

\* An urgent command is put in front of the urgent part.
LEMMA SplitPrepend ==
    ASSUME NEW q \in Seq(Commands), NEW k, Splits(q, k),
           NEW c \in Commands, c \in Urgent
    PROVE  /\ <<c>> \o q \in Seq(Commands)
           /\ Len(<<c>> \o q) = Len(q) + 1
           /\ Splits(<<c>> \o q, k + 1)
           /\ SubSeq(<<c>> \o q, 1, k + 1) = <<c>> \o SubSeq(q, 1, k)
           /\ SubSeq(<<c>> \o q, (k + 1) + 1, Len(q) + 1)
                = SubSeq(q, k + 1, Len(q))
<1>1. <<c>> \in Seq(Commands) /\ Len(<<c>>) = 1 /\ <<c>>[1] = c
    OBVIOUS
<1>2. /\ Len(q) \in Nat /\ k \in 0..Len(q)
      /\ \A i \in 1..Len(q) : q[i] \in Commands
    BY LenProperties, ElementOfSeq DEF Splits
<1> DEFINE r == <<c>> \o q
<1>3. /\ r \in Seq(Commands)
      /\ Len(r) = Len(q) + 1
      /\ \A i \in 1..(1 + Len(q)) :
            r[i] = IF i <= 1 THEN <<c>>[i] ELSE q[i - 1]
    <2>1. Len(<<c>> \o q) = Len(<<c>>) + Len(q)
        BY <1>1, ConcatProperties
    <2>2. \A i \in 1..(Len(<<c>>) + Len(q)) :
            r[i] = IF i <= Len(<<c>>) THEN <<c>>[i] ELSE q[i - Len(<<c>>)]
        BY <1>1, ConcatProperties
    <2> QED BY <1>1, <1>2, <2>1, <2>2, ConcatProperties
<1> HIDE DEF r
<1>4. r[1] = c /\ \A i \in 2..(Len(q) + 1) : r[i] = q[i - 1]
    BY <1>1, <1>2, <1>3
<1>5. Splits(r, k + 1)
    <2>1. \A i \in 1..(k + 1) : r[i] \in Urgent
        BY <1>2, <1>4 DEF Splits
    <2>2. \A i \in (k + 2)..(Len(q) + 1) : r[i] \notin Urgent
        BY <1>2, <1>4 DEF Splits
    <2> QED BY <1>2, <1>3, <2>1, <2>2 DEF Splits
<1>6. \A i \in 1..Len(r) : r[i] \in Commands
    BY <1>3, ElementOfSeq
<1> DEFINE u == SubSeq(q, 1, k)
           n == SubSeq(q, k + 1, Len(q))
<1>7. /\ u \in Seq(Commands) /\ Len(u) = k
      /\ \A i \in 1..k : u[i] = q[i]
    BY <1>2, PartsOf
<1>8. /\ n \in Seq(Commands) /\ Len(n) = Len(q) - k
      /\ \A i \in 1..(Len(q) - k) : n[i] = q[k + i]
    BY <1>2, PartsOf
<1>9. SubSeq(r, 1, k + 1) = <<c>> \o u
    <2> HIDE DEF u
    <2>1. /\ SubSeq(r, 1, k + 1) \in Seq(Commands)
          /\ Len(SubSeq(r, 1, k + 1)) = k + 1
          /\ \A i \in 1..(k + 1) : SubSeq(r, 1, k + 1)[i] = r[i]
        BY <1>2, <1>3, <1>6, SubSeqProperties
    <2>2. /\ <<c>> \o u \in Seq(Commands)
          /\ Len(<<c>> \o u) = k + 1
          /\ \A i \in 1..(k + 1) :
                (<<c>> \o u)[i] = IF i <= 1 THEN c ELSE u[i - 1]
        BY <1>1, <1>2, <1>7, ConcatProperties
    <2>3. \A i \in 1..(k + 1) : SubSeq(r, 1, k + 1)[i] = (<<c>> \o u)[i]
        <3>1. (<<c>> \o u)[1] = c /\ SubSeq(r, 1, k + 1)[1] = c
            BY <1>2, <1>4, <2>1, <2>2
        <3>2. \A i \in 2..(k + 1) : (<<c>> \o u)[i] = q[i - 1]
            BY <1>2, <1>7, <2>2
        <3>3. \A i \in 2..(k + 1) : SubSeq(r, 1, k + 1)[i] = q[i - 1]
            BY <1>2, <1>4, <2>1
        <3>4. \A i \in 1..(k + 1) : i = 1 \/ i \in 2..(k + 1)
            BY <1>2
        <3> QED BY <3>1, <3>2, <3>3, <3>4
    <2> QED BY <2>1, <2>2, <2>3, SeqEqual
<1>10. SubSeq(r, (k + 1) + 1, Len(r)) = n
    <2> DEFINE m == SubSeq(r, (k + 1) + 1, Len(r))
    <2>1. /\ m \in Seq(Commands) /\ Len(m) = Len(r) - (k + 1)
          /\ \A i \in 1..(Len(r) - (k + 1)) : m[i] = r[(k + 1) + i]
        BY <1>2, <1>3, PartsOf
    <2> HIDE DEF m, n
    <2>2. Len(m) = Len(n)
        BY <1>2, <1>3, <1>8, <2>1
    <2>3. \A i \in 1..(Len(q) - k) : m[i] = n[i]
        <3>1. \A i \in 1..(Len(q) - k) : m[i] = r[(k + 1) + i]
            BY <1>2, <1>3, <2>1
        <3>2. \A i \in 1..(Len(q) - k) : r[(k + 1) + i] = q[k + i]
            <4>1. \A i \in 1..(Len(q) - k) :
                    (k + 1) + i \in 2..(Len(q) + 1) /\ ((k + 1) + i) - 1 = k + i
                BY <1>2
            <4> QED BY <1>4, <4>1
        <3> QED BY <1>8, <3>1, <3>2
    <2> QED BY <1>8, <2>1, <2>2, <2>3, SeqEqual DEF m
<1> QED BY <1>3, <1>5, <1>9, <1>10 DEF r

\* Any other command is put at the end.
LEMMA SplitAppend ==
    ASSUME NEW q \in Seq(Commands), NEW k, Splits(q, k),
           NEW c \in Commands, c \notin Urgent
    PROVE  /\ Append(q, c) \in Seq(Commands)
           /\ Len(Append(q, c)) = Len(q) + 1
           /\ Splits(Append(q, c), k)
           /\ SubSeq(Append(q, c), 1, k) = SubSeq(q, 1, k)
           /\ SubSeq(Append(q, c), k + 1, Len(q) + 1)
                = Append(SubSeq(q, k + 1, Len(q)), c)
<1> DEFINE r == Append(q, c)
           n == SubSeq(q, k + 1, Len(q))
<1>1. Len(q) \in Nat /\ k \in 0..Len(q)
    BY LenProperties DEF Splits
<1>2. /\ r \in Seq(Commands)
      /\ Len(r) = Len(q) + 1
      /\ \A i \in 1..Len(q) : r[i] = q[i]
      /\ r[Len(q) + 1] = c
    BY AppendProperties
<1>3. /\ SubSeq(q, 1, k) \in Seq(Commands)
      /\ Len(SubSeq(q, 1, k)) = k
      /\ \A i \in 1..k : SubSeq(q, 1, k)[i] = q[i]
      /\ n \in Seq(Commands)
      /\ Len(n) = Len(q) - k
      /\ \A i \in 1..(Len(q) - k) : n[i] = q[k + i]
    BY <1>1, PartsOf
<1> HIDE DEF r, n
<1>4. Splits(r, k)
    <2>1. \A i \in 1..k : r[i] \in Urgent
        BY <1>1, <1>2 DEF Splits
    <2>2. \A i \in (k + 1)..(Len(q) + 1) : i \in (k + 1)..Len(q) \/ i = Len(q) + 1
        BY <1>1
    <2>3. \A i \in (k + 1)..Len(q) : r[i] \notin Urgent
        BY <1>1, <1>2 DEF Splits
    <2> QED BY <1>1, <1>2, <2>1, <2>2, <2>3 DEF Splits
<1>5. /\ SubSeq(r, 1, k) \in Seq(Commands)
      /\ Len(SubSeq(r, 1, k)) = k
      /\ \A i \in 1..k : SubSeq(r, 1, k)[i] = r[i]
      /\ SubSeq(r, k + 1, Len(r)) \in Seq(Commands)
      /\ Len(SubSeq(r, k + 1, Len(r))) = Len(r) - k
      /\ \A i \in 1..(Len(r) - k) : SubSeq(r, k + 1, Len(r))[i] = r[k + i]
    BY <1>1, <1>2, PartsOf
<1>6. SubSeq(r, 1, k) = SubSeq(q, 1, k)
    <2>1. \A i \in 1..k : SubSeq(r, 1, k)[i] = SubSeq(q, 1, k)[i]
        BY <1>1, <1>2, <1>3, <1>5
    <2> QED BY <1>3, <1>5, <2>1, SeqEqual
<1>7. SubSeq(r, k + 1, Len(r)) = Append(n, c)
    <2> DEFINE m == SubSeq(r, k + 1, Len(r))
               o == Append(n, c)
    <2>1. /\ o \in Seq(Commands) /\ Len(o) = Len(n) + 1
          /\ \A i \in 1..Len(n) : o[i] = n[i]
          /\ o[Len(n) + 1] = c
        BY <1>3, AppendProperties
    <2>2. /\ m \in Seq(Commands) /\ Len(m) = Len(r) - k
          /\ \A i \in 1..(Len(r) - k) : m[i] = r[k + i]
        BY <1>5
    <2> HIDE DEF m, o
    <2>3. Len(m) = Len(o)
        BY <1>1, <1>2, <1>3, <2>1, <2>2
    <2>4. ASSUME NEW i \in 1..Len(m)
          PROVE  m[i] = o[i]
        <3>1. CASE i <= Len(q) - k
            <4>1. m[i] = q[k + i]
                BY <1>1, <1>2, <2>2, <3>1
            <4>2. o[i] = q[k + i]
                BY <1>1, <1>3, <2>1, <2>2, <3>1
            <4> QED BY <4>1, <4>2
        <3>2. CASE i > Len(q) - k
            <4>1. i = Len(q) - k + 1
                BY <1>1, <1>2, <2>2, <3>2
            <4> QED BY <1>1, <1>2, <1>3, <2>1, <2>2, <4>1
        <3> QED BY <1>1, <1>2, <2>2, <3>1, <3>2
    <2>5. m = o
        BY <2>1, <2>2, <2>3, <2>4, SeqEqual
    <2> QED BY <2>5 DEF m, o
<1> QED BY <1>2, <1>4, <1>6, <1>7 DEF r, n

\* The worker takes the first urgent command, or the first of the others.
LEMMA SplitTail ==
    ASSUME NEW q \in Seq(Commands), NEW k, Splits(q, k), q # <<>>
    PROVE  /\ Tail(q) \in Seq(Commands)
           /\ Len(Tail(q)) = Len(q) - 1
           /\ k > 0 =>
                /\ Splits(Tail(q), k - 1)
                /\ SubSeq(q, 1, k) # <<>>
                /\ Head(SubSeq(q, 1, k)) = Head(q)
                /\ SubSeq(Tail(q), 1, k - 1) = Tail(SubSeq(q, 1, k))
                /\ SubSeq(Tail(q), (k - 1) + 1, Len(Tail(q)))
                     = SubSeq(q, k + 1, Len(q))
           /\ k = 0 =>
                /\ Splits(Tail(q), 0)
                /\ SubSeq(q, 1, k) = <<>>
                /\ SubSeq(q, k + 1, Len(q)) = q
                /\ SubSeq(Tail(q), 1, 0) = <<>>
                /\ SubSeq(Tail(q), 0 + 1, Len(Tail(q))) = Tail(q)
<1> DEFINE r == Tail(q)
<1>1. /\ Len(q) \in Nat \ {0} /\ k \in 0..Len(q) /\ Head(q) = q[1]
    BY EmptySeq DEF Splits
<1>2. /\ r \in Seq(Commands)
      /\ Len(r) = Len(q) - 1
      /\ \A i \in 1..Len(r) : r[i] = q[i + 1]
    BY HeadTailProperties
<1> HIDE DEF r
<1>3. ASSUME k > 0
      PROVE  /\ Splits(r, k - 1)
             /\ SubSeq(q, 1, k) # <<>>
             /\ Head(SubSeq(q, 1, k)) = Head(q)
             /\ SubSeq(r, 1, k - 1) = Tail(SubSeq(q, 1, k))
             /\ SubSeq(r, (k - 1) + 1, Len(r)) = SubSeq(q, k + 1, Len(q))
    <2> DEFINE u == SubSeq(q, 1, k)
               n == SubSeq(q, k + 1, Len(q))
               v == SubSeq(r, 1, k - 1)
               m == SubSeq(r, (k - 1) + 1, Len(r))
    <2>1. k \in 1..Len(q) /\ k - 1 \in 0..Len(r)
        BY <1>1, <1>2, <1>3
    <2>2. /\ u \in Seq(Commands) /\ Len(u) = k
          /\ \A i \in 1..k : u[i] = q[i]
          /\ n \in Seq(Commands) /\ Len(n) = Len(q) - k
          /\ \A i \in 1..(Len(q) - k) : n[i] = q[k + i]
        BY <1>1, PartsOf
    <2>3. /\ v \in Seq(Commands) /\ Len(v) = k - 1
          /\ \A i \in 1..(k - 1) : v[i] = r[i]
          /\ m \in Seq(Commands) /\ Len(m) = Len(r) - (k - 1)
          /\ \A i \in 1..(Len(r) - (k - 1)) : m[i] = r[(k - 1) + i]
        BY <1>2, <2>1, PartsOf
    <2> HIDE DEF u, n, v, m
    <2>4. Splits(r, k - 1)
        <3>1. \A i \in 1..(k - 1) : r[i] = q[i + 1] /\ i + 1 \in 1..k
            BY <1>1, <1>2, <2>1
        <3>2. \A i \in ((k - 1) + 1)..Len(r) :
                r[i] = q[i + 1] /\ i + 1 \in (k + 1)..Len(q)
            BY <1>1, <1>2, <2>1
        <3> QED BY <2>1, <3>1, <3>2 DEF Splits
    <2>5. u # <<>>
        BY <2>1, <2>2
    <2>6. /\ Tail(u) \in Seq(Commands) /\ Len(Tail(u)) = k - 1
          /\ \A i \in 1..(k - 1) : Tail(u)[i] = u[i + 1]
        BY <2>2, <2>5, HeadTailProperties
    <2>7. Head(u) = Head(q)
        <3>1. Head(u) = u[1]
            BY <2>2, <2>5
        <3> QED BY <1>1, <2>1, <2>2, <3>1
    <2>8. v = Tail(u)
        <3>1. \A i \in 1..(k - 1) : v[i] = q[i + 1]
            BY <1>1, <1>2, <2>1, <2>3
        <3>2. \A i \in 1..(k - 1) : Tail(u)[i] = q[i + 1]
            BY <1>1, <2>1, <2>2, <2>6
        <3>3. \A i \in 1..Len(v) : v[i] = Tail(u)[i]
            BY <2>3, <3>1, <3>2
        <3> QED BY <2>3, <2>6, <3>3, SeqEqual
    <2>9. m = n
        <3>1. Len(m) = Len(n)
            BY <1>1, <1>2, <2>1, <2>2, <2>3
        <3>2. \A i \in 1..Len(m) : m[i] = q[k + i]
            BY <1>1, <1>2, <2>1, <2>3
        <3>3. \A i \in 1..Len(m) : n[i] = q[k + i]
            BY <2>2, <3>1
        <3>4. \A i \in 1..Len(m) : m[i] = n[i]
            BY <3>2, <3>3
        <3> QED BY <2>2, <2>3, <3>1, <3>4, SeqEqual
    <2> QED BY <2>4, <2>5, <2>7, <2>8, <2>9 DEF u, n, v, m
<1>4. ASSUME k = 0
      PROVE  /\ Splits(r, 0)
             /\ SubSeq(q, 1, k) = <<>>
             /\ SubSeq(q, k + 1, Len(q)) = q
             /\ SubSeq(r, 1, 0) = <<>>
             /\ SubSeq(r, 0 + 1, Len(r)) = r
    <2>1. Splits(r, 0)
        <3>1. \A i \in (0 + 1)..Len(r) :
                r[i] = q[i + 1] /\ i + 1 \in (k + 1)..Len(q)
            BY <1>1, <1>2, <1>4
        <3> QED BY <1>1, <1>2, <3>1 DEF Splits
    <2>2. SubSeq(q, 1, 0) = <<>> /\ SubSeq(r, 1, 0) = <<>>
        BY SubSeqEmpty
    <2>3. SubSeq(q, 1, Len(q)) = q
        BY SubSeqFull
    <2>4. SubSeq(r, 1, Len(r)) = r
        BY <1>2, SubSeqFull
    <2> QED BY <1>4, <2>1, <2>2, <2>3, <2>4
<1> QED BY <1>2, <1>3, <1>4 DEF r

-----------------------------------------------------------------------------
\* The steps, by what they do to the packets and commands.

\* A step that moves none of them and neither begins nor ends a push.
Calm ==
    /\ UNCHANGED <<wire, buffer, sent, queue, busy, executed, acked>>
    /\ client' = "push" <=> client = "push"

\* A step that gives up what was not parsed yet, or the end of it.
Drops ==
    /\ \/ buffer' = <<>> /\ wire' = <<>> /\ client # "push" /\ client' # "push"
       \/ UNCHANGED <<buffer, client>> /\ wire' = <<>>
    /\ UNCHANGED <<sent, queue, busy, executed, acked>>

\* Every step of the model is calm or one of the steps that are not.
LEMMA Moves ==
    ASSUME Joined, [Next]_vars
    PROVE  \/ Calm \/ Drops
           \/ \E p \in Packets : HubSend(p)
           \/ Receive \/ Acknowledge \/ Push
           \/ WorkerCheck \/ WorkerExecute
<1> USE DEF Calm, Drops, Goto, hubVars, workVars
<1>1. CASE UNCHANGED vars
    BY <1>1 DEF vars
<1>2. CASE HubDrop
    BY <1>2 DEF HubDrop
<1>3. CASE ClientTop
    BY <1>3 DEF ClientTop
<1>4. CASE CloseConnection
    BY <1>4 DEF CloseConnection
<1>5. CASE ConnectFails \/ ConnectSucceeds \/ PublishConnection
    BY <1>5 DEF ConnectFails, ConnectSucceeds, PublishConnection
<1>6. CASE InnerTest \/ PollTimeout \/ PollEvent \/ SafetyCheck
    BY <1>6 DEF InnerTest, PollTimeout, PollEvent, SafetyCheck
<1>7. CASE Dereference \/ DereferenceNull \/ ReceiveFails
    BY <1>7 DEF Dereference, DereferenceNull, ReceiveFails
<1>8. CASE BufferDone \/ Reject \/ PushNotify
    BY <1>8 DEF BufferDone, Reject, PushNotify
<1>9. CASE WorkerTest \/ WorkerWait \/ SpuriousWakeup
    BY <1>9 DEF WorkerTest, WorkerWait, SpuriousWakeup
<1>10. CASE StopBegin \/ StopNotify \/ StopJoinWorker
    BY <1>10 DEF StopBegin, StopNotify, StopJoinWorker
<1>11. CASE StopClose \/ StopJoinClient \/ Start
    BY <1>11 DEF StopClose, StopJoinClient, Start, Joined
<1> QED BY <1>1, <1>2, <1>3, <1>4, <1>5, <1>6, <1>7, <1>8, <1>9, <1>10, <1>11,
           Zenon DEF Next, ClientNext, WorkerNext, StopNext

\* Only a push adds to what the client has taken over; the worker hands on.
LEMMA AcceptedStep ==
    ASSUME TypeOK, Pushing
    PROVE  /\ UNCHANGED <<queue, busy, executed>> => UNCHANGED Accepted
           /\ WorkerCheck => UNCHANGED Accepted
           /\ WorkerExecute => UNCHANGED Accepted
           /\ Push => Accepted' = Accepted \cup {Head(buffer)}
<1> USE DEF Accepted, Executing
<1>1. Queued = Range(queue) /\ Queued' = Range(queue')
      /\ Executed = Range(executed) /\ Executed' = Range(executed')
    BY DEF Queued, Executed, Range
<1>2. queue \in Seq(Commands) /\ executed \in Seq(Commands)
      /\ busy \in Commands \cup {NoCommand} /\ NoCommand \notin Commands
    BY PacketsAssumption DEF TypeOK
<1>3. UNCHANGED <<queue, busy, executed>> => UNCHANGED Accepted
    BY DEF Queued, Executed
<1>4. ASSUME WorkerCheck PROVE UNCHANGED Accepted
    <2>1. CASE queue = <<>>
        BY <1>3, <1>4, <2>1 DEF WorkerCheck
    <2>2. CASE queue # <<>>
        <3>1. /\ busy' = Head(queue) /\ queue' = Tail(queue)
              /\ executed' = executed
              /\ busy = NoCommand
            BY <1>4, <2>2 DEF WorkerCheck, TypeOK
        <3>2. /\ Range(queue) = Range(queue') \cup {busy'}
              /\ busy' \in Commands
            BY <1>2, <2>2, <3>1, RangeOfTail
        <3> QED BY <1>1, <1>2, <3>1, <3>2
    <2> QED BY <2>1, <2>2
<1>5. ASSUME WorkerExecute PROVE UNCHANGED Accepted
    <2>1. /\ executed' = Append(executed, busy) /\ busy' = NoCommand
          /\ queue' = queue
          /\ busy \in Commands
        BY <1>5 DEF WorkerExecute, TypeOK
    <2>2. Range(executed') = Range(executed) \cup {busy}
        BY <1>2, <2>1, RangeOfAppend
    <2> QED BY <1>1, <1>2, <2>1, <2>2
<1>6. ASSUME Push PROVE Accepted' = Accepted \cup {Head(buffer)}
    <2>1. Head(buffer) \in Commands /\ UNCHANGED <<busy, executed>>
        BY <1>6 DEF Push, Goto, Pushing
    <2>2. \/ queue' = <<Head(buffer)>> \o queue
          \/ queue' = Append(queue, Head(buffer))
        BY <1>6 DEF Push
    <2>3. Range(queue') = Range(queue) \cup {Head(buffer)}
        <3>1. CASE queue' = <<Head(buffer)>> \o queue
            BY <1>2, <2>1, <3>1, RangeOfPrepend
        <3>2. CASE queue' = Append(queue, Head(buffer))
            BY <1>2, <2>1, <3>2, RangeOfAppend
        <3> QED BY <2>2, <3>1, <3>2
    <2> QED BY <1>1, <2>1, <2>3
<1> QED BY <1>3, <1>4, <1>5, <1>6

-----------------------------------------------------------------------------
\* The parts of the invariant, one by one.

\* The type of the threads and of the connection.
LEMMA ControlStep ==
    ASSUME TypeOK, Joined, [Next]_vars
    PROVE  /\ (running \in BOOLEAN /\ conn \in BOOLEAN)'
           /\ (ctl \in CtlStates)'
           /\ (resets \in 0..MaxResets)'
           /\ (client \in ClientStates)'
           /\ (worker \in WorkerStates)'
           /\ (link \in {"down", "up", "lost", "closed"})'
           /\ Joined'
           /\ (worker # "dead" => (worker = "executing" <=> busy # NoCommand))'
<1> USE DEF TypeOK, CtlStates, ClientStates, WorkerStates, Joined, Goto, hubVars,
            workVars, Wake
<1>1. CASE UNCHANGED vars
    BY <1>1 DEF vars
<1>2. CASE (\E p \in Packets : HubSend(p)) \/ HubDrop
    BY <1>2 DEF HubSend, HubDrop
<1>3. CASE ClientTop
    BY <1>3 DEF ClientTop
<1>4. CASE ConnectFails \/ ConnectSucceeds \/ PublishConnection
    BY <1>4 DEF ConnectFails, ConnectSucceeds, PublishConnection
<1>5. CASE InnerTest \/ PollTimeout \/ PollEvent
    BY <1>5 DEF InnerTest, PollTimeout, PollEvent
<1>6. CASE SafetyCheck \/ Dereference \/ DereferenceNull
    BY <1>6 DEF SafetyCheck, Dereference, DereferenceNull
<1>7. CASE Receive \/ ReceiveFails \/ BufferDone
    BY <1>7 DEF Receive, ReceiveFails, BufferDone
<1>8. CASE Acknowledge \/ Reject
    BY <1>8 DEF Acknowledge, Reject
<1>9. CASE Push
    BY <1>9 DEF Push
<1>10. CASE PushNotify
    BY <1>10 DEF PushNotify
<1>11. CASE CloseConnection
    BY <1>11 DEF CloseConnection
<1>12. CASE WorkerTest \/ WorkerWait \/ SpuriousWakeup
    BY <1>12 DEF WorkerTest, WorkerWait, SpuriousWakeup
<1>13. CASE WorkerCheck
    <2>1. queue # <<>> => Head(queue) \in Commands
        BY HeadTailProperties
    <2> QED BY <1>13, <2>1, PacketsAssumption DEF WorkerCheck
<1>14. CASE WorkerExecute
    BY <1>14 DEF WorkerExecute
<1>15. CASE StopBegin
    <2>1. (resets \in 0..MaxResets)'
        BY <1>15, PacketsAssumption DEF StopBegin
    <2>2. (running \in BOOLEAN /\ conn \in BOOLEAN)'
        BY <1>15, Zenon DEF StopBegin
    <2> QED BY <1>15, <2>1, <2>2 DEF StopBegin
<1>16. CASE StopNotify \/ StopJoinWorker
    BY <1>16 DEF StopNotify, StopJoinWorker
<1>17. CASE StopClose \/ StopJoinClient
    BY <1>17 DEF StopClose, StopJoinClient
<1>18. CASE Start
    BY <1>18 DEF Start
<1> QED BY <1>1, <1>2, <1>3, <1>4, <1>5, <1>6, <1>7, <1>8, <1>9, <1>10, <1>11,
           <1>12, <1>13, <1>14, <1>15, <1>16, <1>17, <1>18, Zenon
           DEF Next, ClientNext, WorkerNext, StopNext

\* The type of the packets and commands, and what is about to be pushed.
LEMMA DataStep ==
    ASSUME TypeOK, Joined, Pushing, [Next]_vars
    PROVE  /\ (wire \in Seq(Packets) /\ buffer \in Seq(Packets))'
           /\ (queue \in Seq(Commands) /\ executed \in Seq(Commands))'
           /\ (busy \in Commands \cup {NoCommand})'
           /\ (sent \subseteq Packets /\ acked \subseteq Commands)'
           /\ Pushing'
<1>1. /\ wire \in Seq(Packets) /\ buffer \in Seq(Packets)
      /\ queue \in Seq(Commands) /\ executed \in Seq(Commands)
      /\ busy \in Commands \cup {NoCommand}
      /\ sent \subseteq Packets /\ acked \subseteq Commands
    BY DEF TypeOK
<1>2. <<>> \in Seq(Packets)
    OBVIOUS
<1>3. CASE Calm
    BY <1>1, <1>3 DEF Calm, Pushing
<1>4. CASE Drops
    BY <1>1, <1>2, <1>4 DEF Drops, Pushing
<1>5. CASE \E p \in Packets : HubSend(p)
    <2>1. PICK p \in Packets : HubSend(p)
        BY <1>5
    <2>2. Append(wire, p) \in Seq(Packets)
        BY <1>1, AppendProperties
    <2> QED BY <1>1, <2>1, <2>2 DEF HubSend, workVars, Pushing
<1>6. CASE Receive
    <2>1. Moved(buffer, wire, buffer', wire')
        BY <1>6 DEF Receive, Moved
    <2>2. buffer' \in Seq(Packets) /\ wire' \in Seq(Packets)
        BY <1>1, <2>1, StreamReceive
    <2> QED BY <1>1, <1>6, <2>2 DEF Receive, Goto, workVars, Pushing
<1>7. CASE Acknowledge
    BY <1>1, <1>7 DEF Acknowledge, Goto, hubVars, workVars, Pushing
<1>8. CASE Push
    <2>1. /\ Head(buffer) \in Commands /\ buffer # <<>>
          /\ client' = "notify"
          /\ UNCHANGED <<wire, sent, busy, executed, acked>>
          /\ buffer' = Tail(buffer)
        BY <1>8 DEF Push, Goto, Pushing, hubVars
    <2>2. /\ <<Head(buffer)>> \o queue \in Seq(Commands)
          /\ Append(queue, Head(buffer)) \in Seq(Commands)
        <3>1. <<Head(buffer)>> \in Seq(Commands)
            BY <2>1
        <3> QED BY <1>1, <2>1, <3>1, ConcatProperties, AppendProperties
    <2>3. queue' \in Seq(Commands)
        BY <1>8, <2>2 DEF Push
    <2>4. buffer' \in Seq(Packets)
        BY <1>1, <2>1, HeadTailProperties
    <2> QED BY <1>1, <2>1, <2>3, <2>4 DEF Pushing
<1>9. CASE WorkerCheck
    <2>1. queue # <<>> => Head(queue) \in Commands /\ Tail(queue) \in Seq(Commands)
        BY <1>1, HeadTailProperties
    <2> QED BY <1>1, <1>9, <2>1 DEF WorkerCheck, hubVars, Pushing
<1>10. CASE WorkerExecute
    <2>1. busy \in Commands
        BY <1>10 DEF WorkerExecute, TypeOK
    <2>2. Append(executed, busy) \in Seq(Commands)
        BY <1>1, <2>1, AppendProperties
    <2> QED BY <1>1, <1>10, <2>2 DEF WorkerExecute, hubVars, Pushing
<1> QED BY <1>3, <1>4, <1>5, <1>6, <1>7, <1>8, <1>9, <1>10, Moves

\* What is to be parsed stays unseen: a packet is sent once, and the one that
\* is parsed leaves the stream in the step that queues it.
LEMMA FreshStep ==
    ASSUME TypeOK, Joined, Pushing, Fresh, [Next]_vars
    PROVE  Fresh'
<1>1. /\ wire \in Seq(Packets) /\ buffer \in Seq(Packets)
      /\ Stream \in Seq(Packets)
      /\ Unseen(Stream, sent, Accepted)
      /\ Accepted \subseteq sent
    BY StreamParts DEF TypeOK, Fresh, Stream, Both
<1>2. CASE Calm \/ Acknowledge
    <2>1. UNCHANGED <<Stream, sent, Accepted>>
        BY <1>2, AcceptedStep DEF Calm, Acknowledge, hubVars, workVars, Stream, Both
    <2> QED BY <1>1, <2>1 DEF Fresh, Unseen
<1>3. CASE Drops
    <2>1. UNCHANGED <<sent, Accepted>>
        BY <1>3, AcceptedStep DEF Drops
    <2>2. Stream' = <<>> \/ Stream' = buffer
        BY <1>1, <1>3, StreamParts DEF Drops, Stream, Both
    <2>3. Unseen(buffer, sent, Accepted) /\ Unseen(<<>>, sent, Accepted)
        BY <1>1, UnseenPrefix, UnseenEmpty DEF Stream, Both
    <2>4. Unseen(Stream', sent', Accepted')
        BY <2>1, <2>2, <2>3
    <2> QED BY <1>1, <2>1, <2>4 DEF Fresh, Unseen
<1>4. CASE \E p \in Packets : HubSend(p)
    <2>1. PICK p \in Packets : HubSend(p)
        BY <1>4
    <2>2. UNCHANGED Accepted
        BY <2>1, AcceptedStep DEF HubSend, workVars
    <2>3. Stream' = Append(Stream, p)
        BY <1>1, <2>1, StreamParts DEF HubSend, Stream, Both
    <2>4. sent' = sent \cup {p} /\ p \notin sent
        BY <2>1 DEF HubSend
    <2>5. Unseen(Append(Stream, p), sent \cup {p}, Accepted)
        BY <1>1, <2>4, UnseenAppend
    <2>6. Unseen(Stream', sent', Accepted')
        BY <2>2, <2>3, <2>4, <2>5
    <2> QED BY <1>1, <2>2, <2>4, <2>6 DEF Fresh, Unseen
<1>5. CASE Receive
    <2>1. Moved(buffer, wire, buffer', wire')
        BY <1>5 DEF Receive, Moved
    <2>2. UNCHANGED Stream
        <3>1. Both(buffer', wire') = Both(buffer, wire)
            BY <1>1, <2>1, StreamReceive
        <3> QED BY <3>1 DEF Stream
    <2>3. UNCHANGED <<sent, Accepted>>
        BY <1>5, AcceptedStep DEF Receive, workVars
    <2> QED BY <1>1, <2>2, <2>3 DEF Fresh, Unseen
<1>6. CASE Push
    <2>1. /\ buffer # <<>> /\ buffer' = Tail(buffer)
          /\ UNCHANGED <<wire, sent>>
        BY <1>6 DEF Push, Goto, hubVars, Pushing
    <2>2. /\ Stream # <<>> /\ Head(Stream) = Head(buffer)
          /\ Stream' = Tail(Stream)
        <3>1. /\ buffer \o wire # <<>>
              /\ Head(buffer \o wire) = Head(buffer)
              /\ Tail(buffer) \o wire = Tail(buffer \o wire)
            BY <1>1, <2>1, StreamTail
        <3> QED BY <2>1, <3>1 DEF Stream, Both
    <2>3. Accepted' = Accepted \cup {Head(Stream)}
        BY <1>6, <2>2, AcceptedStep
    <2>4. /\ Unseen(Tail(Stream), sent, Accepted \cup {Head(Stream)})
          /\ Head(Stream) \in sent
        BY <1>1, <2>2, UnseenTail
    <2>5. Unseen(Stream', sent', Accepted')
        BY <2>1, <2>2, <2>3, <2>4
    <2> QED BY <1>1, <2>1, <2>3, <2>4, <2>5 DEF Fresh, Unseen
<1>7. CASE WorkerCheck \/ WorkerExecute
    <2>1. UNCHANGED <<Stream, sent, Accepted>>
        BY <1>7, AcceptedStep DEF WorkerCheck, WorkerExecute, hubVars, Stream, Both
    <2> QED BY <1>1, <2>1 DEF Fresh, Unseen
<1> QED BY <1>2, <1>3, <1>4, <1>5, <1>6, <1>7, Moves

\* The command about to be pushed was never taken over before.
LEMMA HeadIsNew ==
    ASSUME TypeOK, Fresh, buffer # <<>>
    PROVE  Head(buffer) \notin Accepted
<1>1. /\ buffer \in Seq(Packets) /\ wire \in Seq(Packets)
      /\ Unseen(buffer \o wire, sent, Accepted)
    BY DEF TypeOK, Fresh, Stream, Both
<1>2. Unseen(buffer, sent, Accepted)
    BY <1>1, UnseenPrefix
<1> QED BY <1>1, <1>2, UnseenTail

\* The queue keeps its two parts.
LEMMA UrgentStep ==
    ASSUME TypeOK, Joined, Pushing, UrgentFirst, [Next]_vars
    PROVE  UrgentFirst'
<1>1. PICK k \in 0..Len(queue) : Splits(queue, k)
    BY DEF UrgentFirst
<1>2. queue \in Seq(Commands)
    BY DEF TypeOK
<1> SUFFICES \E j : Splits(queue', j)
    BY DEF UrgentFirst, Splits
<1>3. CASE UNCHANGED queue
    BY <1>1, <1>3 DEF Splits
<1>4. CASE Push
    <2>1. Head(buffer) \in Commands
        BY <1>4 DEF Push, Goto, Pushing
    <2> QED BY <1>1, <1>2, <1>4, <2>1, SplitPrepend, SplitAppend DEF Push
<1>5. CASE WorkerCheck /\ queue # <<>>
    <2>1. queue' = Tail(queue)
        BY <1>5 DEF WorkerCheck
    <2>2. k > 0 \/ k = 0
        BY <1>1
    <2>3. Splits(Tail(queue), k - 1) \/ Splits(Tail(queue), 0)
        BY <1>1, <1>2, <1>5, <2>2, SplitTail
    <2> QED BY <2>1, <2>3
<1> QED BY <1>3, <1>4, <1>5, Moves
        DEF Calm, Drops, HubSend, Receive, Acknowledge, WorkerCheck,
            WorkerExecute, workVars

\* What was acknowledged and not taken over is what is about to be pushed.
LEMMA AckedStep ==
    ASSUME TypeOK, Joined, Pushing, Fresh, AckedIsKept, [Next]_vars, TypeOK'
    PROVE  AckedIsKept'
<1> DEFINE Pending == IF client = "push" THEN {Head(buffer)} ELSE {}
<1>1. /\ AckedIsKept <=> acked \ Accepted = Pending
      /\ AckedIsKept' <=> acked' \ Accepted' = Pending'
    BY PacketsAssumption DEF AckedIsKept, Accepted, Executing, TypeOK
<1>2. SUFFICES acked' \ Accepted' = Pending'
    BY <1>1
<1>3. acked \ Accepted = Pending
    BY <1>1
<1>4. CASE Calm
    BY <1>3, <1>4, AcceptedStep DEF Calm
<1>5. CASE Drops
    BY <1>3, <1>5, AcceptedStep DEF Drops
<1>6. CASE \E p \in Packets : HubSend(p)
    BY <1>3, <1>6, AcceptedStep DEF HubSend, workVars
<1>7. CASE Receive
    BY <1>3, <1>7, AcceptedStep DEF Receive, Goto, workVars
<1>8. CASE Acknowledge
    <2>1. /\ acked' = acked \cup {Head(buffer)}
          /\ client = "process" /\ client' = "push"
          /\ UNCHANGED <<buffer, queue, busy, executed>>
          /\ buffer # <<>>
        BY <1>8 DEF Acknowledge, Goto, workVars
    <2>2. Accepted' = Accepted
        BY <2>1, AcceptedStep
    <2> QED BY <1>3, <2>1, <2>2, HeadIsNew
<1>9. CASE Push
    BY <1>3, <1>9, AcceptedStep DEF Push, Goto
<1>10. CASE WorkerCheck
    BY <1>3, <1>10, AcceptedStep DEF WorkerCheck
<1>11. CASE WorkerExecute
    BY <1>3, <1>11, AcceptedStep DEF WorkerExecute
<1> QED BY <1>4, <1>5, <1>6, <1>7, <1>8, <1>9, <1>10, <1>11, Moves

-----------------------------------------------------------------------------
\* The initial state satisfies the invariant.
LEMMA InitIInv == Init => IInv
<1> SUFFICES ASSUME Init PROVE IInv
    OBVIOUS
<1>1. TypeOK
    <2>1. 0 \in 0..MaxResets
        BY PacketsAssumption
    <2>2. /\ wire \in Seq(Packets) /\ buffer \in Seq(Packets)
          /\ queue \in Seq(Commands) /\ executed \in Seq(Commands)
        BY DEF Init
    <2>3. /\ running \in BOOLEAN /\ conn \in BOOLEAN
        BY Zenon DEF Init
    <2> QED BY <2>1, <2>2, <2>3
            DEF Init, TypeOK, CtlStates, ClientStates, WorkerStates
<1>2. Queued = {} /\ Executed = {} /\ Accepted = {}
    BY PacketsAssumption DEF Init, Queued, Executed, Accepted, Executing
<1>3. Stream = <<>>
    BY ConcatEmptySeq, EmptySeq DEF Init, Stream, Both
<1>4. Fresh
    BY <1>2, <1>3, UnseenEmpty DEF Fresh
<1>5. Splits(queue, 0) /\ 0 \in 0..Len(queue)
    BY DEF Init, Splits
<1>6. UrgentFirst
    BY <1>5 DEF UrgentFirst
<1>7. Pushing /\ Joined /\ AckedIsKept
    BY DEF Init, Pushing, Joined, AckedIsKept
<1> QED BY <1>1, <1>4, <1>6, <1>7 DEF IInv

\* The invariant holds in every state of every behaviour.
THEOREM Invariance == Spec => []IInv
<1>1. IInv /\ [Next]_vars => IInv'
    <2> SUFFICES ASSUME IInv, [Next]_vars PROVE IInv'
        OBVIOUS
    <2>1. TypeOK' /\ Joined' /\ Pushing'
        BY ControlStep, DataStep DEF IInv, TypeOK
    <2>2. Fresh'
        BY FreshStep DEF IInv
    <2>3. UrgentFirst'
        BY UrgentStep DEF IInv
    <2>4. AckedIsKept'
        BY <2>1, AckedStep DEF IInv
    <2> QED BY <2>1, <2>2, <2>3, <2>4 DEF IInv
<1> QED BY <1>1, InitIInv, PTL DEF Spec

\* The threads, the queue and the histories keep their types, and a command is
\* being executed exactly while the worker is in its handler
\* (CommandClient.cpp:289-311).
THEOREM TypeCorrect == Spec => []TypeOK
<1>1. IInv => TypeOK
    BY DEF IInv
<1> QED BY <1>1, Invariance, PTL

\* A command that the hub saw acknowledged is about to be queued, queued, being
\* executed or executed, whatever connections were lost and however often the
\* client was restarted since (CommandClient.cpp:233-258).
THEOREM AckedStaysKept == Spec => []AckedIsKept
<1>1. IInv => AckedIsKept
    BY DEF IInv
<1> QED BY <1>1, Invariance, PTL

-----------------------------------------------------------------------------
\* The initial state is one of the service.
LEMMA ServiceInit == Init => Service!Init
<1> SUFFICES ASSUME Init PROVE Service!Init
    OBVIOUS
<1>1. queue = <<>> /\ Len(queue) = 0 /\ queue \in Seq(Commands)
    BY DEF Init
<1>2. Lead(queue) = 0
    <2>1. Splits(queue, 0)
        BY <1>1 DEF Splits
    <2> QED BY <1>1, <2>1, LeadIs
<1>3. /\ SubSeq(queue, 1, Lead(queue)) = <<>>
      /\ SubSeq(queue, Lead(queue) + 1, Len(queue)) = <<>>
    BY <1>1, <1>2, SubSeqEmpty
<1>4. Queued \cup Executed \cup {c \in Commands : Executing(c)} = {}
    BY PacketsAssumption DEF Init, Queued, Executed, Executing
<1> QED BY <1>3, <1>4 DEF Init, Service!Init

\* Every step is a step of the service or does not show there: the push accepts,
\* the check of the worker's predicate begins, the return of the handler ends.
LEMMA ServiceStep ==
    ASSUME IInv, [Next]_vars
    PROVE  [Service!Next]_(Service!vars)
<1> USE DEF Service!vars
<1>1. /\ TypeOK /\ Joined /\ Pushing /\ Fresh
      /\ queue \in Seq(Commands)
      /\ Len(queue) \in Nat
    BY LenProperties DEF IInv, TypeOK
<1>2. PICK k \in 0..Len(queue) : Splits(queue, k)
    BY DEF IInv, UrgentFirst
<1>3. Lead(queue) = k
    BY <1>1, <1>2, LeadIs
<1>4. ASSUME UNCHANGED <<queue, busy, executed>>
      PROVE  UNCHANGED Service!vars
    BY <1>1, <1>4, AcceptedStep DEF Accepted
<1>5. CASE Push
    <2> DEFINE c == Head(buffer)
    <2>1. /\ c \in Commands /\ buffer # <<>>
          /\ UNCHANGED <<busy, executed>>
        BY <1>1, <1>5 DEF Push, Goto, Pushing
    <2>2. /\ c \notin Accepted
          /\ Accepted' = Accepted \cup {c}
        BY <1>1, <1>5, <2>1, AcceptedStep, HeadIsNew
    <2>3. CASE c \in Urgent
        <3>1. queue' = <<c>> \o queue
            BY <1>5, <2>3 DEF Push
        <3> HIDE DEF c
        <3>2. /\ queue' \in Seq(Commands)
              /\ Len(queue') = Len(queue) + 1
              /\ Splits(queue', k + 1)
              /\ SubSeq(queue', 1, k + 1) = <<c>> \o SubSeq(queue, 1, k)
              /\ SubSeq(queue', (k + 1) + 1, Len(queue'))
                    = SubSeq(queue, k + 1, Len(queue))
            BY <1>1, <1>2, <2>1, <2>3, <3>1, SplitPrepend
        <3>3. Lead(queue') = k + 1
            BY <3>2, LeadIs
        <3>4. Service!Accept(c)
            BY <1>3, <2>1, <2>2, <2>3, <3>2, <3>3 DEF Service!Accept, Accepted
        <3> QED BY <2>1, <3>4 DEF Service!Next
    <2>4. CASE c \notin Urgent
        <3>1. queue' = Append(queue, c)
            BY <1>5, <2>4 DEF Push
        <3> HIDE DEF c
        <3>2. /\ queue' \in Seq(Commands)
              /\ Splits(queue', k)
              /\ SubSeq(queue', 1, k) = SubSeq(queue, 1, k)
              /\ SubSeq(queue', k + 1, Len(queue'))
                    = Append(SubSeq(queue, k + 1, Len(queue)), c)
            <4>1. /\ Append(queue, c) \in Seq(Commands)
                  /\ Len(Append(queue, c)) = Len(queue) + 1
                  /\ Splits(Append(queue, c), k)
                  /\ SubSeq(Append(queue, c), 1, k) = SubSeq(queue, 1, k)
                  /\ SubSeq(Append(queue, c), k + 1, Len(queue) + 1)
                        = Append(SubSeq(queue, k + 1, Len(queue)), c)
                BY <1>1, <1>2, <2>1, <2>4, SplitAppend
            <4> QED BY <3>1, <4>1
        <3>3. Lead(queue') = k
            BY <3>2, LeadIs
        <3>4. Service!Accept(c)
            BY <1>3, <2>1, <2>2, <2>4, <3>2, <3>3 DEF Service!Accept, Accepted
        <3> QED BY <2>1, <3>4 DEF Service!Next
    <2> QED BY <2>3, <2>4
<1>6. CASE WorkerCheck
    <2>1. CASE queue = <<>>
        BY <1>4, <1>6, <2>1 DEF WorkerCheck
    <2>2. CASE queue # <<>>
        <3>1. /\ busy = NoCommand
              /\ busy' = Head(queue) /\ queue' = Tail(queue)
              /\ executed' = executed
            BY <1>1, <1>6, <2>2 DEF WorkerCheck, TypeOK
        <3>2. UNCHANGED Accepted
            BY <1>1, <1>6, AcceptedStep
        <3>3. CASE k > 0
            <4>1. /\ queue' \in Seq(Commands)
                  /\ Splits(queue', k - 1)
                  /\ SubSeq(queue, 1, k) # <<>>
                  /\ Head(SubSeq(queue, 1, k)) = Head(queue)
                  /\ SubSeq(queue', 1, k - 1) = Tail(SubSeq(queue, 1, k))
                  /\ SubSeq(queue', (k - 1) + 1, Len(queue'))
                        = SubSeq(queue, k + 1, Len(queue))
                BY <1>1, <1>2, <2>2, <3>1, <3>3, SplitTail
            <4>2. Lead(queue') = k - 1
                BY <4>1, LeadIs
            <4>3. Service!BeginUrgent
                BY <1>3, <3>1, <3>2, <4>1, <4>2
                   DEF Service!BeginUrgent, Accepted
            <4> QED BY <4>3 DEF Service!Next
        <3>4. CASE k = 0
            <4>1. /\ queue' \in Seq(Commands)
                  /\ Splits(queue', 0)
                  /\ SubSeq(queue, 1, k) = <<>>
                  /\ SubSeq(queue, k + 1, Len(queue)) = queue
                  /\ SubSeq(queue', 1, 0) = <<>>
                  /\ SubSeq(queue', 0 + 1, Len(queue')) = queue'
                BY <1>1, <1>2, <2>2, <3>1, <3>4, SplitTail
            <4>2. Lead(queue') = 0
                BY <4>1, LeadIs
            <4>3. Service!BeginNormal
                BY <1>3, <2>2, <3>1, <3>2, <4>1, <4>2
                   DEF Service!BeginNormal, Accepted
            <4> QED BY <4>3 DEF Service!Next
        <3>5. k > 0 \/ k = 0
            BY <1>1, <1>2
        <3> QED BY <3>3, <3>4, <3>5
    <2> QED BY <2>1, <2>2
<1>7. CASE WorkerExecute
    <2>1. /\ busy # NoCommand
          /\ executed' = Append(executed, busy) /\ busy' = NoCommand
          /\ queue' = queue
        BY <1>1, <1>7 DEF WorkerExecute, TypeOK
    <2>2. UNCHANGED Accepted
        BY <1>1, <1>7, AcceptedStep
    <2>3. Service!End
        BY <2>1, <2>2 DEF Service!End, Accepted
    <2> QED BY <2>3 DEF Service!Next
<1>8. CASE Calm \/ Drops \/ Receive \/ Acknowledge \/ \E p \in Packets : HubSend(p)
    BY <1>4, <1>8 DEF Calm, Drops, Receive, Acknowledge, HubSend, workVars
<1> QED BY <1>1, <1>5, <1>6, <1>7, <1>8, Moves

\* The client implements the service, for any commands and any number of
\* restarts: every accepted command is executed once, one at a time, urgent ones
\* first and the others in order (CommandClient.cpp:249-258, 289-311).
THEOREM ClientIsService == Spec => ImplementsService
<1>1. IInv /\ [Next]_vars => [Service!Next]_(Service!vars)
    BY ServiceStep
<1> QED BY <1>1, ServiceInit, Invariance, PTL
        DEF Spec, ImplementsService, Service!Spec
=============================================================================
