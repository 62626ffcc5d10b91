---------------------------- MODULE DataVaultProofs ----------------------------
(***************************************************************************)
(* For any clock, any commands of the operator and any steps of the macro  *)
(* sequence: a file is made from the acquisition its name tells; if every  *)
(* command asks once for the directory of its output, links and tables     *)
(* lead to files whose makers have reported success; a sequence whose      *)
(* steps read what acquisitions write uses the data of its own time only.  *)
(***************************************************************************)
EXTENDS DataVault, TLAPS, WellFoundedInduction

\* The suffixes of the files that acquisitions write; no analysis writes one.
Raw == {"noise", "dark", "raw"}

AnalysisPlaces == {"analysing", "publish", "table"}

Vaults == {0} \cup Times

Given == Operator \cup Range(Steps)

\* No command asks for the directory of its output a second time.
NamesOutputOnce ==
    \A cmd \in Given \cap DOMAIN Processings : ~Processings[cmd].again

\* What may be linked.
Whole(file) == NamesOutputOnce => file.made

-----------------------------------------------------------------------------
\* The clock only goes on, and the vaults are moments at which a sequence began.
ClockInv ==
    /\ now \in 1 .. Len(Clock) + 1
    /\ timestamp \in Vaults /\ timestamp <= now
    /\ vaultPath \in {0, timestamp}
    /\ vaultPath # 0 <=> position # 0

\* Where the macro thread is; it handles a command only inside a step.
MacroInv ==
    /\ position \in 0 .. Len(Steps) + 1
    /\ waiting \in BOOLEAN /\ stopped \in BOOLEAN
    /\ waiting => position \in DOMAIN Steps /\ handler["macro"] = Idle
    /\ handler["macro"].pc # "idle" => position \in DOMAIN Steps

\* The record of a command under way.
Shape(h) ==
    \/ h = Idle
    \/ h \in [pc : {"true", "false"}]
    \/ h \in [pc : {"stamped"}, cmd : DOMAIN Acquisitions, ts : Times]
    \/ h \in [pc : {"selected"}, cmd : DOMAIN Processings, ts : Times]
    \/ h \in [pc : {"located"}, cmd : DOMAIN Processings, ts : Times, in : Paths]
    \/ h \in [pc : {"named"}, cmd : DOMAIN Processings, ts : Times,
              in : Paths, out : Paths]
    \/ h \in [pc : {"stopping", "swept"}, cmd : Stops]
    \/ h \in [pc : AnalysisPlaces, cmd : DOMAIN Processings, ts : Times,
              in : Paths, out : Paths, file : Paths]

HandlerShape ==
    /\ handler = [t \in Threads |-> handler[t]]
    /\ \A t \in Threads : Shape(handler[t])
    /\ handler["worker"].pc \notin {"true", "false"}

\* What a handler has chosen is of the past, and its names have the timestamp
\* it has chosen.
Chosen(h) ==
    /\ h.pc \in AnalysisPlaces \cup {"stamped", "selected", "located", "named"} =>
          h.ts < now
    /\ h.pc \in AnalysisPlaces \cup {"selected", "located", "named"} => h.cmd \in Given
    /\ h.pc \in AnalysisPlaces \cup {"located", "named"} =>
          h.in.ts = h.ts /\ h.in.suffix = Processings[h.cmd].input
    /\ h.pc \in AnalysisPlaces \cup {"named"} =>
          /\ h.out = Path(h.out.vault, Processings[h.cmd].to,
                          Processings[h.cmd].prefix, h.ts,
                          Processings[h.cmd].output)
          /\ h.out.vault <= timestamp
    /\ h.pc \in AnalysisPlaces =>
          h.file.ts = h.ts /\ h.file.suffix = Processings[h.cmd].output
    /\ h.pc = "table" => Processings[h.cmd].tabled

ChosenInv == \A t \in Threads : Chosen(handler[t])

\* The macro thread works in its vault.
InVault(h) ==
    /\ h.pc \in AnalysisPlaces \cup {"selected", "located", "named"} =>
          h.cmd = Steps[position]
    /\ h.pc \in AnalysisPlaces \cup {"located", "named"} => h.in.vault = vaultPath
    /\ h.pc \in AnalysisPlaces \cup {"named"} => h.out.vault = vaultPath

MacroChosen == InVault(handler["macro"])

\* The acquisitions under way.
TasksInv ==
    /\ \A t \in tasks :
          /\ t \in [cmd : DOMAIN Acquisitions, ts : Times, vault : Vaults,
                    begun : Vaults, state : {"running", "good", "bad"}]
          /\ t.ts < now
          /\ t.vault <= timestamp
          /\ t.vault # 0 => t.begun = t.vault
    /\ \A t, u \in tasks : t.ts = u.ts => t = u

\* A timestamp that was taken and not yet used is new.
StampedInv ==
    \A t \in Threads : handler[t].pc = "stamped" =>
        /\ \A u \in tasks : u.ts # handler[t].ts
        /\ \A p \in DOMAIN files : p.ts # handler[t].ts
        /\ \A u \in Threads \ {t} :
              handler[u].pc = "stamped" => handler[u].ts # handler[t].ts

\* The files.
FilesInv ==
    \A p \in DOMAIN files :
        /\ p \in Paths
        /\ files[p] \in [from : Times, begun : Vaults, made : BOOLEAN]
        /\ files[p].from = p.ts
        /\ p.ts < now
        /\ p.vault <= timestamp
        /\ p.vault # 0 /\ p.suffix \in Raw => files[p].begun = p.vault

LinksInv ==
    \A q \in DOMAIN links :
        /\ q \in Paths
        /\ q.vault = 0
        /\ links[q] \in DOMAIN files
        /\ links[q].vault # 0
        /\ links[q].ts = q.ts
        /\ links[q].suffix = q.suffix
        /\ Whole(files[links[q]])

\* What a task writes is made exactly when the task has succeeded.
OutputsInv ==
    \A t \in tasks :
        /\ t.state = "running" =>
             \A p \in DOMAIN files : p.ts = t.ts /\ p.suffix \in Raw => ~files[p].made
        /\ t.state = "good" =>
             \A p \in Outputs(t) \cap DOMAIN files : files[p].made

\* A path leads to a file that may be linked.
Complete(p) == exists(p) /\ Whole(files[Resolve(p)])

\* The path in a standard directory that is linked to path p of a vault.
Original(p, dir) == [p EXCEPT !.vault = 0, !.dir = dir]

\* The input of an analysis stays, what it has opened is its output or was
\* replaced by a link, and then its output may be linked.
AnalysisAt(h) ==
    /\ h.pc \in AnalysisPlaces => exists(h.in)
    /\ h.pc = "analysing" /\ ~Processings[h.cmd].again =>
          h.out \in DOMAIN links \/ (h.file = h.out /\ h.out \in DOMAIN files)
    /\ h.pc \in {"publish", "table"} /\ ~Processings[h.cmd].again =>
          Complete(h.out)
    /\ h.pc = "table" /\ h.out.vault # 0 =>
          Original(h.out, Processings[h.cmd].to) \in DOMAIN links

AnalysisInv == \A t \in Threads : AnalysisAt(handler[t])

TableInv ==
    /\ table = [t \in Tables |-> table[t]]
    /\ \A t \in Tables : table[t] # NoTable =>
          table[t] \in Paths /\ Complete(table[t])

\* A sequence that began while the operator's analysis was under way has nothing
\* in its vault of the time that the analysis is about.
Overtaken(h) ==
    /\ vaultPath # 0
    /\ h.pc \in AnalysisPlaces \cup {"named"} /\ ~Processings[h.cmd].again
    /\ h.out.vault # vaultPath

NewVaultInv ==
    Overtaken(handler["worker"]) =>
        /\ handler["worker"].ts < vaultPath
        /\ \A p \in DOMAIN files : p.vault = vaultPath => p.ts >= vaultPath
        /\ \A t \in tasks : t.vault = vaultPath => t.ts >= vaultPath
        /\ handler["macro"].pc \in AnalysisPlaces \cup {"stamped", "selected", "located", "named"}
              => handler["macro"].ts >= vaultPath

IInv ==
    /\ ClockInv /\ MacroInv
    /\ HandlerShape /\ ChosenInv /\ MacroChosen
    /\ TasksInv /\ StampedInv
    /\ FilesInv /\ LinksInv /\ OutputsInv
    /\ AnalysisInv /\ TableInv /\ NewVaultInv

-----------------------------------------------------------------------------
\* What the tables of commands say.

\* Acquisitions write raw files.
LEMMA AcquisitionFacts ==
    ASSUME NEW c \in DOMAIN Acquisitions
    PROVE  /\ Acquisitions[c].dir \in Directories
           /\ Acquisitions[c].prefix \in Prefixes
           /\ Acquisitions[c].suffixes \subseteq Raw
<1>1. DOMAIN Acquisitions =
        {"ACQUIRE_THRESHOLD_CALIBRATION", "ACQUIRE_THRESHOLD_CALIBRATION_BN",
         "ACQUIRE_THRESHOLD_CALIBRATION_D", "ACQUIRE_QDC_CALIBRATION",
         "ACQUIRE_TDC_CALIBRATION", "ACQUIRE_SIPM_DATA"}
    BY DEF Acquisitions
<1>2. CASE c = "ACQUIRE_THRESHOLD_CALIBRATION"
    BY <1>2 DEF Acquisitions, Raw, Directories, Prefixes
<1>3. CASE c = "ACQUIRE_THRESHOLD_CALIBRATION_BN"
    BY <1>3 DEF Acquisitions, Raw, Directories, Prefixes
<1>4. CASE c = "ACQUIRE_THRESHOLD_CALIBRATION_D"
    BY <1>4 DEF Acquisitions, Raw, Directories, Prefixes
<1>5. CASE c = "ACQUIRE_QDC_CALIBRATION"
    BY <1>5 DEF Acquisitions, Raw, Directories, Prefixes
<1>6. CASE c = "ACQUIRE_TDC_CALIBRATION"
    BY <1>6 DEF Acquisitions, Raw, Directories, Prefixes
<1>7. CASE c = "ACQUIRE_SIPM_DATA"
    BY <1>7 DEF Acquisitions, Raw, Directories, Prefixes
<1> QED BY <1>1, <1>2, <1>3, <1>4, <1>5, <1>6, <1>7

\* Analyses write files of other kinds, and have a table if they are to link one.
LEMMA ProcessingFacts ==
    ASSUME NEW c \in DOMAIN Processings
    PROVE  /\ Processings[c].prefix \in Prefixes
           /\ Processings[c].from \in Directories
           /\ Processings[c].to \in Directories
           /\ Processings[c].input \in Suffixes
           /\ Processings[c].output \in Suffixes
           /\ Processings[c].output \notin Raw
           /\ Processings[c].tabled \in BOOLEAN
           /\ Processings[c].tabled =>
                 Processings[c].prefix \in Tables /\ ~Processings[c].again
           /\ Processings[c].again \in BOOLEAN
<1> DEFINE Goal == /\ Processings[c].prefix \in Prefixes
                   /\ Processings[c].from \in Directories
                   /\ Processings[c].to \in Directories
                   /\ Processings[c].input \in Suffixes
                   /\ Processings[c].output \in Suffixes
                   /\ Processings[c].output \notin Raw
                   /\ Processings[c].tabled \in BOOLEAN
                   /\ Processings[c].again \in BOOLEAN
                   /\ Processings[c].tabled => ~Processings[c].again
<1>1. DOMAIN Processings =
        {"PROCESS_THRESHOLD_CALIBRATION", "PROCESS_TDC_CALIBRATION",
         "PROCESS_QDC_CALIBRATION", "CONVERT_RAW_TO_RAW",
         "CONVERT_RAW_TO_SINGLES", "CONVERT_STG1_TO_STG2",
         "PROCESS_QA_COIN", "PROCESS_QA_IRIDIUM"}
    BY DEF Processings
<1>2. ASSUME c = "PROCESS_THRESHOLD_CALIBRATION" PROVE Goal
    BY <1>2 DEF Processings, Stage, Raw, Directories, Prefixes,
                     Suffixes
<1>3. ASSUME c = "PROCESS_TDC_CALIBRATION" PROVE Goal
    BY <1>3 DEF Processings, Stage, Raw, Directories, Prefixes,
                     Suffixes
<1>4. ASSUME c = "PROCESS_QDC_CALIBRATION" PROVE Goal
    BY <1>4 DEF Processings, Stage, Raw, Directories, Prefixes,
                     Suffixes
<1>5. ASSUME c = "CONVERT_RAW_TO_RAW" PROVE Goal
    BY <1>5 DEF Processings, Stage, Raw, Directories, Prefixes,
                     Suffixes
<1>6. ASSUME c = "CONVERT_RAW_TO_SINGLES" PROVE Goal
    BY <1>6 DEF Processings, Stage, Raw, Directories, Prefixes,
                     Suffixes
<1>7. ASSUME c = "CONVERT_STG1_TO_STG2" PROVE Goal
    BY <1>7 DEF Processings, Stage, Raw, Directories, Prefixes,
                     Suffixes
<1>8. ASSUME c = "PROCESS_QA_COIN" PROVE Goal
    BY <1>8 DEF Processings, Stage, Raw, Directories, Prefixes,
                     Suffixes
<1>9. ASSUME c = "PROCESS_QA_IRIDIUM" PROVE Goal
    BY <1>9 DEF Processings, Stage, Raw, Directories, Prefixes,
                     Suffixes
<1>10. Goal
    BY <1>1, <1>2, <1>3, <1>4, <1>5, <1>6, <1>7, <1>8, <1>9
<1>11. Processings[c].tabled => Processings[c].prefix \in Tables
    BY DEF Tables
<1> QED BY <1>10, <1>11

\* The fields of a path.
LEMMA PathFields ==
    ASSUME NEW v \in Vaults, NEW dir \in Directories, NEW prefix \in Prefixes,
           NEW ts \in Times, NEW suffix \in Suffixes
    PROVE  /\ Path(v, dir, prefix, ts, suffix) \in Paths
           /\ Path(v, dir, prefix, ts, suffix).vault = v
           /\ Path(v, dir, prefix, ts, suffix).ts = ts
           /\ Path(v, dir, prefix, ts, suffix).suffix = suffix
           /\ Path(v, dir, prefix, ts, suffix).prefix = prefix
<1>1. "vault" \in Directories
    BY DEF Directories
<1>2. CASE v = 0
    BY <1>2 DEF Path, Paths, Vaults
<1>3. CASE v # 0
    BY <1>1, <1>3 DEF Path, Paths, Vaults
<1> QED BY <1>2, <1>3

\* What a task writes.
LEMMA OutputFields ==
    ASSUME NEW t, t.cmd \in DOMAIN Acquisitions, t.vault \in Vaults, t.ts \in Times,
           NEW p \in Outputs(t)
    PROVE  /\ p \in Paths
           /\ p.vault = t.vault /\ p.ts = t.ts /\ p.suffix \in Raw
<1>1. PICK x \in Acquisitions[t.cmd].suffixes :
        p = Path(t.vault, Acquisitions[t.cmd].dir, Acquisitions[t.cmd].prefix,
                 t.ts, x)
    BY DEF Outputs
<1>2. x \in Raw
    BY AcquisitionFacts
<1>3. x \in Suffixes
    BY <1>2 DEF Raw, Suffixes
<1>4. Acquisitions[t.cmd].dir \in Directories /\ Acquisitions[t.cmd].prefix \in Prefixes
    BY AcquisitionFacts
<1> QED BY <1>1, <1>2, <1>3, <1>4, PathFields

-----------------------------------------------------------------------------
\* The choice of the latest timestamp.

Millis == 0 .. 999

\* The text is at most three digits and the Z.
TextLength(n) == IF n < 10 THEN 2 ELSE IF n < 100 THEN 3 ELSE 4

TextDigit(n, i) == IF i <= TextLength(n) THEN MillisText(n)[i] ELSE 0

\* A number whose order is that of the text of the milliseconds.
Code(n) ==
    TextDigit(n, 1) * 1331 + TextDigit(n, 2) * 121 + TextDigit(n, 3) * 11
    + TextDigit(n, 4)

LEMMA TextDigits ==
    ASSUME NEW n \in Millis
    PROVE  /\ TextLength(n) \in {2, 3, 4}
           /\ DOMAIN MillisText(n) = 1 .. TextLength(n)
           /\ TextDigit(n, 1) \in 0 .. 10 /\ TextDigit(n, 2) \in 0 .. 10
           /\ TextDigit(n, 3) \in 0 .. 10 /\ TextDigit(n, 4) \in 0 .. 10
<1>1. n \in Nat /\ n < 1000
    BY DEF Millis
<1>2. CASE n < 10
  <2>1. MillisText(n) = <<n>> \o <<10>>
    BY <1>1, <1>2 DEF MillisText
  <2>2. /\ DOMAIN MillisText(n) = 1 .. 2
        /\ MillisText(n)[1] = n /\ MillisText(n)[2] = 10
    BY <1>1, <2>1
  <2> QED BY <1>1, <1>2, <2>2 DEF TextLength, TextDigit
<1>3. CASE ~(n < 10) /\ n < 100
  <2>1. MillisText(n) = <<n \div 10, n % 10>> \o <<10>>
    BY <1>1, <1>3 DEF MillisText
  <2>2. n \div 10 \in 0 .. 10 /\ n % 10 \in 0 .. 10
    BY <1>1, <1>3
  <2>3. /\ DOMAIN MillisText(n) = 1 .. 3
        /\ MillisText(n)[1] = n \div 10 /\ MillisText(n)[2] = n % 10
        /\ MillisText(n)[3] = 10
    BY <2>1, <2>2
  <2> QED BY <1>1, <1>3, <2>2, <2>3 DEF TextLength, TextDigit
<1>4. CASE ~(n < 100)
  <2>1. MillisText(n) = <<n \div 100, (n \div 10) % 10, n % 10>> \o <<10>>
    BY <1>1, <1>4 DEF MillisText
  <2>2. /\ n \div 100 \in 0 .. 10 /\ (n \div 10) % 10 \in 0 .. 10
        /\ n % 10 \in 0 .. 10
    BY <1>1, <1>4
  <2>3. /\ DOMAIN MillisText(n) = 1 .. 4
        /\ MillisText(n)[1] = n \div 100 /\ MillisText(n)[2] = (n \div 10) % 10
        /\ MillisText(n)[3] = n % 10 /\ MillisText(n)[4] = 10
    BY <2>1, <2>2
  <2> QED BY <1>1, <1>4, <2>2, <2>3 DEF TextLength, TextDigit
<1> QED BY <1>1, <1>2, <1>3, <1>4

\* The order of the text is that of Code.
LEMMA TextOrder ==
    ASSUME NEW m \in Millis, NEW n \in Millis
    PROVE  (\E i \in DOMAIN MillisText(m) \cap DOMAIN MillisText(n) :
                /\ MillisText(m)[i] < MillisText(n)[i]
                /\ \A j \in 1 .. i - 1 : MillisText(m)[j] = MillisText(n)[j])
           => Code(m) < Code(n)
<1> DEFINE a == TextDigit(m, 1)  b == TextDigit(m, 2)
           c == TextDigit(m, 3)  d == TextDigit(m, 4)
           e == TextDigit(n, 1)  f == TextDigit(n, 2)
           g == TextDigit(n, 3)  h == TextDigit(n, 4)
<1>1. /\ TextLength(m) \in {2, 3, 4}
      /\ DOMAIN MillisText(m) = 1 .. TextLength(m)
      /\ a \in 0 .. 10 /\ b \in 0 .. 10 /\ c \in 0 .. 10 /\ d \in 0 .. 10
    BY TextDigits
<1>2. /\ TextLength(n) \in {2, 3, 4}
      /\ DOMAIN MillisText(n) = 1 .. TextLength(n)
      /\ e \in 0 .. 10 /\ f \in 0 .. 10 /\ g \in 0 .. 10 /\ h \in 0 .. 10
    BY TextDigits
<1> SUFFICES ASSUME NEW i \in DOMAIN MillisText(m) \cap DOMAIN MillisText(n),
                    MillisText(m)[i] < MillisText(n)[i],
                    \A j \in 1 .. i - 1 : MillisText(m)[j] = MillisText(n)[j]
             PROVE  Code(m) < Code(n)
    OBVIOUS
<1>3. i \in {1, 2, 3, 4} /\ i <= TextLength(m) /\ i <= TextLength(n)
    BY <1>1, <1>2
<1>4. /\ TextDigit(m, i) < TextDigit(n, i)
      /\ \A j \in {1, 2, 3, 4} : j < i => TextDigit(m, j) = TextDigit(n, j)
    BY <1>1, <1>2, <1>3 DEF TextDigit
<1>5. \/ a < e
      \/ a = e /\ b < f
      \/ a = e /\ b = f /\ c < g
      \/ a = e /\ b = f /\ c = g /\ d < h
    BY <1>3, <1>4
<1>6. /\ Code(m) = a * 1331 + b * 121 + c * 11 + d
      /\ Code(n) = e * 1331 + f * 121 + g * 11 + h
    BY DEF Code
<1> HIDE DEF a, b, c, d, e, f, g, h
<1> QED BY <1>1, <1>2, <1>5, <1>6

\* A set of natural numbers that is not empty has a least element.
LEMMA LeastNat ==
    ASSUME NEW T, T \subseteq Nat, T # {}
    PROVE  \E x \in T : \A y \in T : ~(y < x)
<1> DEFINE R == OpToRel(<, Nat)
<1>1. IsWellFoundedOn(R, Nat)
    BY NatLessThanWellFounded
<1> HIDE DEF R
<1>2. PICK x \in T : \A y \in T : ~(<<y, x>> \in R)
    BY <1>1, WFMin
<1>3. ASSUME NEW y \in T, y < x
      PROVE  <<y, x>> \in R
    BY <1>3 DEF R, OpToRel
<1> QED BY <1>2, <1>3

\* How far a moment is, as a timestamp, from the end of the clock.
Distance(t) == (Clock[Len(Clock)].sec - Clock[t].sec) * 20000 + 20000
               - Code(Clock[t].ms)

LEMMA CodeRange ==
    ASSUME NEW n \in Millis
    PROVE  Code(n) \in Nat /\ Code(n) < 20000
<1> DEFINE a == TextDigit(n, 1)  b == TextDigit(n, 2)
           c == TextDigit(n, 3)  d == TextDigit(n, 4)
<1>1. a \in 0 .. 10 /\ b \in 0 .. 10 /\ c \in 0 .. 10 /\ d \in 0 .. 10
    BY TextDigits
<1>2. Code(n) = a * 1331 + b * 121 + c * 11 + d
    BY DEF Code
<1> HIDE DEF a, b, c, d
<1> QED BY <1>1, <1>2

LEMMA ClockTypes ==
    /\ Len(Clock) \in Nat
    /\ \A t \in Times :
          /\ Len(Clock) \in Times
          /\ Clock[t].sec \in Nat
          /\ Clock[t].ms \in Millis
          /\ Clock[t].sec <= Clock[Len(Clock)].sec
<1> DEFINE S == [sec : Nat, ms : Millis]
<1>1. Clock \in Seq(S)
    BY ClockAssumption DEF Millis
<1>2. \A x \in S : x.sec \in Nat /\ x.ms \in Millis
    OBVIOUS
<1> HIDE DEF S
<1>3. Len(Clock) \in Nat /\ \A t \in Times : Clock[t] \in S
    BY <1>1 DEF Times
<1>4. \A t \in Times : Clock[t].sec \in Nat /\ Clock[t].ms \in Millis
    BY <1>2, <1>3
<1>5. ASSUME NEW t \in Times
      PROVE  Len(Clock) \in Times /\ Clock[t].sec <= Clock[Len(Clock)].sec
  <2>1. Len(Clock) \in Times
    BY <1>3 DEF Times
  <2>2. CASE t = Len(Clock)
    BY <1>4, <2>1, <2>2
  <2>3. CASE t # Len(Clock)
    <3>1. \/ Clock[t].sec < Clock[Len(Clock)].sec
          \/ Clock[t].sec = Clock[Len(Clock)].sec
      BY <1>3, <2>1, <2>3, ClockAssumption DEF Times
    <3> QED BY <1>4, <2>1, <3>1
  <2> QED BY <2>1, <2>2, <2>3
<1> QED BY <1>3, <1>4, <1>5

LEMMA DistanceType ==
    ASSUME NEW t \in Times
    PROVE  Distance(t) \in Nat
<1> DEFINE a == Clock[t].sec  b == Clock[Len(Clock)].sec  c == Code(Clock[t].ms)
<1>1. a \in Nat /\ b \in Nat /\ a <= b
    BY ClockTypes
<1>2. Clock[t].ms \in Millis
    BY ClockTypes
<1>3. c \in Nat /\ c < 20000
    BY <1>2, CodeRange
<1>4. Distance(t) = (b - a) * 20000 + 20000 - c
    BY DEF Distance
<1> HIDE DEF a, b, c
<1> QED BY <1>1, <1>3, <1>4

LEMMA DistanceOrder ==
    ASSUME NEW s \in Times, NEW t \in Times, Before(s, t)
    PROVE  Distance(t) < Distance(s)
<1> DEFINE a == Clock[s].sec  b == Clock[t].sec  c == Code(Clock[s].ms)
           d == Code(Clock[t].ms)  e == Clock[Len(Clock)].sec
<1>1. a \in Nat /\ b \in Nat /\ e \in Nat
    BY ClockTypes
<1>2. Clock[s].ms \in Millis /\ Clock[t].ms \in Millis
    BY ClockTypes
<1>3. c \in Nat /\ c < 20000 /\ d \in Nat /\ d < 20000
    BY <1>2, CodeRange
<1>4. a < b \/ (a = b /\ c < d)
  <2> DEFINE m == Clock[s].ms  n == Clock[t].ms
  <2>1. \/ a < b
        \/ /\ a = b
           /\ \E i \in DOMAIN MillisText(m) \cap DOMAIN MillisText(n) :
                /\ MillisText(m)[i] < MillisText(n)[i]
                /\ \A j \in 1 .. i - 1 : MillisText(m)[j] = MillisText(n)[j]
    BY DEF Before
  <2>2. m \in Millis /\ n \in Millis /\ c = Code(m) /\ d = Code(n)
    BY <1>2
  <2> HIDE DEF a, b, c, d, m, n
  <2> QED BY <2>1, <2>2, TextOrder
<1>5. /\ Distance(s) = (e - a) * 20000 + 20000 - c
      /\ Distance(t) = (e - b) * 20000 + 20000 - d
    BY DEF Distance
<1> HIDE DEF a, b, c, d, e
<1> QED BY <1>1, <1>3, <1>4, <1>5

\* The latest timestamp is one of a file that is there.
LEMMA LatestIsCandidate ==
    ASSUME NEW cmd, NEW v, Candidates(cmd, v) # {},
           Candidates(cmd, v) \subseteq Times
    PROVE  getLatestTimestamp(cmd, v) \in Candidates(cmd, v)
<1> DEFINE C == Candidates(cmd, v)
           T == {Distance(t) : t \in C}
<1>1. C # {} /\ C \subseteq Times
    OBVIOUS
<1> HIDE DEF C
<1>2. T \subseteq Nat /\ T # {}
    BY <1>1, DistanceType
<1>3. PICK x \in T : \A y \in T : ~(y < x)
    BY <1>2, LeastNat
<1>4. PICK t \in C : x = Distance(t)
    BY <1>3
<1>5. ASSUME NEW s \in C, Before(t, s)
      PROVE  FALSE
    BY <1>1, <1>3, <1>4, <1>5, DistanceOrder
<1>6. \E u \in C : \A s \in C : ~Before(u, s)
    BY <1>5
<1> QED BY <1>6 DEF C, getLatestTimestamp

-----------------------------------------------------------------------------
\* Types.

LEMMA PathTypes ==
    ASSUME NEW p \in Paths
    PROVE  /\ p.vault \in Vaults /\ p.vault \in Nat
           /\ p.ts \in Times /\ p.ts \in Nat /\ p.suffix \in Suffixes
<1>1. Len(Clock) \in Nat
    BY ClockTypes
<1>2. p.vault \in Vaults /\ p.ts \in Times /\ p.suffix \in Suffixes
    BY DEF Paths, Vaults
<1> QED BY <1>1, <1>2 DEF Vaults, Times

LEMMA OriginalFields ==
    ASSUME NEW p \in Paths, NEW dir \in Directories
    PROVE  /\ Original(p, dir) \in Paths
           /\ Original(p, dir).vault = 0
           /\ Original(p, dir).dir = dir
           /\ Original(p, dir).prefix = p.prefix
           /\ Original(p, dir).ts = p.ts
           /\ Original(p, dir).suffix = p.suffix
BY DEF Paths, Original

LEMMA OriginalOfPath ==
    ASSUME NEW v \in Vaults, NEW dir \in Directories, NEW prefix \in Prefixes,
           NEW ts \in Times, NEW suffix \in Suffixes
    PROVE  Original(Path(v, dir, prefix, ts, suffix), dir)
           = Path(0, dir, prefix, ts, suffix)
<1> DEFINE p == Path(v, dir, prefix, ts, suffix)
           q == Path(0, dir, prefix, ts, suffix)
           r == Original(p, dir)
<1>1. /\ p \in Paths /\ p.prefix = prefix /\ p.ts = ts /\ p.suffix = suffix
    BY PathFields
<1>2. /\ q \in Paths /\ q.vault = 0 /\ q.prefix = prefix /\ q.ts = ts
      /\ q.suffix = suffix
    BY PathFields DEF Vaults
<1>3. q.dir = dir
    BY DEF Path
<1> HIDE DEF p, q
<1>4. /\ r \in Paths /\ r.vault = 0 /\ r.dir = dir /\ r.prefix = prefix
      /\ r.ts = ts /\ r.suffix = suffix
    BY <1>1, OriginalFields
<1> HIDE DEF r
<1>5. r = q
    BY <1>2, <1>3, <1>4 DEF Paths
<1> QED BY <1>5 DEF p, q, r

Places == {"idle", "stamped", "selected", "located", "named", "analysing",
           "publish", "table", "stopping", "swept", "true", "false"}

\* The fields of the record of a command under way.
LEMMA ShapeFields ==
    ASSUME NEW h, Shape(h)
    PROVE  /\ h.pc \in Places
           /\ h.pc = "idle" => h = Idle
           /\ h.pc = "stamped" => h.cmd \in DOMAIN Acquisitions /\ h.ts \in Times
           /\ h.pc \in AnalysisPlaces \cup {"selected", "located", "named"} =>
                 h.cmd \in DOMAIN Processings /\ h.ts \in Times
           /\ h.pc \in AnalysisPlaces \cup {"located", "named"} => h.in \in Paths
           /\ h.pc \in AnalysisPlaces \cup {"named"} => h.out \in Paths
           /\ h.pc \in AnalysisPlaces => h.file \in Paths
<1>1. CASE h = Idle
    BY <1>1 DEF Idle, Places, AnalysisPlaces
<1>2. CASE h \in [pc : {"true", "false"}]
    BY <1>2 DEF Places, AnalysisPlaces
<1>3. CASE h \in [pc : {"stamped"}, cmd : DOMAIN Acquisitions, ts : Times]
    BY <1>3 DEF Places, AnalysisPlaces
<1>4. CASE h \in [pc : {"selected"}, cmd : DOMAIN Processings, ts : Times]
    BY <1>4 DEF Places, AnalysisPlaces
<1>5. CASE h \in [pc : {"located"}, cmd : DOMAIN Processings, ts : Times, in : Paths]
    BY <1>5 DEF Places, AnalysisPlaces
<1>6. CASE h \in [pc : AnalysisPlaces, cmd : DOMAIN Processings, ts : Times,
                  in : Paths, out : Paths, file : Paths]
    BY <1>6 DEF Places, AnalysisPlaces
<1>7. CASE h \in [pc : {"named"}, cmd : DOMAIN Processings, ts : Times,
                  in : Paths, out : Paths]
    BY <1>7 DEF Places, AnalysisPlaces
<1>8. CASE h \in [pc : {"stopping", "swept"}, cmd : Stops]
    BY <1>8 DEF Places, AnalysisPlaces
<1> QED BY <1>1, <1>2, <1>3, <1>4, <1>5, <1>6, <1>7, <1>8 DEF Shape

\* An analysis goes on.
LEMMA NextPlace ==
    ASSUME NEW h, Shape(h), h.pc \in AnalysisPlaces, NEW x \in AnalysisPlaces
    PROVE  LET g == [h EXCEPT !.pc = x] IN
           /\ Shape(g) /\ g.pc = x /\ g.cmd = h.cmd /\ g.ts = h.ts /\ g.in = h.in
           /\ g.out = h.out /\ g.file = h.file
<1>1. h \in [pc : AnalysisPlaces, cmd : DOMAIN Processings, ts : Times,
             in : Paths, out : Paths, file : Paths]
    BY DEF Shape, AnalysisPlaces, Idle
<1> QED BY <1>1 DEF Shape

\* A step of one thread.
LEMMA HandlerStep ==
    ASSUME HandlerShape, NEW t \in Threads, NEW g,
           handler' = [handler EXCEPT ![t] = g]
    PROVE  /\ handler'[t] = g
           /\ \A u \in Threads \ {t} : handler'[u] = handler[u]
           /\ handler' = [u \in Threads |-> handler'[u]]
<1>1. handler = [u \in Threads |-> handler[u]]
    BY DEF HandlerShape
<1> QED BY <1>1

-----------------------------------------------------------------------------
\* What writing and linking do to the files.

\* Nothing that a path leads to is lost or becomes incomplete.
Grows ==
    /\ \A p \in Paths : exists(p) => exists(p)'
    /\ \A p \in Paths : Complete(p) => Complete(p)'
    /\ DOMAIN links \subseteq DOMAIN links'
    /\ \A p \in DOMAIN files : p \in DOMAIN files' \/ p \in DOMAIN links'

\* A file that may be written with the content c.
Writable(p, c) ==
    /\ p \in Paths
    /\ c.from = p.ts
    /\ p.ts < now
    /\ p.vault <= timestamp
    /\ p.vault # 0 /\ p.suffix \in Raw => c.begun = p.vault
    /\ p \in DOMAIN files /\ files[p].made => c.made

LEMMA WriteEffect ==
    ASSUME FilesInv, LinksInv, NEW S, NEW c, Write(S, c), links' = links,
           now' = now, timestamp' = timestamp,
           c \in [from : Times, begun : Vaults, made : BOOLEAN],
           \A p \in S : Writable(p, c)
    PROVE  FilesInv' /\ LinksInv' /\ Grows
<1>1. /\ DOMAIN files' = DOMAIN files \cup S
      /\ \A p \in S : files'[p] = c
      /\ \A p \in DOMAIN files \ S : files'[p] = files[p]
    BY DEF Write
<1>2. \A p \in DOMAIN files : Whole(files[p]) => Whole(files'[p])
    BY <1>1 DEF Writable, Whole
<1>3. FilesInv'
  <2> SUFFICES ASSUME NEW p \in DOMAIN files'
               PROVE  /\ p \in Paths
                      /\ files'[p] \in [from : Times, begun : Vaults, made : BOOLEAN]
                      /\ files'[p].from = p.ts
                      /\ p.ts < now
                      /\ p.vault <= timestamp
                      /\ p.vault # 0 /\ p.suffix \in Raw => files'[p].begun = p.vault
    BY DEF FilesInv, Vaults, Times
  <2>1. CASE p \in S
    BY <1>1, <2>1 DEF Writable
  <2>2. CASE p \notin S
    BY <1>1, <2>2 DEF FilesInv
  <2> QED BY <2>1, <2>2
<1>4. LinksInv'
    BY <1>1, <1>2 DEF LinksInv
<1>5. Grows
  <2>1. ASSUME NEW p, exists(p)
        PROVE  exists(p)'
    BY <1>1, <2>1 DEF exists, Resolve
  <2>2. ASSUME NEW p, Complete(p)
        PROVE  Complete(p)'
    BY <1>1, <1>2, <2>2 DEF Complete, exists, Resolve
  <2> QED BY <1>1, <2>1, <2>2 DEF Grows
<1> QED BY <1>3, <1>4, <1>5

LEMMA LinkEffect ==
    ASSUME FilesInv, LinksInv, NEW S, NEW dir \in Directories,
           LinkToOriginalDir(S, dir), now' = now, timestamp' = timestamp,
           \A p \in S : p \in DOMAIN files /\ p.vault # 0 => Whole(files[p])
    PROVE  /\ FilesInv' /\ LinksInv' /\ Grows
           /\ DOMAIN files' \subseteq DOMAIN files
           /\ \A p \in DOMAIN files' : files'[p] = files[p]
           /\ \A p \in S : p \in DOMAIN files /\ p.vault # 0 =>
                 Original(p, dir) \in DOMAIN links'
<1> DEFINE Src == {p \in S : p.vault # 0 /\ p \in DOMAIN files}
           Dst == {Original(p, dir) : p \in Src}
<1>1. /\ links' = [q \in DOMAIN links \cup Dst |->
                     IF q \in Dst THEN CHOOSE p \in Src : Original(p, dir) = q
                     ELSE links[q]]
      /\ files' = [p \in DOMAIN files \ Dst |-> files[p]]
    BY DEF LinkToOriginalDir, Original, Restrict
<1>2. \A p \in Src :
        p \in Paths /\ p.vault # 0 /\ p \in DOMAIN files /\ Whole(files[p])
    BY DEF FilesInv
<1>3. ASSUME NEW q \in Dst
      PROVE  /\ q \in Paths /\ q.vault = 0
             /\ links'[q] \in Src
             /\ links'[q].ts = q.ts /\ links'[q].suffix = q.suffix
  <2>1. links'[q] = CHOOSE p \in Src : Original(p, dir) = q
    BY <1>1
  <2>2. PICK p \in Src : Original(p, dir) = q
    OBVIOUS
  <2>3. links'[q] \in Src /\ Original(links'[q], dir) = q
    BY <2>1, <2>2
  <2> HIDE DEF Src
  <2> QED BY <1>2, <2>3, OriginalFields
<1>4. \A p \in Src : Original(p, dir) \in Dst
    OBVIOUS
<1> HIDE DEF Dst
<1>5. /\ DOMAIN files' = DOMAIN files \ Dst
      /\ \A p \in DOMAIN files' : files'[p] = files[p]
      /\ DOMAIN links' = DOMAIN links \cup Dst
      /\ \A q \in DOMAIN links \ Dst : links'[q] = links[q]
    BY <1>1
<1>6. \A p \in DOMAIN files : p.vault # 0 => p \in DOMAIN files'
    BY <1>3, <1>5
<1>7. FilesInv'
    BY <1>5 DEF FilesInv, Vaults, Times
<1>8. ASSUME NEW q \in DOMAIN links'
      PROVE  /\ q \in Paths /\ q.vault = 0
             /\ links'[q] \in DOMAIN files' /\ links'[q].vault # 0
             /\ links'[q].ts = q.ts /\ links'[q].suffix = q.suffix
             /\ Whole(files'[links'[q]])
  <2>1. CASE q \in Dst
    BY <1>2, <1>3, <1>5, <1>6, <2>1
  <2>2. CASE q \notin Dst
    BY <1>5, <1>6, <2>2 DEF LinksInv
  <2> QED BY <2>1, <2>2
<1>9. LinksInv'
  <2>1. \A f : Whole(f) <=> Whole(f)'
    BY DEF Whole, NamesOutputOnce, Given
  <2> QED BY <1>8, <2>1 DEF LinksInv, Paths, Times
<1>10. ASSUME NEW p, exists(p)
       PROVE  /\ exists(p)'
              /\ Whole(files[Resolve(p)]) => Whole(files'[Resolve(p)'])
  <2>1. CASE p \in DOMAIN links'
    BY <1>8, <2>1 DEF exists, Resolve
  <2>2. CASE p \notin DOMAIN links'
    BY <1>5, <1>10, <2>2 DEF exists, Resolve
  <2> QED BY <2>1, <2>2
<1>11. Grows
    BY <1>5, <1>10 DEF Grows, Complete, Whole, NamesOutputOnce, Given
<1> QED BY <1>4, <1>5, <1>7, <1>9, <1>11

LEMMA NothingChanges ==
    ASSUME files' = files, links' = links
    PROVE  Grows
BY DEF Grows, Complete, exists, Resolve

\* What an analysis relies on stays.
LEMMA AnalysisKept ==
    ASSUME Grows, NEW h, Shape(h), AnalysisAt(h)
    PROVE  AnalysisAt(h)'
<1>1. CASE h.pc \in AnalysisPlaces
  <2>1. h.in \in Paths /\ h.out \in Paths
    BY <1>1, ShapeFields
  <2>2. exists(h.in)'
    BY <1>1, <2>1 DEF Grows, AnalysisAt
  <2>3. h.pc = "analysing" /\ ~Processings[h.cmd].again =>
            h.out \in DOMAIN links' \/ (h.file = h.out /\ h.out \in DOMAIN files')
    BY DEF Grows, AnalysisAt
  <2>4. h.pc \in {"publish", "table"} /\ ~Processings[h.cmd].again =>
            Complete(h.out)'
    BY <2>1 DEF Grows, AnalysisAt
  <2>5. h.pc = "table" /\ h.out.vault # 0 =>
            Original(h.out, Processings[h.cmd].to) \in DOMAIN links'
    BY DEF Grows, AnalysisAt
  <2> QED BY <2>2, <2>3, <2>4, <2>5 DEF AnalysisAt
<1>2. CASE h.pc \notin AnalysisPlaces
    BY <1>2 DEF AnalysisAt, AnalysisPlaces
<1> QED BY <1>1, <1>2

\* What a table leads to stays.
LEMMA TableKept ==
    ASSUME Grows, TableInv, table' = table
    PROVE  TableInv'
<1>1. \A t \in Tables : table[t] # NoTable => table[t] \in Paths /\ Complete(table[t])'
    BY DEF TableInv, Grows
<1> QED BY <1>1 DEF TableInv

\* What a handler has chosen stays in the past.
LEMMA ChosenKept ==
    ASSUME NEW h, Shape(h), Chosen(h), ClockInv, now' \in Nat, now <= now',
           timestamp' \in Nat, timestamp <= timestamp'
    PROVE  Chosen(h)'
<1>1. now \in Nat /\ timestamp \in Nat
    BY ClockTypes DEF ClockInv, Vaults, Times
<1>2. h.pc \in AnalysisPlaces \cup {"stamped", "selected", "located", "named"} => h.ts < now'
  <2>1. h.pc \in AnalysisPlaces \cup {"stamped", "selected", "located", "named"} => h.ts \in Nat
    BY ShapeFields, ClockTypes DEF Times
  <2> QED BY <1>1, <2>1 DEF Chosen
<1>3. h.pc \in AnalysisPlaces \cup {"named"} => h.out.vault <= timestamp'
  <2>1. h.pc \in AnalysisPlaces \cup {"named"} => h.out.vault \in Nat
    BY ShapeFields, PathTypes
  <2> QED BY <1>1, <2>1 DEF Chosen
<1> QED BY <1>2, <1>3 DEF Chosen, Given

\* A thread that handles a command goes from one record to the next one.
LEMMA HandlerMovesOn ==
    ASSUME IInv, Grows, NEW thread \in Threads, NEW g,
           handler' = [handler EXCEPT ![thread] = g],
           UNCHANGED <<vaultPath, position, waiting, timestamp>>, stopped' \in BOOLEAN,
           now' \in Nat, now <= now',
           thread = "macro" => position \in DOMAIN Steps /\ ~waiting,
           thread = "worker" => g.pc \notin {"true", "false"},
           thread = "macro" => InVault(g),
           Shape(g), Chosen(g)', AnalysisAt(g)'
    PROVE  MacroInv' /\ HandlerShape' /\ ChosenInv' /\ MacroChosen' /\ AnalysisInv'
<1>1. /\ handler'[thread] = g
      /\ \A u \in Threads \ {thread} : handler'[u] = handler[u]
      /\ handler' = [u \in Threads |-> handler'[u]]
    BY HandlerStep DEF IInv
<1>2. ASSUME NEW u \in Threads
      PROVE  Chosen(handler[u])' /\ AnalysisAt(handler[u])' /\ Shape(handler'[u])
  <2>1. CASE u = thread
    BY <1>1, <2>1
  <2>2. CASE u # thread
    <3>1. PICK h : h = handler[u] /\ h = handler'[u]
      BY <1>1, <2>2
    <3>2. Shape(h) /\ Chosen(h) /\ AnalysisAt(h)
      BY <3>1 DEF IInv, HandlerShape, ChosenInv, AnalysisInv
    <3>3. timestamp' \in Nat /\ timestamp <= timestamp'
      BY ClockTypes DEF IInv, ClockInv, Vaults, Times
    <3>4. Chosen(h)' /\ AnalysisAt(h)'
      BY <3>2, <3>3, ChosenKept, AnalysisKept DEF IInv
    <3> QED BY <3>1, <3>2, <3>4
  <2> QED BY <2>1, <2>2
<1>3. HandlerShape'
  <2>1. handler'["worker"].pc \notin {"true", "false"}
    BY <1>1 DEF IInv, HandlerShape, Threads
  <2> QED BY <1>1, <1>2, <2>1 DEF HandlerShape, Shape, Threads
<1>4. ChosenInv' /\ AnalysisInv'
    BY <1>2 DEF ChosenInv, AnalysisInv
<1>5. MacroInv'
    BY <1>1 DEF IInv, MacroInv, Threads
<1>6. MacroChosen'
  <2>1. CASE thread = "macro"
    BY <1>1, <2>1 DEF MacroChosen, InVault
  <2>2. CASE thread # "macro"
    BY <1>1, <2>2 DEF MacroChosen, InVault, IInv, Threads
  <2> QED BY <2>1, <2>2
<1> QED BY <1>3, <1>4, <1>5, <1>6

LEMMA HandlerMoves ==
    ASSUME IInv, Grows, NEW thread \in Threads, NEW g,
           handler' = [handler EXCEPT ![thread] = g],
           UNCHANGED macroVars, now' \in Nat, now <= now',
           thread = "macro" => position \in DOMAIN Steps /\ ~waiting,
           thread = "worker" => g.pc \notin {"true", "false"},
           thread = "macro" => InVault(g),
           Shape(g), Chosen(g)', AnalysisAt(g)'
    PROVE  MacroInv' /\ HandlerShape' /\ ChosenInv' /\ MacroChosen' /\ AnalysisInv'
<1>1. /\ UNCHANGED <<vaultPath, position, waiting, timestamp>>
      /\ stopped' \in BOOLEAN
    BY DEF IInv, MacroInv, macroVars
<1> QED BY <1>1, HandlerMovesOn

LEMMA MacroBusy ==
    ASSUME IInv, handler["macro"].pc # "idle"
    PROVE  position \in DOMAIN Steps /\ ~waiting
BY DEF IInv, MacroInv, Idle

\* The end of a command.
LEMMA ReturnMoves ==
    ASSUME IInv, Grows, NEW thread \in Threads, NEW result \in {"true", "false"},
           Returns(thread, result), UNCHANGED <<now, macroVars>>,
           thread = "macro" => position \in DOMAIN Steps /\ ~waiting
    PROVE  /\ MacroInv' /\ HandlerShape' /\ ChosenInv' /\ MacroChosen' /\ AnalysisInv'
           /\ handler'[thread].pc \in {"idle", "true", "false"}
           /\ \A u \in Threads \ {thread} : handler'[u] = handler[u]
<1> DEFINE g == IF thread = "macro" THEN [pc |-> result] ELSE Idle
<1>1. /\ handler' = [handler EXCEPT ![thread] = g]
      /\ g = Idle \/ g \in [pc : {"true", "false"}]
      /\ g.pc \in {"idle", "true", "false"}
      /\ thread = "worker" => g.pc \notin {"true", "false"}
  <2>1. handler' = [handler EXCEPT ![thread] = g]
    BY DEF Returns
  <2>2. CASE thread = "macro"
    BY <2>1, <2>2
  <2>3. CASE thread # "macro"
    BY <2>1, <2>3 DEF Idle
  <2> QED BY <2>2, <2>3
<1> HIDE DEF g
<1>2. Shape(g) /\ Chosen(g)' /\ AnalysisAt(g)' /\ InVault(g)
    BY <1>1 DEF Shape, Chosen, AnalysisAt, InVault, AnalysisPlaces
<1>3. now' \in Nat /\ now <= now'
    BY ClockTypes DEF IInv, ClockInv
<1>4. UNCHANGED macroVars
    OBVIOUS
<1>5. MacroInv' /\ HandlerShape' /\ ChosenInv' /\ MacroChosen' /\ AnalysisInv'
    BY <1>1, <1>2, <1>3, <1>4, HandlerMoves
<1>6. handler'[thread] = g /\ \A u \in Threads \ {thread} : handler'[u] = handler[u]
    BY <1>1, HandlerStep DEF IInv
<1> QED BY <1>1, <1>5, <1>6

\* No timestamp that was taken is used by another one.
LEMMA StampedKept ==
    ASSUME StampedInv,
           \A u \in Threads : handler'[u].pc = "stamped" => handler'[u] = handler[u],
           \A t \in tasks' :
              \/ \E u \in tasks : u.ts = t.ts
              \/ \A u \in Threads :
                    handler'[u].pc = "stamped" => handler'[u].ts # t.ts,
           \A p \in DOMAIN files' :
              \/ \E q \in DOMAIN files : q.ts = p.ts
              \/ \E u \in tasks : u.ts = p.ts
    PROVE  StampedInv'
<1> SUFFICES ASSUME NEW t \in Threads, handler'[t].pc = "stamped"
             PROVE  /\ \A u \in tasks' : u.ts # handler'[t].ts
                    /\ \A p \in DOMAIN files' : p.ts # handler'[t].ts
                    /\ \A u \in Threads \ {t} :
                          handler'[u].pc = "stamped" => handler'[u].ts # handler'[t].ts
    BY DEF StampedInv
<1>1. handler'[t] = handler[t]
    OBVIOUS
<1> QED BY <1>1 DEF StampedInv

\* What is of the time of the new vault, or a handler of the macro thread has.
OfNewVault(x) ==
    \/ x >= vaultPath
    \/ \E p \in DOMAIN files : p.vault = vaultPath /\ p.ts = x
    \/ \E t \in tasks : t.vault = vaultPath /\ t.ts = x
    \/ /\ handler["macro"].pc \in AnalysisPlaces \cup {"stamped", "selected", "located", "named"}
       /\ handler["macro"].ts = x

LEMMA NewVaultKept ==
    ASSUME NewVaultInv, vaultPath' = vaultPath,
           Overtaken(handler["worker"])' =>
              Overtaken(handler["worker"]) /\ handler'["worker"].ts = handler["worker"].ts,
           \A p \in DOMAIN files' : p.vault = vaultPath => OfNewVault(p.ts),
           \A t \in tasks' : t.vault = vaultPath => OfNewVault(t.ts),
           handler'["macro"].pc \in AnalysisPlaces \cup {"stamped", "selected", "located", "named"}
              => OfNewVault(handler'["macro"].ts)
    PROVE  NewVaultInv'
<1> SUFFICES ASSUME Overtaken(handler["worker"])'
             PROVE  NewVaultInv'
    BY DEF NewVaultInv
<1>1. ASSUME NEW x, OfNewVault(x)
      PROVE  x >= vaultPath
    BY <1>1 DEF OfNewVault, NewVaultInv
<1> QED BY <1>1 DEF NewVaultInv

-----------------------------------------------------------------------------
\* The acquisitions.

LEMMA TaskContent ==
    ASSUME IInv, NEW task \in tasks, task.state = "running", NEW d \in BOOLEAN
    PROVE  /\ Content(task, d) \in [from : Times, begun : Vaults, made : BOOLEAN]
           /\ \A p \in Outputs(task) : Writable(p, Content(task, d))
           /\ \A p \in Outputs(task) :
                 p \in Paths /\ p.ts = task.ts /\ p.vault = task.vault /\ p.suffix \in Raw
<1>1. /\ task.cmd \in DOMAIN Acquisitions /\ task.ts \in Times
      /\ task.vault \in Vaults /\ task.begun \in Vaults
      /\ task.ts < now /\ task.vault <= timestamp
      /\ task.vault # 0 => task.begun = task.vault
    BY DEF IInv, TasksInv
<1>2. \A p \in Outputs(task) :
         p \in Paths /\ p.ts = task.ts /\ p.vault = task.vault /\ p.suffix \in Raw
    BY <1>1, OutputFields
<1>3. \A p \in Outputs(task) \cap DOMAIN files : ~files[p].made
    BY <1>2 DEF IInv, OutputsInv
<1>4. /\ Content(task, d) \in [from : Times, begun : Vaults, made : BOOLEAN]
      /\ Content(task, d).from = task.ts /\ Content(task, d).begun = task.begun
    BY <1>1 DEF Content
<1> QED BY <1>1, <1>2, <1>3, <1>4 DEF Writable

\* What stays when a task writes its files.
LEMMA TaskFiles ==
    ASSUME IInv, NEW task \in tasks, task.state = "running", NEW d \in BOOLEAN,
           NEW S, S \subseteq Outputs(task), Write(S, Content(task, d)),
           UNCHANGED <<now, links, table, handler, macroVars>>
    PROVE  /\ ClockInv' /\ MacroInv' /\ HandlerShape' /\ ChosenInv' /\ MacroChosen'
           /\ FilesInv' /\ LinksInv' /\ AnalysisInv' /\ TableInv'
           /\ DOMAIN files' = DOMAIN files \cup S
           /\ \A p \in DOMAIN files \ S : files'[p] = files[p]
           /\ \A p \in S : files'[p].made = d
           /\ \A p \in Outputs(task) :
                 p.ts = task.ts /\ p.vault = task.vault /\ p.suffix \in Raw
<1>1. ClockInv' /\ MacroInv' /\ HandlerShape' /\ ChosenInv' /\ MacroChosen'
    BY DEF IInv, ClockInv, MacroInv, HandlerShape, ChosenInv, Chosen, MacroChosen,
           InVault, macroVars, Shape
<1>2. FilesInv' /\ LinksInv' /\ Grows
    BY TaskContent, WriteEffect DEF IInv, macroVars
<1>3. AnalysisInv'
  <2> SUFFICES ASSUME NEW t \in Threads
               PROVE  AnalysisAt(handler[t])'
    BY DEF AnalysisInv
  <2>1. PICK h : h = handler[t] /\ h = handler'[t]
    OBVIOUS
  <2>2. Shape(h) /\ AnalysisAt(h)
    BY <2>1 DEF IInv, HandlerShape, AnalysisInv
  <2> QED BY <1>2, <2>1, <2>2, AnalysisKept
<1>4. TableInv'
    BY <1>2, TableKept DEF IInv
<1>5. /\ DOMAIN files' = DOMAIN files \cup S
      /\ \A p \in DOMAIN files \ S : files'[p] = files[p]
      /\ \A p \in S : files'[p].made = d
    BY DEF Write, Content
<1> QED BY <1>1, <1>2, <1>3, <1>4, <1>5, TaskContent

LEMMA TaskWritesStep ==
    ASSUME IInv, NEW task \in tasks, TaskWrites(task)
    PROVE  IInv'
<1>1. PICK S :
        /\ task.state = "running" /\ S \subseteq Outputs(task)
        /\ Write(S, Content(task, FALSE))
        /\ UNCHANGED <<now, links, table, tasks, handler, macroVars>>
  <2>1. PICK w \in Outputs(task) : Write({w}, Content(task, FALSE))
    BY DEF TaskWrites
  <2>2. {w} \subseteq Outputs(task)
    OBVIOUS
  <2> QED BY <2>1, <2>2 DEF TaskWrites
<1>2. /\ ClockInv' /\ MacroInv' /\ HandlerShape' /\ ChosenInv' /\ MacroChosen'
      /\ FilesInv' /\ LinksInv' /\ AnalysisInv' /\ TableInv'
      /\ DOMAIN files' = DOMAIN files \cup S
      /\ \A p \in DOMAIN files \ S : files'[p] = files[p]
      /\ \A p \in S : files'[p].made = FALSE
      /\ \A p \in S : p.ts = task.ts /\ p.vault = task.vault /\ p.suffix \in Raw
    BY <1>1, TaskFiles
<1>3. TasksInv'
    BY <1>1 DEF IInv, TasksInv, macroVars
<1>4. StampedInv'
    BY <1>1, <1>2, StampedKept DEF IInv
<1>5. OutputsInv'
  <2> SUFFICES ASSUME NEW t \in tasks
               PROVE  /\ t.state = "running" =>
                           \A p \in DOMAIN files' :
                              p.ts = t.ts /\ p.suffix \in Raw => ~files'[p].made
                      /\ t.state = "good" =>
                           \A p \in Outputs(t) \cap DOMAIN files' : files'[p].made
    BY <1>1 DEF OutputsInv, Outputs
  <2>1. t.state = "running" =>
           \A p \in DOMAIN files' : p.ts = t.ts /\ p.suffix \in Raw => ~files'[p].made
    BY <1>2 DEF IInv, OutputsInv
  <2>2. ASSUME t.state = "good", NEW p \in Outputs(t) \cap DOMAIN files'
        PROVE  files'[p].made
    <3>1. p.ts = t.ts
      BY <2>2, OutputFields DEF IInv, TasksInv
    <3>2. t.ts # task.ts
      BY <1>1, <2>2 DEF IInv, TasksInv
    <3> QED BY <1>2, <2>2, <3>1, <3>2 DEF IInv, OutputsInv
  <2> QED BY <2>1, <2>2
<1>6. NewVaultInv'
  <2>1. \A p \in DOMAIN files' : p.vault = vaultPath => OfNewVault(p.ts)
    BY <1>2 DEF OfNewVault
  <2>2. /\ \A t \in tasks' : t.vault = vaultPath => OfNewVault(t.ts)
        /\ handler'["macro"].pc \in AnalysisPlaces \cup {"stamped", "selected", "located", "named"}
              => OfNewVault(handler'["macro"].ts)
        /\ vaultPath' = vaultPath
        /\ Overtaken(handler["worker"])' => Overtaken(handler["worker"])
    BY <1>1 DEF OfNewVault, Overtaken, macroVars
  <2> QED BY <1>1, <2>1, <2>2, NewVaultKept DEF IInv
<1> QED BY <1>2, <1>3, <1>4, <1>5, <1>6 DEF IInv

LEMMA TaskState ==
    ASSUME NEW task \in [cmd : DOMAIN Acquisitions, ts : Times, vault : Vaults,
                         begun : Vaults, state : {"running", "good", "bad"}],
           NEW x \in {"running", "good", "bad"}
    PROVE  LET t == [task EXCEPT !.state = x] IN
           /\ t \in [cmd : DOMAIN Acquisitions, ts : Times, vault : Vaults,
                     begun : Vaults, state : {"running", "good", "bad"}]
           /\ t.cmd = task.cmd /\ t.ts = task.ts /\ t.vault = task.vault
           /\ t.begun = task.begun /\ t.state = x
           /\ Outputs(t) = Outputs(task)
BY DEF Outputs

\* A task ends with state x.
LEMMA TasksEnd ==
    ASSUME IInv, NEW task \in tasks, NEW x \in {"good", "bad"},
           tasks' = (tasks \ {task}) \cup {[task EXCEPT !.state = x]},
           UNCHANGED <<now, handler, macroVars>>
    PROVE  /\ TasksInv'
           /\ \A t \in tasks' :
                 \/ t \in tasks /\ t.ts # task.ts
                 \/ t.state = x /\ t.ts = task.ts /\ t.vault = task.vault
                    /\ Outputs(t) = Outputs(task)
<1> DEFINE e == [task EXCEPT !.state = x]
<1>1. /\ e \in [cmd : DOMAIN Acquisitions, ts : Times, vault : Vaults,
                begun : Vaults, state : {"running", "good", "bad"}]
      /\ e.ts = task.ts /\ e.vault = task.vault
      /\ e.begun = task.begun /\ e.state = x
      /\ Outputs(e) = Outputs(task)
  <2>1. task \in [cmd : DOMAIN Acquisitions, ts : Times, vault : Vaults,
                  begun : Vaults, state : {"running", "good", "bad"}]
    BY DEF IInv, TasksInv
  <2> QED BY <2>1, TaskState
<1>2. tasks' = (tasks \ {task}) \cup {e}
    OBVIOUS
<1> HIDE DEF e
<1>3. \A t \in tasks \ {task} : t.ts # task.ts
    BY DEF IInv, TasksInv
<1>4. TasksInv'
  <2>1. ASSUME NEW t \in tasks'
        PROVE  /\ t \in [cmd : DOMAIN Acquisitions, ts : Times, vault : Vaults,
                         begun : Vaults, state : {"running", "good", "bad"}]
               /\ t.ts < now'
               /\ t.vault <= timestamp'
               /\ t.vault # 0 => t.begun = t.vault
    BY <1>1, <1>2 DEF IInv, TasksInv, macroVars
  <2>2. \A t, u \in tasks' : t.ts = u.ts => t = u
    BY <1>1, <1>2, <1>3 DEF IInv, TasksInv
  <2> QED BY <2>1, <2>2 DEF TasksInv, Vaults, Times
<1> QED BY <1>1, <1>2, <1>3, <1>4

LEMMA TaskEndsStep ==
    ASSUME IInv, NEW task \in tasks, TaskEnds(task)
    PROVE  IInv'
<1>1. task.state = "running" /\ UNCHANGED <<now, links, table, handler, macroVars>>
    BY DEF TaskEnds
<1>2. PICK x \in {"good", "bad"} :
        /\ tasks' = (tasks \ {task}) \cup {[task EXCEPT !.state = x]}
        /\ x = "good" => \E T \in SUBSET Outputs(task) :
               Write(T \cup (Outputs(task) \cap DOMAIN files), Content(task, TRUE))
        /\ x = "bad" => UNCHANGED files
    BY DEF TaskEnds
<1>3. /\ TasksInv'
      /\ \A t \in tasks' :
            \/ t \in tasks /\ t.ts # task.ts
            \/ t.state = x /\ t.ts = task.ts /\ t.vault = task.vault
               /\ Outputs(t) = Outputs(task)
    BY <1>1, <1>2, TasksEnd
<1>4. /\ ClockInv' /\ MacroInv' /\ HandlerShape' /\ ChosenInv' /\ MacroChosen'
      /\ FilesInv' /\ LinksInv' /\ AnalysisInv' /\ TableInv'
      /\ DOMAIN files' \subseteq DOMAIN files \cup Outputs(task)
      /\ \A p \in DOMAIN files' \ Outputs(task) : files'[p] = files[p]
      /\ x = "good" =>
            \A p \in Outputs(task) \cap DOMAIN files' : files'[p].made = TRUE
      /\ \A p \in Outputs(task) :
            p.ts = task.ts /\ p.vault = task.vault /\ p.suffix \in Raw
  <2>1. CASE x = "good"
    <3>1. PICK T \in SUBSET Outputs(task) :
            Write(T \cup (Outputs(task) \cap DOMAIN files), Content(task, TRUE))
      BY <1>2, <2>1
    <3>2. PICK S : /\ S = T \cup (Outputs(task) \cap DOMAIN files)
                   /\ S \subseteq Outputs(task) /\ Write(S, Content(task, TRUE))
      BY <3>1
    <3>3. /\ ClockInv' /\ MacroInv' /\ HandlerShape' /\ ChosenInv' /\ MacroChosen'
          /\ FilesInv' /\ LinksInv' /\ AnalysisInv' /\ TableInv'
          /\ DOMAIN files' = DOMAIN files \cup S
          /\ \A p \in DOMAIN files \ S : files'[p] = files[p]
          /\ \A p \in S : files'[p].made = TRUE
          /\ \A p \in Outputs(task) :
                p.ts = task.ts /\ p.vault = task.vault /\ p.suffix \in Raw
      <4>1. PICK d \in BOOLEAN : d = TRUE
        OBVIOUS
      <4>2. Write(S, Content(task, d)) /\ S \subseteq Outputs(task)
        BY <3>2, <4>1
      <4>3. \A p \in S : files'[p].made = d
        BY <1>1, <4>2, TaskFiles
      <4> QED BY <1>1, <4>1, <4>2, <4>3, TaskFiles
    <3> QED BY <2>1, <3>2, <3>3
  <2>2. CASE x = "bad"
    <3>1. files' = files /\ links' = links
      BY <1>1, <1>2, <2>2
    <3>2. /\ ClockInv' /\ MacroInv' /\ HandlerShape' /\ ChosenInv' /\ MacroChosen'
          /\ FilesInv' /\ LinksInv' /\ AnalysisInv' /\ TableInv'
      BY <1>1, <3>1 DEF IInv, ClockInv, MacroInv, HandlerShape, ChosenInv, Chosen,
         MacroChosen, InVault, macroVars, Shape, FilesInv, LinksInv, AnalysisInv,
         AnalysisAt, Complete, exists, Resolve, TableInv
    <3>3. \A p \in Outputs(task) :
             p.ts = task.ts /\ p.vault = task.vault /\ p.suffix \in Raw
      BY OutputFields DEF IInv, TasksInv
    <3> QED BY <2>2, <3>1, <3>2, <3>3
  <2> QED BY <2>1, <2>2
<1>5. StampedInv'
    BY <1>1, <1>3, <1>4, StampedKept DEF IInv
<1>6. OutputsInv'
  <2> SUFFICES ASSUME NEW t \in tasks'
               PROVE  /\ t.state = "running" =>
                           \A p \in DOMAIN files' :
                              p.ts = t.ts /\ p.suffix \in Raw => ~files'[p].made
                      /\ t.state = "good" =>
                           \A p \in Outputs(t) \cap DOMAIN files' : files'[p].made
    BY DEF OutputsInv, Outputs
  <2>1. CASE t \in tasks /\ t.ts # task.ts
    <3>1. \A p \in Outputs(t) : p.ts = t.ts
      BY <2>1, OutputFields DEF IInv, TasksInv
    <3> QED BY <1>4, <2>1, <3>1 DEF IInv, OutputsInv
  <2>2. CASE t.state = x /\ t.ts = task.ts /\ Outputs(t) = Outputs(task)
    BY <1>4, <2>2
  <2> QED BY <1>3, <2>1, <2>2
<1>7. NewVaultInv'
  <2>1. \A p \in DOMAIN files' : p.vault = vaultPath => OfNewVault(p.ts)
    BY <1>4 DEF OfNewVault
  <2>2. \A t \in tasks' : t.vault = vaultPath => OfNewVault(t.ts)
    BY <1>3 DEF OfNewVault
  <2>3. /\ handler'["macro"].pc \in AnalysisPlaces \cup {"stamped", "selected", "located", "named"}
              => OfNewVault(handler'["macro"].ts)
        /\ vaultPath' = vaultPath
        /\ Overtaken(handler["worker"])' => Overtaken(handler["worker"])
    BY <1>1 DEF OfNewVault, Overtaken, macroVars
  <2> QED BY <1>1, <2>1, <2>2, <2>3, NewVaultKept DEF IInv
<1> QED BY <1>3, <1>4, <1>5, <1>6, <1>7 DEF IInv

\* What stays when files are linked into a standard directory.
LEMMA LinkKeeps ==
    ASSUME IInv, Grows, DOMAIN files' \subseteq DOMAIN files,
           \A p \in DOMAIN files' : files'[p] = files[p],
           tasks' \subseteq tasks
    PROVE  OutputsInv'
BY DEF IInv, OutputsInv, Outputs

LEMMA ReapStep ==
    ASSUME IInv, NEW task \in tasks, Reap(task)
    PROVE  IInv'
<1>1. /\ tasks' = tasks \ {task} /\ UNCHANGED <<now, handler, macroVars>>
      /\ task.state = "good" =>
            LinkToOriginalDir(Outputs(task), Acquisitions[task.cmd].dir)
      /\ task.state # "good" => UNCHANGED <<files, links, table>>
    BY DEF Reap, fileVars
<1>2. /\ FilesInv' /\ LinksInv' /\ Grows
      /\ DOMAIN files' \subseteq DOMAIN files
      /\ \A p \in DOMAIN files' : files'[p] = files[p]
  <2>1. CASE task.state = "good"
    <3>1. Acquisitions[task.cmd].dir \in Directories
      BY AcquisitionFacts DEF IInv, TasksInv
    <3>2. \A p \in Outputs(task) :
             p \in DOMAIN files /\ p.vault # 0 => Whole(files[p])
      BY <2>1 DEF IInv, OutputsInv, Whole
    <3> QED BY <1>1, <2>1, <3>1, <3>2, LinkEffect DEF IInv, macroVars
  <2>2. CASE task.state # "good"
    <3>1. files' = files /\ links' = links
      BY <1>1, <2>2
    <3> QED BY <1>1, <3>1, NothingChanges DEF IInv, FilesInv, LinksInv, macroVars
  <2> QED BY <2>1, <2>2
<1>3. ClockInv' /\ MacroInv' /\ HandlerShape' /\ ChosenInv' /\ MacroChosen'
    BY <1>1 DEF IInv, ClockInv, MacroInv, HandlerShape, ChosenInv, Chosen, MacroChosen,
           InVault, macroVars, Shape
<1>4. TasksInv'
    BY <1>1 DEF IInv, TasksInv, macroVars
<1>5. StampedInv'
    BY <1>1, <1>2, StampedKept DEF IInv
<1>6. OutputsInv'
    BY <1>1, <1>2, LinkKeeps
<1>7. AnalysisInv'
  <2> SUFFICES ASSUME NEW t \in Threads
               PROVE  AnalysisAt(handler[t])'
    BY DEF AnalysisInv
  <2>1. PICK h : h = handler[t] /\ h = handler'[t]
    BY <1>1
  <2>2. Shape(h) /\ AnalysisAt(h)
    BY <2>1 DEF IInv, HandlerShape, AnalysisInv
  <2> QED BY <1>2, <2>1, <2>2, AnalysisKept
<1>8. TableInv'
  <2>1. CASE task.state # "good"
    BY <1>1, <1>2, <2>1, TableKept DEF IInv
  <2>2. CASE task.state = "good"
    <3> DEFINE B == Baselines(task)
               new == CHOOSE p \in B : TRUE
    <3>1. table' = [t \in Tables |-> IF t = "baseline" /\ B # {} THEN new ELSE table[t]]
      BY <2>2 DEF Reap
    <3>2. ASSUME B # {}
          PROVE  new \in Paths /\ Complete(new)
      <4>1. new \in Outputs(task) \cap DOMAIN files
        BY <3>2 DEF Baselines
      <4>2. new \in Paths /\ Whole(files[new])
        BY <2>2, <4>1 DEF IInv, FilesInv, OutputsInv, Whole
      <4> HIDE DEF new
      <4>3. CASE new \in DOMAIN links
        BY <4>3 DEF IInv, LinksInv, Complete, exists, Resolve
      <4>4. CASE new \notin DOMAIN links
        BY <4>1, <4>2, <4>4 DEF Complete, exists, Resolve
      <4> QED BY <4>2, <4>3, <4>4
    <3> HIDE DEF B, new
    <3>3. ASSUME NEW t \in Tables, table'[t] # NoTable
          PROVE  table'[t] \in Paths /\ Complete(table[t])'
      <4>1. PICK p : p = table'[t]
        OBVIOUS
      <4>2. (p = new /\ B # {}) \/ p = table[t]
        BY <3>1, <4>1
      <4>3. p \in Paths /\ Complete(p)
        BY <3>2, <3>3, <4>1, <4>2 DEF IInv, TableInv
      <4>4. Complete(p)'
        BY <1>2, <4>3 DEF Grows
      <4> QED BY <4>1, <4>3, <4>4
    <3>4. table' = [t \in Tables |-> table'[t]]
      BY <3>1
    <3> QED BY <3>3, <3>4 DEF TableInv
  <2> QED BY <2>1, <2>2
<1>9. NewVaultInv'
    BY <1>1, <1>2 DEF IInv, NewVaultInv, Overtaken, macroVars
<1> QED BY <1>2, <1>3, <1>4, <1>5, <1>6, <1>7, <1>8, <1>9 DEF IInv

LEMMA ForkStep ==
    ASSUME IInv, NEW thread \in Threads, Fork(thread)
    PROVE  IInv'
<1> DEFINE h == handler[thread]
           n == [cmd |-> h.cmd, ts |-> h.ts, vault |-> vaultPath,
                 begun |-> timestamp, state |-> "running"]
<1>1. /\ h.pc = "stamped" /\ tasks' = tasks \cup {n} /\ Returns(thread, "true")
      /\ UNCHANGED <<now, files, links, table, macroVars>>
    BY DEF Fork, fileVars
<1>2. h.cmd \in DOMAIN Acquisitions /\ h.ts \in Times /\ h.ts < now
    BY <1>1, ShapeFields DEF IInv, HandlerShape, ChosenInv, Chosen
<1>3. /\ n \in [cmd : DOMAIN Acquisitions, ts : Times, vault : Vaults,
                begun : Vaults, state : {"running", "good", "bad"}]
      /\ n.ts = h.ts /\ n.vault = vaultPath /\ n.begun = timestamp
      /\ n.state = "running"
    BY <1>2 DEF IInv, ClockInv, Vaults
<1>4. /\ \A u \in tasks : u.ts # h.ts
      /\ \A p \in DOMAIN files : p.ts # h.ts
      /\ \A u \in Threads \ {thread} :
            handler[u].pc = "stamped" => handler[u].ts # h.ts
    BY <1>1 DEF IInv, StampedInv
<1>5. Grows
    BY <1>1, NothingChanges
<1>6. thread = "macro" => position \in DOMAIN Steps /\ ~waiting
    BY <1>1, MacroBusy
<1>7. /\ MacroInv' /\ HandlerShape' /\ ChosenInv' /\ MacroChosen' /\ AnalysisInv'
      /\ handler'[thread].pc \in {"idle", "true", "false"}
      /\ \A u \in Threads \ {thread} : handler'[u] = handler[u]
    BY <1>1, <1>5, <1>6, ReturnMoves
<1> HIDE DEF n
<1>8. ClockInv' /\ FilesInv' /\ LinksInv'
    BY <1>1 DEF IInv, ClockInv, FilesInv, LinksInv, macroVars
<1>9. TasksInv'
  <2>1. /\ n.ts < now /\ n.vault <= timestamp /\ (n.vault # 0 => n.begun = n.vault)
    BY <1>2, <1>3, ClockTypes DEF IInv, ClockInv, Vaults, Times
  <2>2. \A t, u \in tasks' : t.ts = u.ts => t = u
    BY <1>1, <1>3, <1>4 DEF IInv, TasksInv
  <2>3. ASSUME NEW t \in tasks'
        PROVE  /\ t \in [cmd : DOMAIN Acquisitions, ts : Times, vault : Vaults,
                         begun : Vaults, state : {"running", "good", "bad"}]
               /\ t.ts < now'
               /\ t.vault <= timestamp'
               /\ t.vault # 0 => t.begun = t.vault
    BY <1>1, <1>3, <2>1 DEF IInv, TasksInv, macroVars
  <2> QED BY <2>2, <2>3 DEF TasksInv, Vaults, Times
<1>10. StampedInv'
  <2>1. \A u \in Threads : handler'[u].pc = "stamped" =>
            handler'[u] = handler[u] /\ u # thread
    BY <1>7
  <2>2. \A t \in tasks' :
           \/ \E u \in tasks : u.ts = t.ts
           \/ \A u \in Threads : handler'[u].pc = "stamped" => handler'[u].ts # t.ts
    BY <1>1, <1>3, <1>4, <2>1
  <2> QED BY <1>1, <2>1, <2>2, StampedKept DEF IInv
<1>11. OutputsInv'
    BY <1>1, <1>3, <1>4 DEF IInv, OutputsInv, Outputs
<1>12. TableInv'
    BY <1>1, <1>5, TableKept DEF IInv
<1>13. NewVaultInv'
  <2>1. CASE thread = "worker"
    BY <1>7, <2>1 DEF NewVaultInv, Overtaken, AnalysisPlaces
  <2>2. CASE thread = "macro"
    <3>1. \A t \in tasks' : t.vault = vaultPath => OfNewVault(t.ts)
      BY <1>1, <1>3, <2>2 DEF OfNewVault
    <3>2. \A p \in DOMAIN files' : p.vault = vaultPath => OfNewVault(p.ts)
      BY <1>1 DEF OfNewVault
    <3>3. handler'["macro"].pc \notin AnalysisPlaces \cup {"stamped", "selected", "located", "named"}
      BY <1>7, <2>2 DEF AnalysisPlaces
    <3>4. /\ vaultPath' = vaultPath /\ handler'["worker"] = handler["worker"]
          /\ Overtaken(handler["worker"])' => Overtaken(handler["worker"])
      BY <1>1, <1>7, <2>2 DEF Overtaken, macroVars, Threads
    <3> QED BY <3>1, <3>2, <3>3, <3>4, NewVaultKept DEF IInv
  <2> QED BY <2>1, <2>2 DEF Threads
<1> QED BY <1>7, <1>8, <1>9, <1>10, <1>11, <1>12, <1>13 DEF IInv

-----------------------------------------------------------------------------
\* The commands.

\* A handler goes on and leaves the files alone.
LEMMA QuietMove ==
    ASSUME IInv, NEW thread \in Threads, NEW g,
           handler' = [handler EXCEPT ![thread] = g],
           UNCHANGED <<now, files, links, tasks, macroVars>>, TableInv',
           thread = "macro" => position \in DOMAIN Steps /\ ~waiting,
           thread = "worker" => g.pc \notin {"true", "false"},
           thread = "macro" => InVault(g),
           thread = "macro" /\ g.pc \in {"selected", "located"} => OfNewVault(g.ts),
           g.pc \notin AnalysisPlaces \cup {"stamped", "named"},
           Shape(g), Chosen(g)'
    PROVE  IInv'
<1>1. Grows
    BY NothingChanges
<1>2. AnalysisAt(g)'
    BY DEF AnalysisAt, AnalysisPlaces
<1>3. now' \in Nat /\ now <= now' /\ UNCHANGED macroVars
    BY ClockTypes DEF IInv, ClockInv
<1>4. MacroInv' /\ HandlerShape' /\ ChosenInv' /\ MacroChosen' /\ AnalysisInv'
    BY <1>1, <1>2, <1>3, HandlerMoves
<1>5. handler'[thread] = g /\ \A u \in Threads \ {thread} : handler'[u] = handler[u]
    BY HandlerStep DEF IInv
<1>6. ClockInv' /\ TasksInv' /\ FilesInv' /\ LinksInv' /\ OutputsInv'
    BY DEF IInv, ClockInv, TasksInv, FilesInv, LinksInv, OutputsInv, macroVars, Outputs
<1>7. StampedInv'
    BY <1>5, StampedKept DEF IInv
<1>8. NewVaultInv'
  <2>1. CASE thread = "worker"
    BY <1>5, <2>1 DEF NewVaultInv, Overtaken, AnalysisPlaces
  <2>2. CASE thread = "macro"
    <3>1. /\ \A t \in tasks' : t.vault = vaultPath => OfNewVault(t.ts)
          /\ \A p \in DOMAIN files' : p.vault = vaultPath => OfNewVault(p.ts)
      BY DEF OfNewVault
    <3>2. /\ vaultPath' = vaultPath /\ handler'["worker"] = handler["worker"]
          /\ Overtaken(handler["worker"])' => Overtaken(handler["worker"])
      BY <1>5, <2>2 DEF Overtaken, macroVars, Threads
    <3>3. handler'["macro"].pc \in AnalysisPlaces \cup {"stamped", "selected", "located", "named"}
             => OfNewVault(handler'["macro"].ts)
      BY <1>5, <2>2
    <3> QED BY <3>1, <3>2, <3>3, NewVaultKept DEF IInv
  <2> QED BY <2>1, <2>2 DEF Threads
<1> QED BY <1>4, <1>6, <1>7, <1>8 DEF IInv

LEMMA QuietReturn ==
    ASSUME IInv, NEW thread \in Threads, NEW result \in {"true", "false"},
           Returns(thread, result),
           UNCHANGED <<now, files, links, tasks, macroVars>>, TableInv',
           thread = "macro" => position \in DOMAIN Steps /\ ~waiting
    PROVE  IInv'
<1> DEFINE g == IF thread = "macro" THEN [pc |-> result] ELSE Idle
<1>1. /\ handler' = [handler EXCEPT ![thread] = g]
      /\ g = Idle \/ g \in [pc : {"true", "false"}]
      /\ g.pc \in {"idle", "true", "false"}
      /\ thread = "worker" => g.pc \notin {"true", "false"}
  <2>1. handler' = [handler EXCEPT ![thread] = g]
    BY DEF Returns
  <2>2. CASE thread = "macro"
    BY <2>1, <2>2
  <2>3. CASE thread # "macro"
    BY <2>1, <2>3 DEF Idle
  <2> QED BY <2>2, <2>3
<1> HIDE DEF g
<1>2. Shape(g) /\ Chosen(g)' /\ InVault(g)
    BY <1>1 DEF Shape, Chosen, InVault, AnalysisPlaces
<1>3. g.pc \notin AnalysisPlaces \cup {"stamped", "selected", "located", "named"}
    BY <1>1 DEF AnalysisPlaces
<1> QED BY <1>1, <1>2, <1>3, QuietMove

LEMMA LocateStep ==
    ASSUME IInv, NEW thread \in Threads, Locate(thread)
    PROVE  IInv'
<1> DEFINE h == handler[thread]
           c == Processings[h.cmd]
           in == Path(vaultPath, c.from, c.prefix, h.ts, c.input)
<1>1. /\ h.pc = "selected"
      /\ \/ Returns(thread, "false")
         \/ handler' = [handler EXCEPT ![thread] =
              [pc |-> "located", cmd |-> h.cmd, ts |-> h.ts, in |-> in]]
      /\ UNCHANGED <<now, files, links, table, tasks, macroVars>>
    BY DEF Locate, fileVars
<1>2. thread = "macro" => position \in DOMAIN Steps /\ ~waiting
    BY <1>1, MacroBusy
<1>3. TableInv'
    BY <1>1, NothingChanges, TableKept DEF IInv
<1>4. CASE Returns(thread, "false")
    BY <1>1, <1>2, <1>3, <1>4, QuietReturn
<1>5. CASE ~Returns(thread, "false")
  <2>1. /\ h.cmd \in DOMAIN Processings /\ h.ts \in Times /\ h.ts < now
        /\ h.cmd \in Given
    BY <1>1, ShapeFields DEF IInv, HandlerShape, ChosenInv, Chosen, AnalysisPlaces
  <2>2. vaultPath \in Vaults
    BY DEF IInv, ClockInv, Vaults
  <2>3. in \in Paths /\ in.vault = vaultPath /\ in.ts = h.ts /\ in.suffix = c.input
    BY <2>1, <2>2, ProcessingFacts, PathFields
  <2>4. PICK g : g = [pc |-> "located", cmd |-> h.cmd, ts |-> h.ts, in |-> in]
    OBVIOUS
  <2>5. handler' = [handler EXCEPT ![thread] = g]
    BY <1>1, <1>5, <2>4
  <2> HIDE DEF in
  <2>6. /\ g \in [pc : {"located"}, cmd : DOMAIN Processings, ts : Times, in : Paths]
        /\ g.pc = "located" /\ g.cmd = h.cmd /\ g.ts = h.ts /\ g.in = in
    BY <2>1, <2>3, <2>4
  <2>7. Shape(g)
    BY <2>6 DEF Shape
  <2>8. Chosen(g)'
    BY <1>1, <2>1, <2>3, <2>6 DEF Chosen, AnalysisPlaces, Given
  <2>9. thread = "macro" => InVault(g) /\ OfNewVault(g.ts)
    BY <1>1, <2>3, <2>6 DEF IInv, MacroChosen, InVault, OfNewVault, AnalysisPlaces
  <2>10. g.pc \notin AnalysisPlaces \cup {"stamped", "named", "true", "false"}
    BY <2>6 DEF AnalysisPlaces
  <2> QED BY <1>1, <1>2, <1>3, <2>5, <2>7, <2>8, <2>9, <2>10, QuietMove
<1> QED BY <1>4, <1>5

LEMMA NameStep ==
    ASSUME IInv, NEW thread \in Threads, Name(thread)
    PROVE  IInv'
<1> DEFINE h == handler[thread]
           out == Output(h)
<1>1. /\ h.pc = "located" /\ UNCHANGED <<now, files, links, table, tasks, macroVars>>
      /\ handler' = [handler EXCEPT ![thread] =
           [pc |-> "named", cmd |-> h.cmd, ts |-> h.ts, in |-> h.in, out |-> out]]
    BY DEF Name, fileVars
<1>2. thread = "macro" => position \in DOMAIN Steps /\ ~waiting
    BY <1>1, MacroBusy
<1>3. Grows
    BY <1>1, NothingChanges
<1>4. /\ h.cmd \in DOMAIN Processings /\ h.ts \in Times /\ h.in \in Paths
      /\ h.ts < now /\ h.cmd \in Given /\ h.in.ts = h.ts
      /\ h.in.suffix = Processings[h.cmd].input
    BY <1>1, ShapeFields DEF IInv, HandlerShape, ChosenInv, Chosen
<1>5. vaultPath \in Vaults /\ vaultPath <= timestamp
    BY ClockTypes DEF IInv, ClockInv, Vaults, Times
<1>6. /\ out = Path(vaultPath, Processings[h.cmd].to, Processings[h.cmd].prefix,
                    h.ts, Processings[h.cmd].output)
      /\ out \in Paths /\ out.vault = vaultPath
    BY <1>4, <1>5, ProcessingFacts, PathFields DEF Output
<1>7. PICK g : g = [pc |-> "named", cmd |-> h.cmd, ts |-> h.ts, in |-> h.in,
                    out |-> out]
    OBVIOUS
<1>8. handler' = [handler EXCEPT ![thread] = g]
    BY <1>1, <1>7
<1> HIDE DEF out
<1>9. /\ g \in [pc : {"named"}, cmd : DOMAIN Processings, ts : Times, in : Paths,
                out : Paths]
      /\ g.pc = "named" /\ g.cmd = h.cmd /\ g.ts = h.ts /\ g.in = h.in
      /\ g.out = out
    BY <1>4, <1>6, <1>7
<1>10. Shape(g)
    BY <1>9 DEF Shape
<1>11. Chosen(g)'
    BY <1>1, <1>4, <1>5, <1>6, <1>9 DEF Chosen, AnalysisPlaces, Given, macroVars
<1>12. AnalysisAt(g)'
    BY <1>9 DEF AnalysisAt, AnalysisPlaces
<1>13. thread = "macro" => InVault(g)
    BY <1>1, <1>6, <1>9 DEF IInv, MacroChosen, InVault, AnalysisPlaces
<1>14. now' \in Nat /\ now <= now' /\ UNCHANGED macroVars
    BY <1>1, ClockTypes DEF IInv, ClockInv
<1>15. g.pc \notin {"true", "false", "stamped"}
    BY <1>9
<1>16. MacroInv' /\ HandlerShape' /\ ChosenInv' /\ MacroChosen' /\ AnalysisInv'
    BY <1>2, <1>3, <1>8, <1>10, <1>11, <1>12, <1>13, <1>14, <1>15, HandlerMoves
<1>17. handler'[thread] = g /\ \A u \in Threads \ {thread} : handler'[u] = handler[u]
    BY <1>8, HandlerStep DEF IInv
<1>18. ClockInv' /\ TasksInv' /\ FilesInv' /\ LinksInv' /\ OutputsInv'
    BY <1>1 DEF IInv, ClockInv, TasksInv, FilesInv, LinksInv, OutputsInv, Outputs,
       macroVars
<1>19. TableInv'
    BY <1>1, <1>3, TableKept DEF IInv
<1>20. StampedInv'
    BY <1>1, <1>15, <1>17, StampedKept DEF IInv
<1>21. NewVaultInv'
  <2>1. CASE thread = "worker"
    BY <1>1, <1>6, <1>9, <1>17, <2>1 DEF NewVaultInv, Overtaken, macroVars
  <2>2. CASE thread = "macro"
    <3>1. OfNewVault(h.ts)
      BY <1>1, <2>2 DEF OfNewVault
    <3>2. /\ \A p \in DOMAIN files' : p.vault = vaultPath => OfNewVault(p.ts)
          /\ \A t \in tasks' : t.vault = vaultPath => OfNewVault(t.ts)
      BY <1>1 DEF OfNewVault
    <3>3. OfNewVault(handler'["macro"].ts)
      BY <1>9, <1>17, <2>2, <3>1
    <3>4. /\ vaultPath' = vaultPath /\ handler'["worker"] = handler["worker"]
          /\ Overtaken(handler["worker"])' => Overtaken(handler["worker"])
      BY <1>1, <1>17, <2>2 DEF Overtaken, macroVars, Threads
    <3> QED BY <3>2, <3>3, <3>4, NewVaultKept DEF IInv
  <2> QED BY <2>1, <2>2 DEF Threads
<1> QED BY <1>16, <1>18, <1>19, <1>20, <1>21 DEF IInv

LEMMA AnalysisFailsStep ==
    ASSUME IInv, NEW thread \in Threads, AnalysisFails(thread)
    PROVE  IInv'
<1>1. /\ handler[thread].pc = "analysing" /\ Returns(thread, "false")
      /\ UNCHANGED <<now, files, links, table, tasks, macroVars>>
    BY DEF AnalysisFails, fileVars
<1>2. thread = "macro" => position \in DOMAIN Steps /\ ~waiting
    BY <1>1, MacroBusy
<1>3. TableInv'
    BY <1>1, NothingChanges, TableKept DEF IInv
<1> QED BY <1>1, <1>2, <1>3, QuietReturn

\* A candidate is the timestamp of a file of the past; one of the vault is of a
\* file in the vault.
LEMMA CandidateFacts ==
    ASSUME IInv, NEW cmd, NEW x \in Candidates(cmd, vaultPath)
    PROVE  /\ x \in Times /\ x < now
           /\ vaultPath # 0 => \E p \in DOMAIN files : p.vault = vaultPath /\ p.ts = x
<1>1. PICK q \in DOMAIN files \cup DOMAIN links : q.vault = vaultPath /\ q.ts = x
    BY DEF Candidates
<1>2. CASE q \in DOMAIN links
  <2>1. links[q] \in DOMAIN files /\ links[q].ts = x /\ q.vault = 0
    BY <1>1, <1>2 DEF IInv, LinksInv
  <2>2. x \in Times /\ x < now
    BY <2>1, PathTypes DEF IInv, FilesInv
  <2> QED BY <1>1, <2>1, <2>2
<1>3. CASE q \in DOMAIN files
    BY <1>1, <1>3, PathTypes DEF IInv, FilesInv
<1> QED BY <1>1, <1>2, <1>3

LEMMA SelectMove ==
    ASSUME IInv, NEW thread \in Threads, NEW cmd \in DOMAIN Processings,
           cmd \in Given, Select(thread, cmd),
           UNCHANGED <<now, files, links, table, tasks, macroVars>>,
           thread = "macro" =>
              position \in DOMAIN Steps /\ ~waiting /\ cmd = Steps[position]
    PROVE  IInv'
<1> DEFINE x == getLatestTimestamp(cmd, vaultPath)
<1>1. TableInv'
    BY NothingChanges, TableKept DEF IInv
<1>2. CASE Candidates(cmd, vaultPath) = {}
  <2>1. Returns(thread, "false")
    BY <1>2 DEF Select
  <2> QED BY <1>1, <2>1, QuietReturn
<1>3. CASE Candidates(cmd, vaultPath) # {}
  <2>1. PICK g : g = [pc |-> "selected", cmd |-> cmd, ts |-> x]
    OBVIOUS
  <2>2. handler' = [handler EXCEPT ![thread] = g]
    BY <1>3, <2>1 DEF Select
  <2>3. Candidates(cmd, vaultPath) \subseteq Times
    BY CandidateFacts
  <2>4. x \in Candidates(cmd, vaultPath)
    BY <1>3, <2>3, LatestIsCandidate
  <2> HIDE DEF x
  <2>5. /\ x \in Times /\ x < now
        /\ vaultPath # 0 => \E p \in DOMAIN files : p.vault = vaultPath /\ p.ts = x
    BY <2>4, CandidateFacts
  <2>6. /\ g \in [pc : {"selected"}, cmd : DOMAIN Processings, ts : Times]
        /\ g.pc = "selected" /\ g.cmd = cmd /\ g.ts = x
    BY <2>1, <2>5
  <2>7. Shape(g)
    BY <2>6 DEF Shape
  <2>8. Chosen(g)'
    BY <2>5, <2>6 DEF Chosen, AnalysisPlaces, Given
  <2>9. thread = "macro" => InVault(g) /\ OfNewVault(g.ts)
    <3>1. thread = "macro" => position # 0
      BY CommandsAssumption
    <3>2. thread = "macro" => vaultPath # 0
      BY <3>1 DEF IInv, ClockInv
    <3> QED BY <2>5, <2>6, <3>2 DEF InVault, OfNewVault, AnalysisPlaces
  <2>10. g.pc \notin AnalysisPlaces \cup {"stamped", "named", "true", "false"}
    BY <2>6 DEF AnalysisPlaces
  <2> QED BY <1>1, <2>2, <2>7, <2>8, <2>9, <2>10, QuietMove
<1> QED BY <1>2, <1>3

\* A path leads to a file of its timestamp.
LEMMA ResolveFacts ==
    ASSUME IInv, NEW p \in Paths
    PROVE  /\ Resolve(p) \in Paths
           /\ Resolve(p).ts = p.ts /\ Resolve(p).suffix = p.suffix
           /\ p.vault <= timestamp => Resolve(p).vault <= timestamp
           /\ p.vault # 0 => Resolve(p) = p
           /\ p \in DOMAIN links => Whole(files[Resolve(p)])
<1>1. CASE p \in DOMAIN links
  <2>1. /\ Resolve(p) = links[p] /\ links[p] \in DOMAIN files
        /\ links[p].ts = p.ts /\ links[p].suffix = p.suffix /\ p.vault = 0
        /\ Whole(files[links[p]])
    BY <1>1 DEF IInv, LinksInv, Resolve
  <2> QED BY <2>1 DEF IInv, FilesInv
<1>2. CASE p \notin DOMAIN links
    BY <1>2 DEF Resolve
<1> QED BY <1>1, <1>2

\* What an analysis writes from its input in.
LEMMA AnalysisFiles ==
    ASSUME IInv, NEW in \in Paths, exists(in), NEW d \in BOOLEAN, NEW S,
           Write(S, [files[Resolve(in)] EXCEPT !.made = d]),
           UNCHANGED <<now, links, tasks, macroVars>>,
           \A p \in S : /\ p \in Paths /\ p.ts = in.ts
                        /\ p.suffix \notin Raw /\ p.vault <= timestamp
                        /\ p \in DOMAIN files /\ files[p].made => d
    PROVE  /\ FilesInv' /\ LinksInv' /\ Grows /\ OutputsInv'
           /\ DOMAIN files' = DOMAIN files \cup S
           /\ \A p \in S : files'[p].made = d
           /\ \A p \in DOMAIN files' : \E q \in DOMAIN files : q.ts = p.ts
<1> DEFINE r == Resolve(in)
<1>1. r \in DOMAIN files /\ r.ts = in.ts
    BY ResolveFacts DEF exists
<1>2. PICK c : c = [files[r] EXCEPT !.made = d]
    OBVIOUS
<1>3. /\ Write(S, c)
      /\ c \in [from : Times, begun : Vaults, made : BOOLEAN]
      /\ c.from = in.ts /\ c.made = d
  <2>1. files[r] \in [from : Times, begun : Vaults, made : BOOLEAN]
        /\ files[r].from = r.ts
    BY <1>1 DEF IInv, FilesInv
  <2> HIDE DEF r
  <2>2. /\ c \in [from : Times, begun : Vaults, made : BOOLEAN]
        /\ c.from = in.ts /\ c.made = d
    BY <1>1, <1>2, <2>1
  <2>3. Write(S, c)
    BY <1>2 DEF r
  <2> QED BY <2>2, <2>3
<1>4. \A p \in S : Writable(p, c)
  <2>1. in.ts < now
    BY <1>1 DEF IInv, FilesInv
  <2> QED BY <1>3, <2>1 DEF Writable
<1>5. now' = now /\ timestamp' = timestamp /\ links' = links
    BY DEF macroVars
<1>6. FilesInv' /\ LinksInv' /\ Grows
    BY <1>3, <1>4, <1>5, WriteEffect DEF IInv
<1>7. /\ DOMAIN files' = DOMAIN files \cup S
      /\ \A p \in S : files'[p] = c
      /\ \A p \in DOMAIN files \ S : files'[p] = files[p]
    BY <1>3 DEF Write
<1>8. OutputsInv'
  <2> SUFFICES ASSUME NEW t \in tasks
               PROVE  /\ t.state = "running" =>
                           \A p \in DOMAIN files' :
                              p.ts = t.ts /\ p.suffix \in Raw => ~files'[p].made
                      /\ t.state = "good" =>
                           \A p \in Outputs(t) \cap DOMAIN files' : files'[p].made
    BY DEF OutputsInv, Outputs
  <2>1. \A p \in Outputs(t) : p.suffix \in Raw
    BY OutputFields DEF IInv, TasksInv
  <2> QED BY <1>7, <2>1 DEF IInv, OutputsInv
<1>9. \A p \in DOMAIN files' : \E q \in DOMAIN files : q.ts = p.ts
    BY <1>1, <1>7
<1> QED BY <1>3, <1>6, <1>7, <1>8, <1>9

LEMMA AnalyseStep ==
    ASSUME IInv, NEW thread \in Threads, Analyse(thread)
    PROVE  IInv'
<1> DEFINE h == handler[thread]
           path == IF Processings[h.cmd].again THEN Output(h) ELSE h.out
           file == Resolve(path)
           d == file \in DOMAIN files /\ files[file].made
<1>1. h.pc = "named" /\ UNCHANGED <<now, links, table, tasks, macroVars>>
    BY DEF Analyse
<1>2. thread = "macro" => position \in DOMAIN Steps /\ ~waiting
    BY <1>1, MacroBusy
<1>3. CASE Returns(thread, "false") /\ UNCHANGED files
  <2>1. TableInv'
    BY <1>1, <1>3, NothingChanges, TableKept DEF IInv
  <2> QED BY <1>1, <1>2, <1>3, <2>1, QuietReturn
<1>4. CASE /\ exists(h.in)
           /\ Write({file}, [files[Resolve(h.in)] EXCEPT !.made = d])
           /\ handler' = [handler EXCEPT ![thread] =
                [pc |-> "analysing", cmd |-> h.cmd, ts |-> h.ts, in |-> h.in,
                 out |-> h.out, file |-> file]]
  <2>1. PICK g : g = [pc |-> "analysing", cmd |-> h.cmd, ts |-> h.ts, in |-> h.in,
                      out |-> h.out, file |-> file]
    OBVIOUS
  <2>2. /\ Write({file}, [files[Resolve(h.in)] EXCEPT !.made = d])
        /\ handler' = [handler EXCEPT ![thread] = g]
    BY <1>4, <2>1
  <2>3. /\ h.cmd \in DOMAIN Processings /\ h.ts \in Times /\ h.in \in Paths
        /\ h.ts < now /\ h.cmd \in Given /\ h.in.ts = h.ts
        /\ h.in.suffix = Processings[h.cmd].input
        /\ h.out \in Paths /\ h.out.vault <= timestamp
        /\ h.out = Path(h.out.vault, Processings[h.cmd].to,
                        Processings[h.cmd].prefix, h.ts, Processings[h.cmd].output)
    BY <1>1, ShapeFields DEF IInv, HandlerShape, ChosenInv, Chosen
  <2>4. vaultPath \in Vaults /\ vaultPath <= timestamp /\ h.out.vault \in Vaults
    BY <2>3, ClockTypes, PathTypes DEF IInv, ClockInv, Vaults, Times
  <2>5. /\ h.out.ts = h.ts /\ h.out.suffix = Processings[h.cmd].output
        /\ Processings[h.cmd].output \notin Raw
    BY <2>3, <2>4, ProcessingFacts, PathFields
  <2>6. /\ path \in Paths /\ path.ts = h.ts
        /\ path.suffix = Processings[h.cmd].output
        /\ path.vault \in {vaultPath, h.out.vault} /\ path.vault <= timestamp
        /\ ~Processings[h.cmd].again => path = h.out
        /\ Processings[h.cmd].again => path.vault = vaultPath
    <3>1. /\ Output(h) \in Paths /\ Output(h).vault = vaultPath
          /\ Output(h).ts = h.ts /\ Output(h).suffix = Processings[h.cmd].output
      BY <2>3, <2>4, ProcessingFacts, PathFields DEF Output
    <3> QED BY <2>3, <2>4, <2>5, <3>1
  <2> HIDE DEF path
  <2>7. /\ file \in Paths /\ file.ts = h.ts
        /\ file.suffix = Processings[h.cmd].output
        /\ file.vault <= timestamp
        /\ file = path \/ path \in DOMAIN links
        /\ path.vault # 0 => file = path
        /\ file.vault # 0 /\ path.vault = 0 => file \in DOMAIN files
    <3>1. path \in DOMAIN links => file \in DOMAIN files
      BY DEF IInv, LinksInv, Resolve
    <3> QED BY <2>6, <3>1, ResolveFacts DEF Resolve
  <2>8. d \in BOOLEAN /\ (file \in DOMAIN files /\ files[file].made => d)
    BY DEF IInv, FilesInv
  <2> HIDE DEF file, d
  <2>9. /\ FilesInv' /\ LinksInv' /\ Grows /\ OutputsInv'
        /\ DOMAIN files' = DOMAIN files \cup {file}
        /\ \A p \in DOMAIN files' : \E q \in DOMAIN files : q.ts = p.ts
    <3> DEFINE S == {file}
    <3>1. \A p \in S : /\ p \in Paths /\ p.ts = h.in.ts
                       /\ p.suffix \notin Raw /\ p.vault <= timestamp
                       /\ p \in DOMAIN files /\ files[p].made => d
      BY <2>3, <2>5, <2>7, <2>8
    <3>2. Write(S, [files[Resolve(h.in)] EXCEPT !.made = d])
      BY <2>2
    <3> HIDE DEF S
    <3>3. /\ FilesInv' /\ LinksInv' /\ Grows /\ OutputsInv'
          /\ DOMAIN files' = DOMAIN files \cup S
          /\ \A p \in DOMAIN files' : \E q \in DOMAIN files : q.ts = p.ts
      BY <1>1, <1>4, <2>3, <2>8, <3>1, <3>2, AnalysisFiles
    <3> QED BY <3>3 DEF S
  <2>10. /\ g \in [pc : AnalysisPlaces, cmd : DOMAIN Processings, ts : Times,
                  in : Paths, out : Paths, file : Paths]
        /\ g.pc = "analysing" /\ g.cmd = h.cmd /\ g.ts = h.ts /\ g.in = h.in
        /\ g.out = h.out /\ g.file = file
    BY <2>1, <2>3, <2>7 DEF AnalysisPlaces
  <2>11. Shape(g)
    BY <2>10 DEF Shape
  <2>12. Chosen(g)'
    BY <1>1, <2>3, <2>7, <2>10 DEF Chosen, AnalysisPlaces, Given, macroVars
  <2>13. AnalysisAt(g)'
    <3>1. exists(g.in)'
      BY <1>4, <2>3, <2>9, <2>10 DEF Grows
    <3>2. ~Processings[g.cmd].again =>
             g.out \in DOMAIN links' \/ (g.file = g.out /\ g.out \in DOMAIN files')
      BY <1>1, <2>6, <2>7, <2>9, <2>10
    <3> QED BY <2>10, <3>1, <3>2 DEF AnalysisAt, AnalysisPlaces
  <2>14. thread = "macro" => InVault(g)
    BY <1>1, <2>10 DEF IInv, MacroChosen, InVault, AnalysisPlaces
  <2>15. g.pc \notin {"true", "false", "stamped"}
    BY <2>10
  <2>16. now' \in Nat /\ now <= now' /\ UNCHANGED macroVars
    BY <1>1, ClockTypes DEF IInv, ClockInv
  <2>17. MacroInv' /\ HandlerShape' /\ ChosenInv' /\ MacroChosen' /\ AnalysisInv'
    BY <1>2, <2>2, <2>9, <2>11, <2>12, <2>13, <2>14, <2>15, <2>16, HandlerMoves
  <2>18. handler'[thread] = g /\ \A u \in Threads \ {thread} : handler'[u] = handler[u]
    BY <2>2, HandlerStep DEF IInv
  <2>19. ClockInv' /\ TasksInv' /\ TableInv'
    BY <1>1, <2>9, TableKept DEF IInv, ClockInv, TasksInv, macroVars
  <2>20. StampedInv'
    BY <1>1, <2>9, <2>15, <2>18, StampedKept DEF IInv
  <2>21. NewVaultInv'
    <3>1. CASE thread = "worker"
      <4> SUFFICES ASSUME Overtaken(handler["worker"])'
                   PROVE  NewVaultInv'
        BY DEF NewVaultInv
      <4>1. handler'["worker"] = g /\ vaultPath' = vaultPath
        BY <1>1, <2>18, <3>1 DEF macroVars
      <4>2. ~Processings[h.cmd].again /\ h.out.vault # vaultPath /\ vaultPath # 0
        BY <2>10, <4>1 DEF Overtaken
      <4>3. Overtaken(handler["worker"])
        BY <1>1, <3>1, <4>2 DEF Overtaken
      <4>4. file.vault = vaultPath => file \in DOMAIN files
        BY <2>6, <2>7, <4>2
      <4>5. /\ \A p \in DOMAIN files' : p.vault = vaultPath => OfNewVault(p.ts)
            /\ \A t \in tasks' : t.vault = vaultPath => OfNewVault(t.ts)
        BY <1>1, <2>9, <4>4 DEF OfNewVault
      <4>6. handler'["macro"].pc
               \in AnalysisPlaces \cup {"stamped", "selected", "located", "named"}
              => OfNewVault(handler'["macro"].ts)
        BY <2>18, <3>1 DEF OfNewVault, Threads
      <4>7. handler'["worker"].ts = handler["worker"].ts
        BY <2>10, <3>1, <4>1
      <4> QED BY <4>1, <4>3, <4>5, <4>6, <4>7, NewVaultKept DEF IInv
    <3>2. CASE thread = "macro"
      <4>1. OfNewVault(h.ts)
        BY <1>1, <3>2 DEF OfNewVault
      <4>2. /\ \A p \in DOMAIN files' : p.vault = vaultPath => OfNewVault(p.ts)
            /\ \A t \in tasks' : t.vault = vaultPath => OfNewVault(t.ts)
        BY <1>1, <2>7, <2>9, <4>1 DEF OfNewVault
      <4>3. OfNewVault(handler'["macro"].ts)
        BY <2>10, <2>18, <3>2, <4>1
      <4>4. /\ vaultPath' = vaultPath /\ handler'["worker"] = handler["worker"]
            /\ Overtaken(handler["worker"])' => Overtaken(handler["worker"])
        BY <1>1, <2>18, <3>2 DEF Overtaken, macroVars, Threads
      <4> QED BY <4>2, <4>3, <4>4, NewVaultKept DEF IInv
    <3> QED BY <3>1, <3>2 DEF Threads
  <2> QED BY <2>9, <2>17, <2>19, <2>20, <2>21 DEF IInv
<1> QED BY <1>3, <1>4 DEF Analyse

LEMMA AnalysisWritesStep ==
    ASSUME IInv, NEW thread \in Threads, AnalysisWrites(thread)
    PROVE  IInv'
<1> DEFINE h == handler[thread]
           S == {h.file} \cap DOMAIN files
<1>1. /\ h.pc = "analysing" /\ UNCHANGED <<now, links, table, tasks, macroVars>>
      /\ Write(S, [files[Resolve(h.in)] EXCEPT !.made = TRUE])
      /\ handler' = [handler EXCEPT ![thread] = [h EXCEPT !.pc = "publish"]]
    BY DEF AnalysisWrites
<1>2. thread = "macro" => position \in DOMAIN Steps /\ ~waiting
    BY <1>1, MacroBusy
<1>3. Shape(h) /\ Chosen(h) /\ AnalysisAt(h)
    BY DEF IInv, HandlerShape, ChosenInv, AnalysisInv
<1>4. /\ h.cmd \in DOMAIN Processings /\ h.ts \in Times
      /\ h.in \in Paths /\ h.out \in Paths /\ h.file \in Paths
    BY <1>1, <1>3, ShapeFields DEF AnalysisPlaces
<1>5. /\ h.in.ts = h.ts /\ h.file.ts = h.ts /\ h.file.suffix \notin Raw
      /\ exists(h.in)
      /\ ~Processings[h.cmd].again =>
            h.out \in DOMAIN links \/ (h.file = h.out /\ h.out \in DOMAIN files)
    BY <1>1, <1>3, <1>4, ProcessingFacts DEF Chosen, AnalysisAt, AnalysisPlaces
<1>6. \A p \in S : p \in Paths /\ p.ts = h.in.ts /\ p.suffix \notin Raw
                   /\ p.vault <= timestamp
    BY <1>4, <1>5 DEF IInv, FilesInv
<1> HIDE DEF S
<1>7. /\ FilesInv' /\ LinksInv' /\ Grows /\ OutputsInv'
      /\ DOMAIN files' = DOMAIN files \cup S
      /\ \A p \in S : files'[p].made = TRUE
      /\ \A p \in DOMAIN files' : \E q \in DOMAIN files : q.ts = p.ts
    BY <1>1, <1>4, <1>5, <1>6, AnalysisFiles
<1>8. DOMAIN files' = DOMAIN files
    BY <1>7 DEF S
<1>9. PICK g : /\ g = [h EXCEPT !.pc = "publish"]
               /\ Shape(g) /\ g.pc = "publish" /\ g.cmd = h.cmd /\ g.ts = h.ts
               /\ g.in = h.in /\ g.out = h.out /\ g.file = h.file
    BY <1>1, <1>3, NextPlace DEF AnalysisPlaces
<1>10. Chosen(g)'
    BY <1>1, <1>3, <1>9 DEF Chosen, AnalysisPlaces, Given, macroVars
<1>11. AnalysisAt(g)'
  <2>1. exists(g.in)'
    BY <1>4, <1>5, <1>7, <1>9 DEF Grows
  <2>2. ASSUME ~Processings[h.cmd].again
        PROVE  Complete(g.out)'
    <3>1. CASE h.out \in DOMAIN links
      BY <1>1, <1>7, <1>9, <3>1 DEF LinksInv, Complete, exists, Resolve
    <3>2. CASE h.out \notin DOMAIN links
      <4>1. h.out \in S /\ Resolve(h.out)' = h.out
        BY <1>1, <1>5, <2>2, <3>2 DEF S, Resolve
      <4> QED BY <1>1, <1>7, <1>9, <3>2, <4>1 DEF Complete, Whole, exists, Resolve
    <3> QED BY <3>1, <3>2
  <2> QED BY <1>9, <2>1, <2>2 DEF AnalysisAt
<1>12. thread = "macro" => InVault(g)
    BY <1>1, <1>9 DEF IInv, MacroChosen, InVault, AnalysisPlaces
<1>13. now' \in Nat /\ now <= now' /\ UNCHANGED macroVars
    BY <1>1, ClockTypes DEF IInv, ClockInv
<1>14. handler' = [handler EXCEPT ![thread] = g]
    BY <1>1, <1>9
<1>15. MacroInv' /\ HandlerShape' /\ ChosenInv' /\ MacroChosen' /\ AnalysisInv'
    BY <1>2, <1>7, <1>9, <1>10, <1>11, <1>12, <1>13, <1>14, HandlerMoves
<1>16. handler'[thread] = g /\ \A u \in Threads \ {thread} : handler'[u] = handler[u]
    BY <1>14, HandlerStep DEF IInv
<1>17. ClockInv' /\ TasksInv' /\ TableInv'
    BY <1>1, <1>7, TableKept DEF IInv, ClockInv, TasksInv, macroVars
<1>18. StampedInv'
    BY <1>1, <1>7, <1>9, <1>16, StampedKept DEF IInv
<1>19. NewVaultInv'
    BY <1>1, <1>8, <1>9, <1>16
       DEF IInv, NewVaultInv, Overtaken, macroVars, Threads, AnalysisPlaces
<1> QED BY <1>7, <1>15, <1>17, <1>18, <1>19 DEF IInv

LEMMA PublishStep ==
    ASSUME IInv, NEW thread \in Threads, Publish(thread)
    PROVE  IInv'
<1> DEFINE h == handler[thread]
           c == Processings[h.cmd]
<1>1. /\ h.pc = "publish" /\ UNCHANGED <<now, table, tasks, macroVars>>
      /\ LinkToOriginalDir({h.out}, c.to)
      /\ \/ /\ c.tabled
            /\ handler' = [handler EXCEPT ![thread] = [h EXCEPT !.pc = "table"]]
         \/ \E result \in {"true", "false"} : Returns(thread, result)
    BY DEF Publish
<1>2. thread = "macro" => position \in DOMAIN Steps /\ ~waiting
    BY <1>1, MacroBusy
<1>3. Shape(h) /\ Chosen(h) /\ AnalysisAt(h)
    BY DEF IInv, HandlerShape, ChosenInv, AnalysisInv
<1>4. /\ h.cmd \in DOMAIN Processings /\ h.ts \in Times
      /\ h.in \in Paths /\ h.out \in Paths /\ h.file \in Paths
    BY <1>1, <1>3, ShapeFields DEF AnalysisPlaces
<1>5. /\ exists(h.in)
      /\ c.tabled => Complete(h.out)
      /\ ~c.again => Complete(h.out)
      /\ h.out.vault # 0 /\ ~c.again => h.out \in DOMAIN files
      /\ h.out.vault # 0 /\ h.out \in DOMAIN files => Whole(files[h.out])
  <2>1. /\ exists(h.in) /\ (~c.again => Complete(h.out))
    BY <1>1, <1>3 DEF AnalysisAt, AnalysisPlaces
  <2>2. c.tabled => ~c.again
    BY <1>4, ProcessingFacts
  <2>3. h.out.vault # 0 => Resolve(h.out) = h.out
    BY <1>4, ResolveFacts
  <2>4. CASE c.again
    <3>1. h.cmd \in Given
      BY <1>1, <1>3 DEF Chosen, AnalysisPlaces
    <3>2. ~NamesOutputOnce
      BY <1>4, <2>4, <3>1 DEF NamesOutputOnce
    <3> QED BY <2>1, <2>2, <2>4, <3>2 DEF Whole
  <2>5. CASE ~c.again
    BY <2>1, <2>3, <2>5 DEF Complete, exists
  <2> QED BY <2>4, <2>5
<1>6. /\ FilesInv' /\ LinksInv' /\ Grows
      /\ DOMAIN files' \subseteq DOMAIN files
      /\ \A p \in DOMAIN files' : files'[p] = files[p]
      /\ h.out.vault # 0 /\ ~c.again => Original(h.out, c.to) \in DOMAIN links'
  <2> DEFINE S == {h.out}
  <2>1. /\ LinkToOriginalDir(S, c.to) /\ now' = now /\ timestamp' = timestamp
        /\ \A p \in S : p \in DOMAIN files /\ p.vault # 0 => Whole(files[p])
        /\ h.out \in S
    BY <1>1, <1>5 DEF macroVars
  <2>2. c.to \in Directories
    BY <1>4, ProcessingFacts
  <2> HIDE DEF S
  <2>3. /\ FilesInv' /\ LinksInv' /\ Grows
        /\ DOMAIN files' \subseteq DOMAIN files
        /\ \A p \in DOMAIN files' : files'[p] = files[p]
        /\ \A p \in S : p \in DOMAIN files /\ p.vault # 0 =>
              Original(p, c.to) \in DOMAIN links'
    BY <2>1, <2>2, LinkEffect DEF IInv
  <2> QED BY <1>5, <2>1, <2>3
<1>7. /\ MacroInv' /\ HandlerShape' /\ ChosenInv' /\ MacroChosen' /\ AnalysisInv'
      /\ \/ handler'[thread].pc \in {"idle", "true", "false"}
         \/ /\ handler'[thread].pc = "table"
            /\ handler'[thread].ts = h.ts /\ handler'[thread].out = h.out
            /\ handler'[thread].cmd = h.cmd
      /\ \A u \in Threads \ {thread} : handler'[u] = handler[u]
  <2>1. CASE \E result \in {"true", "false"} : Returns(thread, result)
    <3>1. PICK result \in {"true", "false"} : Returns(thread, result)
      BY <2>1
    <3>2. UNCHANGED <<now, macroVars>>
      BY <1>1
    <3> QED BY <1>2, <1>6, <3>1, <3>2, ReturnMoves
  <2>2. CASE /\ c.tabled
             /\ handler' = [handler EXCEPT ![thread] = [h EXCEPT !.pc = "table"]]
    <3>1. PICK g : /\ g = [h EXCEPT !.pc = "table"]
                   /\ Shape(g) /\ g.pc = "table" /\ g.cmd = h.cmd /\ g.ts = h.ts
                   /\ g.in = h.in /\ g.out = h.out /\ g.file = h.file
      BY <1>1, <1>3, NextPlace DEF AnalysisPlaces
    <3>2. Chosen(g)'
      BY <1>1, <1>3, <2>2, <3>1 DEF Chosen, AnalysisPlaces, Given, macroVars
    <3>3. AnalysisAt(g)'
      <4>1. exists(g.in)' /\ Complete(g.out)' /\ ~c.again
        BY <1>4, <1>5, <1>6, <2>2, <3>1, ProcessingFacts DEF Grows
      <4> QED BY <1>6, <3>1, <4>1 DEF AnalysisAt
    <3>4. thread = "macro" => InVault(g)
      BY <1>1, <3>1 DEF IInv, MacroChosen, InVault, AnalysisPlaces
    <3>5. now' \in Nat /\ now <= now' /\ UNCHANGED macroVars
      BY <1>1, ClockTypes DEF IInv, ClockInv
    <3>6. handler' = [handler EXCEPT ![thread] = g]
      BY <1>1, <2>2, <3>1
    <3>7. MacroInv' /\ HandlerShape' /\ ChosenInv' /\ MacroChosen' /\ AnalysisInv'
      BY <1>2, <1>6, <3>1, <3>2, <3>3, <3>4, <3>5, <3>6, HandlerMoves
    <3>8. handler'[thread] = g
          /\ \A u \in Threads \ {thread} : handler'[u] = handler[u]
      BY <3>6, HandlerStep DEF IInv
    <3> QED BY <3>1, <3>7, <3>8
  <2> QED BY <1>1, <2>1, <2>2
<1>8. ClockInv' /\ TasksInv' /\ TableInv' /\ OutputsInv'
    BY <1>1, <1>6, TableKept, LinkKeeps DEF IInv, ClockInv, TasksInv, macroVars
<1>9. StampedInv'
    BY <1>1, <1>6, <1>7, StampedKept DEF IInv
<1>10. NewVaultInv'
    BY <1>1, <1>6, <1>7
       DEF IInv, NewVaultInv, Overtaken, macroVars, Threads, AnalysisPlaces
<1> QED BY <1>6, <1>7, <1>8, <1>9, <1>10 DEF IInv

LEMMA LinkTableStep ==
    ASSUME IInv, NEW thread \in Threads, LinkTable(thread)
    PROVE  IInv'
<1> DEFINE h == handler[thread]
           c == Processings[h.cmd]
           there == Path(vaultPath, c.to, c.prefix, h.ts, c.output)
           src == IF c.prefix = "disc" THEN h.out ELSE there
<1>1. /\ h.pc = "table" /\ UNCHANGED <<now, files, links, tasks, macroVars>>
      /\ \/ exists(src) /\ table' = [table EXCEPT ![c.prefix] = src]
         \/ table' = table
    BY DEF LinkTable
<1>2. PICK result \in {"true", "false"} : Returns(thread, result)
    BY DEF LinkTable
<1>3. thread = "macro" => position \in DOMAIN Steps /\ ~waiting
    BY <1>1, MacroBusy
<1>4. Shape(h) /\ Chosen(h) /\ AnalysisAt(h)
    BY DEF IInv, HandlerShape, ChosenInv, AnalysisInv
<1>5. /\ h.cmd \in DOMAIN Processings /\ h.ts \in Times /\ h.out \in Paths
      /\ c.prefix \in Tables /\ c.to \in Directories /\ c.prefix \in Prefixes
      /\ c.output \in Suffixes
    BY <1>1, <1>4, ShapeFields, ProcessingFacts DEF AnalysisPlaces, Chosen
<1>6. /\ h.out = Path(h.out.vault, c.to, c.prefix, h.ts, c.output)
      /\ Complete(h.out)
      /\ h.out.vault # 0 => Original(h.out, c.to) \in DOMAIN links
    BY <1>1, <1>4, <1>5, ProcessingFacts DEF Chosen, AnalysisAt, AnalysisPlaces
<1>7. vaultPath \in Vaults /\ h.out.vault \in Vaults
    BY <1>5, PathTypes DEF IInv, ClockInv, Vaults
<1>8. there \in Paths /\ there.vault = vaultPath /\ there.ts = h.ts
    BY <1>5, <1>7, PathFields
<1>9. ASSUME exists(there)
      PROVE  Complete(there)
  <2>1. CASE h.out.vault = vaultPath
    BY <1>6, <2>1
  <2>2. CASE h.out.vault # vaultPath /\ vaultPath = 0
    <3>1. PICK v \in Vaults : h.out = Path(v, c.to, c.prefix, h.ts, c.output)
      BY <1>6, <1>7
    <3>2. Original(Path(v, c.to, c.prefix, h.ts, c.output), c.to)
            = Path(0, c.to, c.prefix, h.ts, c.output)
      BY <1>5, OriginalOfPath
    <3>3. Original(h.out, c.to) = there
      BY <2>2, <3>1, <3>2
    <3>4. there \in DOMAIN links
      BY <1>6, <2>2, <3>3
    <3> QED BY <1>8, <1>9, <3>4, ResolveFacts DEF Complete
  <2>3. CASE h.out.vault # vaultPath /\ vaultPath # 0
    <3>1. thread = "worker"
      BY <1>1, <2>3 DEF IInv, MacroChosen, InVault, AnalysisPlaces, Threads
    <3>2. ~c.again
      BY <1>1, <1>4, <1>5, ProcessingFacts DEF Chosen
    <3>3. h.ts < vaultPath
          /\ \A p \in DOMAIN files : p.vault = vaultPath => p.ts >= vaultPath
      BY <1>1, <2>3, <3>1, <3>2 DEF IInv, NewVaultInv, Overtaken, AnalysisPlaces
    <3>4. there \in DOMAIN files
      BY <1>8, <1>9, <2>3, ResolveFacts DEF exists
    <3>5. h.ts \in Nat /\ vaultPath \in Nat
      BY <1>5, <1>7, ClockTypes DEF Vaults, Times
    <3> HIDE DEF there
    <3> QED BY <1>8, <3>3, <3>4, <3>5
  <2> QED BY <2>1, <2>2, <2>3
<1>10. exists(src) => src \in Paths /\ Complete(src)
    BY <1>5, <1>6, <1>8, <1>9
<1>11. TableInv'
  <2> HIDE DEF src
  <2>1. CASE table' = table
    BY <1>1, <2>1, NothingChanges, TableKept DEF IInv
  <2>2. CASE exists(src) /\ table' = [table EXCEPT ![c.prefix] = src]
    <3>1. /\ table' = [t \in Tables |-> table'[t]]
          /\ table'[c.prefix] = src
          /\ \A t \in Tables \ {c.prefix} : table'[t] = table[t]
      BY <1>5, <2>2 DEF IInv, TableInv
    <3>2. \A p \in Paths : Complete(p) => Complete(p)'
      BY <1>1 DEF Complete, exists, Resolve
    <3>3. \A t \in Tables : table'[t] # NoTable =>
             table'[t] \in Paths /\ Complete(table[t])'
      <4> SUFFICES ASSUME NEW t \in Tables, table'[t] # NoTable
                   PROVE  table'[t] \in Paths /\ Complete(table[t])'
        OBVIOUS
      <4>1. PICK p : p = table'[t]
        OBVIOUS
      <4>2. p \in Paths /\ Complete(p)
        BY <1>10, <2>2, <3>1, <4>1 DEF IInv, TableInv
      <4> QED BY <3>2, <4>1, <4>2
    <3> QED BY <3>1, <3>3 DEF TableInv
  <2> QED BY <1>1, <2>1, <2>2
<1> QED BY <1>1, <1>3, <1>11, <1>2, QuietReturn

LEMMA StampMove ==
    ASSUME IInv, NEW thread \in Threads, NEW cmd \in DOMAIN Acquisitions,
           Stamp(thread, cmd), handler[thread].pc = "idle",
           UNCHANGED <<files, links, table, tasks, macroVars>>,
           thread = "macro" => position \in DOMAIN Steps /\ ~waiting
    PROVE  IInv'
<1>1. PICK g : g = [pc |-> "stamped", cmd |-> cmd, ts |-> now]
    OBVIOUS
<1>2. /\ now \in Times /\ now' = now + 1
      /\ handler' = [handler EXCEPT ![thread] = g]
    BY <1>1 DEF Stamp
<1>3. /\ g \in [pc : {"stamped"}, cmd : DOMAIN Acquisitions, ts : Times]
      /\ g.pc = "stamped" /\ g.ts = now
    BY <1>1, <1>2
<1>4. /\ Len(Clock) \in Nat /\ now \in Nat /\ now <= now'
      /\ now' \in 1 .. Len(Clock) + 1 /\ now' \in Nat
    BY <1>2, ClockTypes DEF Times
<1>5. Shape(g)
    BY <1>3 DEF Shape
<1>6. Chosen(g)' /\ AnalysisAt(g)' /\ InVault(g)
    BY <1>2, <1>3, <1>4 DEF Chosen, AnalysisAt, InVault, AnalysisPlaces
<1>7. MacroInv' /\ HandlerShape' /\ ChosenInv' /\ MacroChosen' /\ AnalysisInv'
  <2>1. Grows /\ UNCHANGED macroVars
    BY NothingChanges
  <2> QED BY <1>2, <1>3, <1>4, <1>5, <1>6, <2>1, HandlerMoves
<1>8. handler'[thread] = g /\ \A u \in Threads \ {thread} : handler'[u] = handler[u]
    BY <1>2, HandlerStep DEF IInv
<1>9. ClockInv'
    BY <1>4 DEF IInv, ClockInv, macroVars, Vaults, Times
<1>10. LinksInv' /\ OutputsInv' /\ TableInv'
    BY NothingChanges, TableKept DEF IInv, LinksInv, OutputsInv, Outputs
<1>11. /\ \A t \in tasks : t.ts < now /\ t.ts < now'
       /\ \A p \in DOMAIN files : p.ts < now /\ p.ts < now'
  <2>1. \A t \in tasks : t.ts \in Nat
    BY ClockTypes DEF IInv, TasksInv, Times
  <2>2. \A p \in DOMAIN files : p.ts \in Nat
    BY PathTypes DEF IInv, FilesInv
  <2> QED BY <1>2, <1>4, <2>1, <2>2 DEF IInv, TasksInv, FilesInv
<1>12. TasksInv' /\ FilesInv'
    BY <1>11 DEF IInv, TasksInv, FilesInv, macroVars
<1>13. StampedInv'
  <2>1. \A u \in Threads \ {thread} : handler[u].pc = "stamped" =>
           handler[u].ts < now /\ handler[u].ts \in Nat
    BY ShapeFields, ClockTypes DEF IInv, HandlerShape, ChosenInv, Chosen, Times
  <2>2. /\ \A u \in tasks' : u.ts # now
        /\ \A p \in DOMAIN files' : p.ts # now
        /\ \A u \in Threads \ {thread} : handler'[u].pc = "stamped" =>
              handler'[u].ts # now
    BY <1>4, <1>8, <1>11, <2>1
  <2>3. ASSUME NEW t \in Threads \ {thread}, handler'[t].pc = "stamped"
        PROVE  /\ \A u \in tasks' : u.ts # handler'[t].ts
               /\ \A p \in DOMAIN files' : p.ts # handler'[t].ts
               /\ \A u \in Threads \ {t} :
                     handler'[u].pc = "stamped" => handler'[u].ts # handler'[t].ts
    BY <1>3, <1>8, <2>2, <2>3 DEF IInv, StampedInv
  <2> QED BY <1>3, <1>8, <2>2, <2>3 DEF StampedInv
<1>14. NewVaultInv'
  <2>1. CASE thread = "worker"
    BY <1>3, <1>8, <2>1 DEF NewVaultInv, Overtaken, AnalysisPlaces
  <2>2. CASE thread = "macro"
    <3>1. OfNewVault(now)
      BY <1>4, ClockTypes DEF IInv, ClockInv, OfNewVault, Vaults, Times
    <3>2. /\ \A p \in DOMAIN files' : p.vault = vaultPath => OfNewVault(p.ts)
          /\ \A t \in tasks' : t.vault = vaultPath => OfNewVault(t.ts)
      BY DEF OfNewVault
    <3>3. OfNewVault(handler'["macro"].ts)
      BY <1>3, <1>8, <2>2, <3>1
    <3>4. /\ vaultPath' = vaultPath /\ handler'["worker"] = handler["worker"]
          /\ Overtaken(handler["worker"])' => Overtaken(handler["worker"])
      BY <1>8, <2>2 DEF Overtaken, macroVars, Threads
    <3> QED BY <3>2, <3>3, <3>4, NewVaultKept DEF IInv
  <2> QED BY <2>1, <2>2 DEF Threads
<1> QED BY <1>7, <1>9, <1>10, <1>12, <1>13, <1>14 DEF IInv

\* A step of STOP_DAQ or RESET_DAQ, which may drop tasks.
LEMMA StopMove ==
    ASSUME IInv, NEW thread \in Threads, NEW g,
           handler' = [handler EXCEPT ![thread] = g],
           UNCHANGED <<now, files, links, table>>, tasks' \subseteq tasks,
           UNCHANGED <<vaultPath, position, waiting, timestamp>>, stopped' \in BOOLEAN,
           thread = "macro" => position \in DOMAIN Steps /\ ~waiting,
           thread = "worker" => g.pc \notin {"true", "false"},
           Shape(g), g.pc \in {"idle", "true", "false", "stopping", "swept"}
    PROVE  IInv'
<1>1. Grows
    BY NothingChanges
<1>2. Chosen(g)' /\ AnalysisAt(g)' /\ InVault(g)
    BY DEF Chosen, AnalysisAt, InVault, AnalysisPlaces
<1>3. now' \in Nat /\ now <= now'
    BY ClockTypes DEF IInv, ClockInv
<1>4. MacroInv' /\ HandlerShape' /\ ChosenInv' /\ MacroChosen' /\ AnalysisInv'
    BY <1>1, <1>2, <1>3, HandlerMovesOn
<1>5. handler'[thread] = g /\ \A u \in Threads \ {thread} : handler'[u] = handler[u]
    BY HandlerStep DEF IInv
<1>6. ClockInv' /\ TasksInv' /\ FilesInv' /\ LinksInv' /\ OutputsInv'
    BY DEF IInv, ClockInv, TasksInv, FilesInv, LinksInv, OutputsInv, Outputs
<1>7. StampedInv'
    BY <1>5, StampedKept DEF IInv
<1>8. TableInv'
    BY <1>1, TableKept DEF IInv
<1>9. NewVaultInv'
  <2>1. CASE thread = "worker"
    BY <1>5, <2>1 DEF NewVaultInv, Overtaken, AnalysisPlaces
  <2>2. CASE thread = "macro"
    <3>1. /\ handler'["worker"] = handler["worker"]
          /\ handler'["macro"].pc
               \notin AnalysisPlaces \cup {"stamped", "selected", "located", "named"}
      BY <1>5, <2>2 DEF Threads, AnalysisPlaces
    <3> QED BY <3>1 DEF IInv, NewVaultInv, Overtaken
  <2> QED BY <2>1, <2>2 DEF Threads
<1> QED BY <1>4, <1>6, <1>7, <1>8, <1>9 DEF IInv

LEMMA SweepStep ==
    ASSUME IInv, NEW thread \in Threads, Sweep(thread)
    PROVE  IInv'
<1> DEFINE h == handler[thread]
<1>1. /\ h.pc = "stopping" /\ tasks' \subseteq tasks
      /\ handler' = [handler EXCEPT ![thread] = [h EXCEPT !.pc = "swept"]]
      /\ UNCHANGED <<now, files, links, table>>
      /\ UNCHANGED <<vaultPath, position, waiting, timestamp>> /\ stopped' = stopped
    BY DEF Sweep, fileVars, macroVars
<1>2. thread = "macro" => position \in DOMAIN Steps /\ ~waiting
    BY <1>1, MacroBusy
<1>3. h \in [pc : {"stopping", "swept"}, cmd : Stops]
    BY <1>1 DEF IInv, HandlerShape, Shape, AnalysisPlaces, Idle
<1>4. PICK g : g = [h EXCEPT !.pc = "swept"]
    OBVIOUS
<1>5. g \in [pc : {"stopping", "swept"}, cmd : Stops] /\ g.pc = "swept"
    BY <1>3, <1>4
<1>6. Shape(g)
    BY <1>5 DEF Shape
<1>7. stopped' \in BOOLEAN
    BY <1>1 DEF IInv, MacroInv
<1>8. handler' = [handler EXCEPT ![thread] = g]
    BY <1>1, <1>4
<1> QED BY <1>1, <1>2, <1>5, <1>6, <1>7, <1>8, StopMove

LEMMA StopReturnsStep ==
    ASSUME IInv, NEW thread \in Threads, StopReturns(thread)
    PROVE  IInv'
<1>1. /\ handler[thread].pc = "swept" /\ tasks' \subseteq tasks
      /\ UNCHANGED <<now, files, links, table>>
      /\ UNCHANGED <<vaultPath, position, waiting, timestamp>>
      /\ stopped' \in {stopped, FALSE}
    BY DEF StopReturns, fileVars
<1>2. PICK result \in {"true", "false"} : Returns(thread, result)
    BY DEF StopReturns
<1>3. thread = "macro" => position \in DOMAIN Steps /\ ~waiting
    BY <1>1, MacroBusy
<1>4. PICK g : /\ handler' = [handler EXCEPT ![thread] = g]
               /\ g = IF thread = "macro" THEN [pc |-> result] ELSE Idle
    BY <1>2 DEF Returns
<1>5. /\ g = Idle \/ g \in [pc : {"true", "false"}]
      /\ g.pc \in {"idle", "true", "false"}
      /\ thread = "worker" => g.pc \notin {"true", "false"}
  <2>1. CASE thread = "macro"
    BY <1>4, <2>1
  <2>2. CASE thread # "macro"
    BY <1>4, <2>2 DEF Idle
  <2> QED BY <2>1, <2>2
<1>6. Shape(g)
    BY <1>5 DEF Shape
<1>7. stopped' \in BOOLEAN
    BY <1>1 DEF IInv, MacroInv
<1> QED BY <1>1, <1>3, <1>4, <1>5, <1>6, <1>7, StopMove

\* The first step of a command on an idle thread.
LEMMA BeginStep ==
    ASSUME IInv, NEW thread \in Threads, NEW cmd \in Given, Begin(thread, cmd),
           handler[thread].pc = "idle",
           UNCHANGED <<files, links, table, tasks>>,
           UNCHANGED <<vaultPath, position, waiting, timestamp>>,
           thread = "macro" =>
              position \in DOMAIN Steps /\ ~waiting /\ cmd = Steps[position]
    PROVE  IInv'
<1>1. CASE cmd \in DOMAIN Acquisitions /\ Stamp(thread, cmd) /\ UNCHANGED stopped
  <2>1. UNCHANGED macroVars
    BY <1>1 DEF macroVars
  <2> QED BY <1>1, <2>1, StampMove
<1>2. CASE cmd \in DOMAIN Processings /\ Select(thread, cmd)
           /\ UNCHANGED <<now, stopped>>
  <2>1. UNCHANGED macroVars
    BY <1>2 DEF macroVars
  <2> QED BY <1>2, <2>1, SelectMove
<1>3. CASE /\ cmd \in Stops
           /\ handler' = [handler EXCEPT ![thread] = [pc |-> "stopping", cmd |-> cmd]]
           /\ stopped' = (position # 0)
           /\ UNCHANGED now
  <2>1. PICK g : g = [pc |-> "stopping", cmd |-> cmd]
    OBVIOUS
  <2>2. g \in [pc : {"stopping", "swept"}, cmd : Stops] /\ g.pc = "stopping"
    BY <1>3, <2>1
  <2>3. Shape(g)
    BY <2>2 DEF Shape
  <2>4. /\ handler' = [handler EXCEPT ![thread] = g]
        /\ stopped' \in BOOLEAN /\ tasks' \subseteq tasks
    BY <1>3, <2>1
  <2> QED BY <1>3, <2>2, <2>3, <2>4, StopMove
<1> QED BY <1>1, <1>2, <1>3 DEF Begin

LEMMA OperatorCommandStep ==
    ASSUME IInv, OperatorCommand
    PROVE  IInv'
<1>1. /\ handler["worker"].pc = "idle"
      /\ UNCHANGED <<files, links, table, tasks>>
      /\ UNCHANGED <<vaultPath, position, waiting, timestamp>>
    BY DEF OperatorCommand, fileVars
<1>2. PICK cmd \in Operator : Begin("worker", cmd)
    BY DEF OperatorCommand
<1>3. "worker" \in Threads /\ cmd \in Given
    BY DEF Threads, Given
<1> QED BY <1>1, <1>2, <1>3, BeginStep

LEMMA DispatchStep ==
    ASSUME IInv, Dispatch
    PROVE  IInv'
<1>1. /\ handler["macro"].pc = "idle" /\ position \in DOMAIN Steps /\ ~waiting
      /\ UNCHANGED <<files, links, table, tasks>>
      /\ UNCHANGED <<vaultPath, position, waiting, timestamp>>
      /\ Begin("macro", Steps[position])
    BY DEF Dispatch, fileVars
<1>2. "macro" \in Threads /\ Steps[position] \in Given
    BY <1>1 DEF Threads, Given, Range
<1> QED BY <1>1, <1>2, BeginStep

-----------------------------------------------------------------------------
\* The macro sequence.

\* What does not depend on the sequence.
LEMMA SequenceKeeps ==
    ASSUME IInv, UNCHANGED <<now, files, links, table, tasks>>,
           timestamp' = timestamp \/ timestamp' = now,
           handler' = handler \/ handler' = [handler EXCEPT !["macro"] = Idle]
    PROVE  /\ HandlerShape' /\ ChosenInv' /\ TasksInv' /\ StampedInv' /\ FilesInv'
           /\ LinksInv' /\ OutputsInv' /\ AnalysisInv' /\ TableInv'
           /\ handler'["worker"] = handler["worker"]
           /\ handler'["macro"] \in {Idle, handler["macro"]}
<1>1. /\ now \in Nat /\ timestamp \in Nat /\ timestamp <= now
      /\ timestamp' \in Nat /\ timestamp <= timestamp'
    BY ClockTypes DEF IInv, ClockInv, Vaults, Times
<1>2. /\ handler'["worker"] = handler["worker"]
      /\ handler'["macro"] \in {Idle, handler["macro"]}
      /\ handler' = [u \in Threads |-> handler'[u]]
    BY DEF IInv, HandlerShape, Threads
<1>3. \A u \in Threads : handler'[u] \in {Idle, handler[u]}
    BY <1>2 DEF Threads
<1>4. HandlerShape'
    BY <1>2, <1>3 DEF IInv, HandlerShape, Shape, Threads
<1>5. ASSUME NEW u \in Threads
      PROVE  Chosen(handler[u])' /\ AnalysisAt(handler[u])'
  <2>1. PICK h : h = handler'[u]
    OBVIOUS
  <2>2. CASE h = Idle
    BY <2>1, <2>2 DEF Idle, Chosen, AnalysisAt, AnalysisPlaces
  <2>3. CASE h = handler[u]
    <3>1. Shape(h) /\ Chosen(h) /\ AnalysisAt(h)
      BY <2>3 DEF IInv, HandlerShape, ChosenInv, AnalysisInv
    <3>2. Chosen(h)' /\ AnalysisAt(h)'
      BY <1>1, <3>1, ChosenKept, AnalysisKept, NothingChanges DEF IInv
    <3> QED BY <2>1, <3>2
  <2> QED BY <1>3, <2>1, <2>2, <2>3
<1>6. ChosenInv' /\ AnalysisInv'
    BY <1>5 DEF ChosenInv, AnalysisInv
<1>7. TasksInv'
  <2>1. \A t \in tasks : t.vault \in Nat
    BY ClockTypes DEF IInv, TasksInv, Vaults, Times
  <2>2. \A t \in tasks : t.vault <= timestamp'
    BY <1>1, <2>1 DEF IInv, TasksInv
  <2> QED BY <2>2 DEF IInv, TasksInv
<1>8. FilesInv'
  <2>1. \A p \in DOMAIN files : p.vault \in Nat
    BY PathTypes DEF IInv, FilesInv
  <2>2. \A p \in DOMAIN files : p.vault <= timestamp'
    BY <1>1, <2>1 DEF IInv, FilesInv
  <2> QED BY <2>2 DEF IInv, FilesInv
<1>9. LinksInv' /\ OutputsInv' /\ TableInv'
    BY NothingChanges, TableKept DEF IInv, LinksInv, OutputsInv, Outputs
<1>10. StampedInv'
    BY <1>3, StampedKept DEF IInv, Idle
<1> QED BY <1>2, <1>4, <1>6, <1>7, <1>8, <1>9, <1>10

LEMMA StartSequenceStep ==
    ASSUME IInv, StartSequence
    PROVE  IInv'
<1>1. /\ position = 0 /\ now \in Times /\ now # timestamp
      /\ timestamp' = now /\ vaultPath' = now /\ position' = 1
      /\ waiting' = FALSE /\ stopped' = FALSE
      /\ UNCHANGED <<now, files, links, table, tasks, handler>>
    BY DEF StartSequence, fileVars
<1>2. /\ HandlerShape' /\ ChosenInv' /\ TasksInv' /\ StampedInv' /\ FilesInv'
      /\ LinksInv' /\ OutputsInv' /\ AnalysisInv' /\ TableInv'
    BY <1>1, SequenceKeeps
<1>3. Len(Steps) \in Nat /\ DOMAIN Steps = 1 .. Len(Steps)
    BY CommandsAssumption
<1>4. handler["macro"].pc = "idle"
    BY <1>1, <1>3 DEF IInv, MacroInv
<1>5. ClockInv'
    BY <1>1, ClockTypes DEF IInv, ClockInv, Vaults, Times
<1>6. MacroInv'
  <2>1. position' \in 0 .. Len(Steps) + 1
    BY <1>1, <1>3
  <2> QED BY <1>1, <1>4, <2>1 DEF MacroInv
<1>7. MacroChosen'
    BY <1>1, <1>4 DEF MacroChosen, InVault, AnalysisPlaces
<1>8. NewVaultInv'
  <2>1. now \in Nat /\ timestamp \in Nat /\ timestamp < now
    BY <1>1, ClockTypes DEF IInv, ClockInv, Vaults, Times
  <2>2. \A p \in DOMAIN files : p.vault # now
    <3>1. \A p \in DOMAIN files : p.vault \in Nat /\ p.vault <= timestamp
      BY PathTypes DEF IInv, FilesInv
    <3> QED BY <2>1, <3>1
  <2>3. \A t \in tasks : t.vault # now
    <3>1. \A t \in tasks : t.vault \in Nat /\ t.vault <= timestamp
      BY ClockTypes DEF IInv, TasksInv, Vaults, Times
    <3> QED BY <2>1, <3>1
  <2>4. handler["worker"].pc \in AnalysisPlaces \cup {"named"} =>
           handler["worker"].ts < now
    BY DEF IInv, ChosenInv, Chosen, Threads
  <2> QED BY <1>1, <1>4, <2>2, <2>3, <2>4 DEF NewVaultInv, Overtaken, AnalysisPlaces
<1> QED BY <1>2, <1>5, <1>6, <1>7, <1>8 DEF IInv

LEMMA StepReturnsStep ==
    ASSUME IInv, StepReturns
    PROVE  IInv'
<1>1. /\ handler["macro"].pc = "true" /\ waiting' = TRUE
      /\ handler' = [handler EXCEPT !["macro"] = Idle]
      /\ UNCHANGED <<now, files, links, table, tasks, vaultPath, position, timestamp>>
      /\ stopped' \in BOOLEAN
    BY DEF StepReturns, fileVars
<1>2. /\ HandlerShape' /\ ChosenInv' /\ TasksInv' /\ StampedInv' /\ FilesInv'
      /\ LinksInv' /\ OutputsInv' /\ AnalysisInv' /\ TableInv'
      /\ handler'["worker"] = handler["worker"]
    BY <1>1, SequenceKeeps
<1>3. handler'["macro"] = Idle
    BY <1>1, HandlerStep DEF IInv, Threads
<1>4. position \in DOMAIN Steps
    BY <1>1, MacroBusy
<1>5. ClockInv' /\ MacroInv' /\ MacroChosen' /\ NewVaultInv'
    BY <1>1, <1>2, <1>3, <1>4 DEF IInv, ClockInv, MacroInv, MacroChosen, InVault,
       NewVaultInv, Overtaken, AnalysisPlaces, Idle
<1> QED BY <1>2, <1>5 DEF IInv

LEMMA StepEndsStep ==
    ASSUME IInv, StepEnds
    PROVE  IInv'
<1>1. /\ waiting /\ waiting' = FALSE /\ position' = position + 1
      /\ UNCHANGED <<now, files, links, table, tasks, handler, vaultPath, stopped,
                     timestamp>>
    BY DEF StepEnds, fileVars
<1>2. /\ HandlerShape' /\ ChosenInv' /\ TasksInv' /\ StampedInv' /\ FilesInv'
      /\ LinksInv' /\ OutputsInv' /\ AnalysisInv' /\ TableInv'
    BY <1>1, SequenceKeeps
<1>3. Len(Steps) \in Nat /\ DOMAIN Steps = 1 .. Len(Steps)
    BY CommandsAssumption
<1>4. position \in DOMAIN Steps /\ handler["macro"] = Idle
    BY <1>1 DEF IInv, MacroInv
<1>5. ClockInv'
    BY <1>1, <1>3, <1>4 DEF IInv, ClockInv
<1>6. MacroInv'
  <2>1. position' \in 0 .. Len(Steps) + 1
    BY <1>1, <1>3, <1>4
  <2>2. waiting' = FALSE /\ stopped' \in BOOLEAN /\ handler'["macro"].pc = "idle"
    BY <1>1, <1>4 DEF IInv, MacroInv, Idle
  <2> QED BY <2>1, <2>2 DEF MacroInv
<1>7. MacroChosen' /\ NewVaultInv'
    BY <1>1, <1>4 DEF IInv, MacroChosen, InVault, NewVaultInv, Overtaken,
       AnalysisPlaces, Idle
<1> QED BY <1>2, <1>5, <1>6, <1>7 DEF IInv

LEMMA EndSequenceStep ==
    ASSUME IInv, EndSequence
    PROVE  IInv'
<1>1. /\ ~waiting /\ vaultPath' = 0 /\ position' = 0 /\ stopped' = FALSE
      /\ handler' = [handler EXCEPT !["macro"] = Idle]
      /\ UNCHANGED <<now, files, links, table, tasks, waiting, timestamp>>
    BY DEF EndSequence, fileVars
<1>2. /\ HandlerShape' /\ ChosenInv' /\ TasksInv' /\ StampedInv' /\ FilesInv'
      /\ LinksInv' /\ OutputsInv' /\ AnalysisInv' /\ TableInv'
      /\ handler'["worker"] = handler["worker"]
    BY <1>1, SequenceKeeps
<1>3. handler'["macro"] = Idle
    BY <1>1, HandlerStep DEF IInv, Threads
<1>4. Len(Steps) \in Nat
    BY CommandsAssumption
<1>5. ClockInv'
    BY <1>1 DEF IInv, ClockInv
<1>6. MacroInv'
  <2>1. position' \in 0 .. Len(Steps) + 1
    BY <1>1, <1>4
  <2>2. /\ waiting' \in BOOLEAN /\ ~waiting' /\ stopped' = FALSE
        /\ handler'["macro"].pc = "idle"
    BY <1>1, <1>3 DEF IInv, MacroInv, Idle
  <2> QED BY <2>1, <2>2 DEF MacroInv
<1>7. MacroChosen' /\ NewVaultInv'
    BY <1>1, <1>2, <1>3 DEF IInv, MacroChosen, InVault, NewVaultInv, Overtaken,
       AnalysisPlaces, Idle
<1> QED BY <1>2, <1>5, <1>6, <1>7 DEF IInv

-----------------------------------------------------------------------------
LEMMA InitIInv == Init => IInv
<1> SUFFICES ASSUME Init
             PROVE  IInv
    OBVIOUS
<1> USE DEF Init
<1>1. Len(Clock) \in Nat /\ Len(Steps) \in Nat
    BY ClockTypes, CommandsAssumption
<1>2. DOMAIN files = {} /\ DOMAIN links = {}
    OBVIOUS
<1>3. ClockInv /\ MacroInv
  <2>1. handler["macro"] = Idle /\ Idle.pc = "idle"
    BY DEF Threads, Idle
  <2>2. ClockInv
    BY <1>1 DEF ClockInv, Vaults
  <2>3. position \in 0 .. Len(Steps) + 1
    BY <1>1
  <2>4. MacroInv
    BY <2>1, <2>3 DEF MacroInv
  <2> QED BY <2>2, <2>4
<1>4. HandlerShape /\ ChosenInv /\ MacroChosen /\ AnalysisInv /\ NewVaultInv
    BY DEF HandlerShape, Shape, ChosenInv, Chosen, MacroChosen, InVault, AnalysisInv,
       AnalysisAt, NewVaultInv, Overtaken, AnalysisPlaces, Idle, Threads
<1>5. TasksInv /\ StampedInv /\ FilesInv /\ LinksInv /\ OutputsInv
    BY <1>2 DEF TasksInv, StampedInv, FilesInv, LinksInv, OutputsInv, Idle, Threads
<1>6. TableInv
    BY DEF TableInv
<1> QED BY <1>3, <1>4, <1>5, <1>6 DEF IInv

LEMMA NextIInv == IInv /\ [Next]_vars => IInv'
<1> SUFFICES ASSUME IInv, [Next]_vars
             PROVE  IInv'
    OBVIOUS
<1>1. ASSUME NEW t \in tasks, TaskWrites(t) \/ TaskEnds(t) \/ Reap(t)
      PROVE  IInv'
    BY <1>1, TaskWritesStep, TaskEndsStep, ReapStep
<1>2. ASSUME NEW thread \in Threads, Fork(thread) \/ Analysis(thread)
      PROVE  IInv'
    BY <1>2, ForkStep, LocateStep, NameStep, AnalyseStep, AnalysisFailsStep,
       AnalysisWritesStep, PublishStep, LinkTableStep DEF Analysis
<1>3. ASSUME NEW thread \in Threads, Sweep(thread) \/ StopReturns(thread)
      PROVE  IInv'
    BY <1>3, SweepStep, StopReturnsStep
<1>4. CASE OperatorCommand
    BY <1>4, OperatorCommandStep
<1>5. CASE Sequence
    BY <1>5, StartSequenceStep, DispatchStep, StepReturnsStep,
       StepEndsStep, EndSequenceStep DEF Sequence
<1>6. CASE UNCHANGED vars
  <2>1. /\ HandlerShape' /\ ChosenInv' /\ TasksInv' /\ StampedInv' /\ FilesInv'
        /\ LinksInv' /\ OutputsInv' /\ AnalysisInv' /\ TableInv'
    BY <1>6, SequenceKeeps DEF vars, fileVars, macroVars
  <2>2. UNCHANGED <<now, files, tasks, handler, position, waiting, stopped,
                    vaultPath, timestamp>>
    BY <1>6 DEF vars, fileVars, macroVars
  <2>3. ClockInv' /\ MacroInv'
    BY <2>2 DEF IInv, ClockInv, MacroInv
  <2>4. MacroChosen' /\ NewVaultInv'
    BY <2>2 DEF IInv, MacroChosen, InVault, NewVaultInv, Overtaken
  <2> QED BY <2>1, <2>3, <2>4 DEF IInv
<1> QED BY <1>1, <1>2, <1>4, <1>5, <1>6, <1>3 DEF Next

\* The invariant holds throughout every behaviour.
THEOREM Invariance == Spec => []IInv
BY InitIInv, NextIInv, PTL DEF Spec

\* The files are named and described as the commands do it, handlers are in one
\* of their places and there is a vault exactly while a sequence runs
\* (CommandDispatch.cpp:333-336, 1277-1281).
THEOREM TypeCorrect == Spec => []TypeOK
<1>1. IInv => TypeOK
  <2> SUFFICES ASSUME IInv
               PROVE  TypeOK
    OBVIOUS
  <2>1. /\ now \in 1 .. Len(Clock) + 1 /\ vaultPath \in {0} \cup Times
        /\ vaultPath # 0 <=> position # 0
    BY DEF IInv, ClockInv, Vaults
  <2>2. /\ DOMAIN files \cup DOMAIN links \subseteq Paths
        /\ \A p \in DOMAIN files :
             files[p] \in [from : Times, begun : {0} \cup Times, made : BOOLEAN]
        /\ \A p \in DOMAIN links : p.vault = 0 /\ links[p].vault # 0
    BY DEF IInv, FilesInv, LinksInv, Vaults
  <2>3. \A t \in Tables : table[t] \in Paths \cup {NoTable}
    BY DEF IInv, TableInv
  <2>4. \A t \in Threads :
          handler[t].pc \in {"idle", "stamped", "selected", "located", "named",
                             "analysing", "publish", "table", "stopping", "swept",
                             "true", "false"}
    BY ShapeFields DEF IInv, HandlerShape, Places
  <2>5. position \in 0 .. Len(Steps) + 1
    BY DEF IInv, MacroInv
  <2> QED BY <2>1, <2>2, <2>3, <2>4, <2>5 DEF TypeOK
<1> QED BY <1>1, Invariance, PTL

\* Whatever the operator and a sequence do at the same time, a file was made from
\* the acquisition of the time that its name tells, although a handler chooses
\* the timestamp once and the files change while it works
\* (CommandDispatch.cpp:631-644).
THEOREM LineageIsKept == Spec => []LineageKept
<1>1. IInv => LineageKept
    BY DEF IInv, FilesInv, LineageKept
<1> QED BY <1>1, Invariance, PTL

\* What the links and the calibration tables lead to is there and was written by
\* a task or an analysis that has reported success, also when the vault has
\* changed or a link has replaced the file since (CommandDispatch.cpp:355-367,
\* 408, 662; Config.cpp:379), if no command asks twice for the directory of its
\* output: CONVERT_STG1_TO_STG2 and the QA commands do, and may link an older
\* file of another vault than they wrote to (CommandDispatch.cpp:776, 779).
THEOREM OnlySuccessPublished ==
    ASSUME NamesOutputOnce
    PROVE  Spec => []OnlySuccessIsPublished
<1>1. IInv => OnlySuccessIsPublished
    BY DEF IInv, LinksInv, TableInv, Complete, Whole, OnlySuccessIsPublished
<1> QED BY <1>1, Invariance, PTL

\* The steps that process something read what acquisitions write: so do the
\* sequences THERMAL_CALIB and STAGE0 to STAGE2 (CommandDispatch.cpp:882-891,
\* 944-950, 971-976, 997-1002).  AUTO_RUN and STAGE3 go on with what analyses
\* have written, and an analysis of the operator that was under way may have
\* written in the vault of the sequence.
StepsReadAcquisitions ==
    \A i \in DOMAIN Steps :
        Steps[i] \in DOMAIN Processings => Processings[Steps[i]].input \in Raw

\* Such a sequence processes only acquisitions that were started in it, also
\* when its own acquisition has failed and the operator's commands work in its vault
\* (CommandDispatch.cpp:333-336, 1277-1281).
THEOREM OwnDataOnly ==
    ASSUME StepsReadAcquisitions
    PROVE  Spec => []SequenceUsesOwnData
<1>1. IInv => SequenceUsesOwnData
  <2> DEFINE h == handler["macro"]
  <2> SUFFICES ASSUME IInv, h.pc \in {"analysing", "publish", "table"}
               PROVE  files[Resolve(h.in)].begun = timestamp
    BY DEF SequenceUsesOwnData
  <2>1. /\ position \in DOMAIN Steps /\ h.cmd = Steps[position]
        /\ h.in.vault = vaultPath
    BY DEF IInv, MacroInv, MacroChosen, InVault, AnalysisPlaces
  <2>2. position # 0
    BY <2>1, CommandsAssumption
  <2>3. vaultPath # 0 /\ vaultPath = timestamp
    BY <2>2 DEF IInv, ClockInv
  <2>4. /\ h.cmd \in DOMAIN Processings /\ h.in \in Paths
        /\ h.in.suffix = Processings[h.cmd].input /\ exists(h.in)
    BY ShapeFields DEF IInv, HandlerShape, ChosenInv, Chosen, AnalysisInv, AnalysisAt,
       AnalysisPlaces, Threads
  <2>5. h.in.suffix \in Raw
    BY <2>1, <2>4 DEF StepsReadAcquisitions
  <2>6. Resolve(h.in) = h.in /\ h.in \in DOMAIN files
    BY <2>1, <2>3, <2>4, ResolveFacts DEF exists
  <2> QED BY <2>1, <2>3, <2>5, <2>6 DEF IInv, FilesInv
<1> QED BY <1>1, Invariance, PTL

=============================================================================
