-------------------------------- MODULE DataVault --------------------------------
(***************************************************************************)
(* Where the data of the detector lies and how a command finds it: files   *)
(* named after the time of their acquisition in the standard directories   *)
(* or in the vault of a macro sequence, the choice of the latest one, the  *)
(* links from the standard directories into the vaults and the calibration *)
(* tables.  Commands come from the operator (the worker thread) and from a *)
(* macro sequence; acquisitions are background tasks whose end the monitor *)
(* thread handles, unless a STOP_DAQ or a RESET_DAQ sweeps them before.    *)
(*                                                                         *)
(* The files of an acquisition that are treated alike are one file; the    *)
(* .root and .svg files of an analysis are left out.  No two acquisitions  *)
(* and no two vaults have the same moment of the clock.  A task that was   *)
(* swept writes nothing more.                                              *)
(***************************************************************************)
EXTENDS Integers, Sequences, FiniteSets, Functions

CONSTANTS Clock,     \* the moments: a sequence of seconds and milliseconds
          Operator,  \* commands the operator gives
          Steps      \* commands of the macro sequence

ASSUME ClockAssumption ==
    /\ Clock \in Seq([sec : Nat, ms : 0 .. 999])
    /\ \A i, j \in 1 .. Len(Clock) : i < j =>
         \/ Clock[i].sec < Clock[j].sec
         \/ Clock[i].sec = Clock[j].sec /\ Clock[i].ms < Clock[j].ms

VARIABLES
    now,       \* the next moment
    vaultPath, \* vaultPath_: moment of the vault, or 0
    files,     \* the files: from which acquisition, in which sequence or
               \* after which one it was started (begun), and whether one
               \* that wrote the file has ever reported success (made)
    links,     \* the links in the standard directories
    table,     \* what the calibration tables link to
    tasks,     \* background acquisitions
    handler,   \* the command each thread executes
    position,  \* step of the sequence, or 0
    waiting,   \* the macro thread waits for the tasks of its step
    stopped,   \* macroLoopRunning_ was cleared
    timestamp  \* when the last sequence began, or 0

fileVars == <<files, links, table>>
macroVars == <<vaultPath, position, waiting, stopped, timestamp>>
vars == <<now, fileVars, tasks, handler, macroVars>>

Times == 1 .. Len(Clock)
Threads == {"worker", "macro"}
Idle == [pc |-> "idle"]

\* What the acquisition commands write, and where.
Acquisitions ==
    [ACQUIRE_THRESHOLD_CALIBRATION |->
       [dir |-> "calibration", prefix |-> "disc", suffixes |-> {"noise", "dark"}],
     ACQUIRE_THRESHOLD_CALIBRATION_BN |->
       [dir |-> "calibration", prefix |-> "disc", suffixes |-> {"noise"}],
     ACQUIRE_THRESHOLD_CALIBRATION_D |->
       [dir |-> "calibration", prefix |-> "disc", suffixes |-> {"dark"}],
     ACQUIRE_QDC_CALIBRATION |->
       [dir |-> "calibration", prefix |-> "qdc", suffixes |-> {"raw"}],
     ACQUIRE_TDC_CALIBRATION |->
       [dir |-> "calibration", prefix |-> "tdc", suffixes |-> {"raw"}],
     ACQUIRE_SIPM_DATA |->
       [dir |-> "stg0", prefix |-> "run", suffixes |-> {"raw"}]]

Stage(prefix, any, from, input, to, output, tabled, again) ==
    [prefix |-> prefix, any |-> any, from |-> from, input |-> input,
     to |-> to, output |-> output, tabled |-> tabled, again |-> again]

\* What the processing commands read and write.  any: the latest timestamp is
\* that of any file with the prefix, and not of the input alone.  again: the
\* directory of the output is asked for once for the name that is linked and
\* once more for the analyser.
Processings ==
    [PROCESS_THRESHOLD_CALIBRATION |->
       Stage("disc", FALSE, "calibration", "noise", "disc", "tsv", TRUE, FALSE),
     PROCESS_TDC_CALIBRATION |->
       Stage("tdc", TRUE, "calibration", "raw", "tdc", "tsv", TRUE, FALSE),
     PROCESS_QDC_CALIBRATION |->
       Stage("qdc", TRUE, "calibration", "raw", "qdc", "tsv", TRUE, FALSE),
     CONVERT_RAW_TO_RAW |->
       Stage("run", TRUE, "stg0", "raw", "stg1", "stg1", FALSE, FALSE),
     CONVERT_RAW_TO_SINGLES |->
       Stage("run", TRUE, "stg0", "raw", "stg1", "singles", FALSE, FALSE),
     CONVERT_STG1_TO_STG2 |->
       Stage("run", TRUE, "stg1", "stg1", "stg2", "stg2", FALSE, TRUE),
     PROCESS_QA_COIN |->
       Stage("run", TRUE, "stg2", "stg2", "stg2", "coin", FALSE, TRUE),
     PROCESS_QA_IRIDIUM |->
       Stage("run", TRUE, "stg2", "stg2", "hist", "hist", FALSE, TRUE)]

\* The commands that sweep the background tasks.
Stops == {"STOP_DAQ", "RESET_DAQ"}

\* The calibration tables and the baseline of the thresholds.
Tables == {Processings[c].prefix :
             c \in {d \in DOMAIN Processings : Processings[d].tabled}}
          \cup {"baseline"}
NoTable == [vault |-> -1]

ASSUME CommandsAssumption ==
    LET Commands == DOMAIN Acquisitions \cup DOMAIN Processings \cup Stops
    IN Operator \subseteq Commands /\ Steps \in Seq(Commands)

Init ==
    /\ now = 1
    /\ vaultPath = 0
    /\ files = <<>>
    /\ links = <<>>
    /\ table = [t \in Tables |-> NoTable]
    /\ tasks = {}
    /\ handler = [t \in Threads |-> Idle]
    /\ position = 0
    /\ waiting = FALSE
    /\ stopped = FALSE
    /\ timestamp = 0

-----------------------------------------------------------------------------
\* The configuration: directories, names and timestamps.

\* A file in directory dir, which is the vault if there is one.
Path(vault, dir, prefix, ts, suffix) ==
    [vault |-> vault, dir |-> IF vault = 0 THEN dir ELSE "vault",
     prefix |-> prefix, ts |-> ts, suffix |-> suffix]

Resolve(p) == IF p \in DOMAIN links THEN links[p] ELSE p

exists(p) == Resolve(p) \in DOMAIN files

\* The decimal digits of the milliseconds, without leading zeros, and the Z.
MillisText(n) ==
    (IF n < 10 THEN <<n>>
     ELSE IF n < 100 THEN <<n \div 10, n % 10>>
     ELSE <<n \div 100, (n \div 10) % 10, n % 10>>) \o <<10>>

\* The order of the timestamps as strings.
Before(s, t) ==
    \/ Clock[s].sec < Clock[t].sec
    \/ /\ Clock[s].sec = Clock[t].sec
       /\ LET a == MillisText(Clock[s].ms)
              b == MillisText(Clock[t].ms)
          IN \E i \in DOMAIN a \cap DOMAIN b :
               a[i] < b[i] /\ \A j \in 1 .. i - 1 : a[j] = b[j]

\* The timestamps of the files and links that getLatestTimestamp looks at.
Candidates(cmd, vault) ==
    LET c == Processings[cmd] IN
    {p.ts : p \in {q \in DOMAIN files \cup DOMAIN links :
                     /\ exists(q)
                     /\ q.vault = vault
                     /\ vault = 0 => q.dir = c.from
                     /\ q.prefix = c.prefix
                     /\ c.any \/ q.suffix = c.input}}

getLatestTimestamp(cmd, vault) ==
    CHOOSE t \in Candidates(cmd, vault) :
        \A s \in Candidates(cmd, vault) : ~Before(t, s)

\* linkVaultFileToOriginalDir for the paths of S: files in a vault that exist
\* get a link of their name in dir, in the place of what is there.
LinkToOriginalDir(S, dir) ==
    LET src == {p \in S : p.vault # 0 /\ p \in DOMAIN files}
        Dst(p) == [p EXCEPT !.vault = 0, !.dir = dir]
        dst == {Dst(p) : p \in src}
    IN /\ links' = [q \in DOMAIN links \cup dst |->
                      IF q \in dst THEN CHOOSE p \in src : Dst(p) = q
                      ELSE links[q]]
       /\ files' = Restrict(files, DOMAIN files \ dst)

\* Writing a path writes the file a link leads to.
Write(S, content) ==
    files' = [p \in DOMAIN files \cup S |->
                IF p \in S THEN content ELSE files[p]]

-----------------------------------------------------------------------------
\* Acquisitions.

\* The handler of an acquisition command takes the time first,
Stamp(thread, cmd) ==
    /\ now \in Times
    /\ now' = now + 1
    /\ handler' = [handler EXCEPT ![thread] =
                     [pc |-> "stamped", cmd |-> cmd, ts |-> now]]

Returns(thread, result) ==
    handler' = [handler EXCEPT ![thread] =
                  IF thread = "macro" THEN [pc |-> result] ELSE Idle]

\* then makes the name from it and the directory of now, and forks the task.
Fork(thread) ==
    LET h == handler[thread] IN
    /\ h.pc = "stamped"
    /\ tasks' = tasks \cup {[cmd |-> h.cmd, ts |-> h.ts, vault |-> vaultPath,
                             begun |-> timestamp, state |-> "running"]}
    /\ Returns(thread, "true")
    /\ UNCHANGED <<now, fileVars, macroVars>>

Outputs(task) ==
    LET c == Acquisitions[task.cmd]
    IN {Path(task.vault, c.dir, c.prefix, task.ts, s) : s \in c.suffixes}

Content(task, made) ==
    [from |-> task.ts, begun |-> task.begun, made |-> made]

TaskWrites(task) ==
    /\ task.state = "running"
    /\ \E p \in Outputs(task) \ DOMAIN files : Write({p}, Content(task, FALSE))
    /\ UNCHANGED <<now, links, table, tasks, handler, macroVars>>

\* A script reports success also after an exception it has caught: not all the
\* files need to be there.
TaskEnds(task) ==
    /\ task.state = "running"
    /\ \/ /\ tasks' = (tasks \ {task}) \cup {[task EXCEPT !.state = "good"]}
          /\ \E S \in SUBSET Outputs(task) :
               Write(S \cup (Outputs(task) \cap DOMAIN files), Content(task, TRUE))
       \/ /\ tasks' = (tasks \ {task}) \cup {[task EXCEPT !.state = "bad"]}
          /\ UNCHANGED files
    /\ UNCHANGED <<now, links, table, handler, macroVars>>

\* Mutated forms of Reap: the result is not looked at; the paths are made when
\* the callback runs.
ReapAlways(task) ==
    /\ task.state # "running"
    /\ tasks' = tasks \ {task}
    /\ LinkToOriginalDir(Outputs(task), Acquisitions[task.cmd].dir)
    /\ UNCHANGED <<now, table, handler, macroVars>>

ReapLate(task) ==
    /\ task.state # "running"
    /\ tasks' = tasks \ {task}
    /\ IF task.state = "good"
         THEN LinkToOriginalDir(Outputs([task EXCEPT !.vault = vaultPath]),
                                Acquisitions[task.cmd].dir)
         ELSE UNCHANGED <<files, links>>
    /\ UNCHANGED <<now, table, handler, macroVars>>

\* The files of the baseline that a task gives to the configuration.
Baselines(task) ==
    IF task.cmd = "ACQUIRE_THRESHOLD_CALIBRATION_BN"
    THEN Outputs(task) \cap DOMAIN files
    ELSE {}

\* The monitor thread runs the task's postCompletionCallback, which has the
\* paths of the time the task was started, and removes the task, all under
\* pidMutex_.
Reap(task) ==
    /\ task.state # "running"
    /\ tasks' = tasks \ {task}
    /\ IF task.state = "good"
         THEN /\ LinkToOriginalDir(Outputs(task), Acquisitions[task.cmd].dir)
              /\ table' = [t \in Tables |->
                             IF t = "baseline" /\ Baselines(task) # {}
                             THEN CHOOSE p \in Baselines(task) : TRUE
                             ELSE table[t]]
         ELSE UNCHANGED fileVars
    /\ UNCHANGED <<now, handler, macroVars>>

-----------------------------------------------------------------------------
\* Processing commands, on either thread.  vaultPath_ is read again whenever a
\* directory is asked for.

Select(thread, cmd) ==
    IF Candidates(cmd, vaultPath) = {} THEN Returns(thread, "false")
    ELSE handler' = [handler EXCEPT ![thread] =
           [pc |-> "selected", cmd |-> cmd,
            ts |-> getLatestTimestamp(cmd, vaultPath)]]

\* The input is named; the commands of the later stages look whether it exists.
Locate(thread) ==
    LET h == handler[thread]
        c == Processings[h.cmd]
        in == Path(vaultPath, c.from, c.prefix, h.ts, c.input)
    IN
    /\ h.pc = "selected"
    /\ IF c.from \in {"stg1", "stg2"} /\ ~exists(in) THEN Returns(thread, "false")
       ELSE handler' = [handler EXCEPT ![thread] =
              [pc |-> "located", cmd |-> h.cmd, ts |-> h.ts, in |-> in]]
    /\ UNCHANGED <<now, fileVars, tasks, macroVars>>

\* Mutated form of Output: named after the latest timestamp of now.
OutputLatest(h) ==
    LET c == Processings[h.cmd]
        S == Candidates(h.cmd, vaultPath)
    IN Path(vaultPath, c.to, c.prefix,
            IF S = {} THEN h.ts ELSE getLatestTimestamp(h.cmd, vaultPath),
            c.output)

Output(h) ==
    LET c == Processings[h.cmd]
    IN Path(vaultPath, c.to, c.prefix, h.ts, c.output)

\* The output that is to be linked is named.
Name(thread) ==
    LET h == handler[thread] IN
    /\ h.pc = "located"
    /\ handler' = [handler EXCEPT ![thread] =
         [pc |-> "named", cmd |-> h.cmd, ts |-> h.ts, in |-> h.in,
          out |-> Output(h)]]
    /\ UNCHANGED <<now, fileVars, tasks, macroVars>>

\* The analysis begins to write, if its input exists and nothing else prevents
\* it.  file: what it has opened.
Analyse(thread) ==
    LET h == handler[thread]
        file == Resolve(IF Processings[h.cmd].again THEN Output(h) ELSE h.out)
    IN
    /\ h.pc = "named"
    /\ \/ /\ exists(h.in)
          /\ Write({file}, [files[Resolve(h.in)] EXCEPT
                             !.made = file \in DOMAIN files /\ files[file].made])
          /\ handler' = [handler EXCEPT ![thread] =
               [pc |-> "analysing", cmd |-> h.cmd, ts |-> h.ts, in |-> h.in,
                out |-> h.out, file |-> file]]
       \/ /\ Returns(thread, "false")
          /\ UNCHANGED files
    /\ UNCHANGED <<now, links, table, tasks, macroVars>>

AnalysisFails(thread) ==
    /\ handler[thread].pc = "analysing"
    /\ Returns(thread, "false")
    /\ UNCHANGED <<now, fileVars, tasks, macroVars>>

\* Nobody finds what is written to a file that a link has replaced.
AnalysisWrites(thread) ==
    LET h == handler[thread] IN
    /\ h.pc = "analysing"
    /\ Write({h.file} \cap DOMAIN files,
             [files[Resolve(h.in)] EXCEPT !.made = TRUE])
    /\ handler' = [handler EXCEPT ![thread].pc = "publish"]
    /\ UNCHANGED <<now, links, table, tasks, macroVars>>

\* The command may still return false after the link, when it cannot show the
\* histograms of PROCESS_QA_IRIDIUM.
Publish(thread) ==
    LET h == handler[thread]
        c == Processings[h.cmd]
    IN
    /\ h.pc = "publish"
    /\ LinkToOriginalDir({h.out}, c.to)
    /\ \/ c.tabled /\ handler' = [handler EXCEPT ![thread].pc = "table"]
       \/ ~c.tabled /\ Returns(thread, "true")
       \/ h.cmd = "PROCESS_QA_IRIDIUM" /\ Returns(thread, "false")
    /\ UNCHANGED <<now, table, tasks, macroVars>>

\* getFileByTimestamp throws if the output is not in the directory of now.
\* PROCESS_THRESHOLD_CALIBRATION takes the path it has, and copyOrLink only warns.
LinkTable(thread) ==
    LET h == handler[thread]
        c == Processings[h.cmd]
        src == IF c.prefix = "disc" THEN h.out
               ELSE Path(vaultPath, c.to, c.prefix, h.ts, c.output)
    IN
    /\ h.pc = "table"
    /\ table' = IF exists(src) THEN [table EXCEPT ![c.prefix] = src] ELSE table
    /\ Returns(thread, IF exists(src) \/ c.prefix = "disc" THEN "true" ELSE "false")
    /\ UNCHANGED <<now, files, links, tasks, macroVars>>

-----------------------------------------------------------------------------
\* STOP_DAQ and RESET_DAQ, on either thread, after the flag of the sequence was
\* cleared: all the tasks are removed from the registry, without their
\* callbacks.
Sweep(thread) ==
    /\ handler[thread].pc = "stopping"
    /\ tasks' = {}
    /\ handler' = [handler EXCEPT ![thread].pc = "swept"]
    /\ UNCHANGED <<now, fileVars, macroVars>>

\* RESET_DAQ fails if START_DAQ does, and otherwise raises the flag again.
StopReturns(thread) ==
    LET h == handler[thread] IN
    /\ h.pc = "swept"
    /\ \/ h.cmd = "STOP_DAQ" /\ Returns(thread, "true") /\ UNCHANGED stopped
       \/ h.cmd = "RESET_DAQ" /\ Returns(thread, "true") /\ stopped' = FALSE
       \/ h.cmd = "RESET_DAQ" /\ Returns(thread, "false") /\ UNCHANGED stopped
    /\ UNCHANGED <<now, fileVars, tasks, vaultPath, position, waiting, timestamp>>

-----------------------------------------------------------------------------
\* The first step of a command.
Begin(thread, cmd) ==
    \/ /\ cmd \in DOMAIN Acquisitions
       /\ Stamp(thread, cmd)
       /\ UNCHANGED stopped
    \/ /\ cmd \in DOMAIN Processings
       /\ Select(thread, cmd)
       /\ UNCHANGED <<now, stopped>>
    \/ /\ cmd \in Stops
       /\ handler' = [handler EXCEPT ![thread] = [pc |-> "stopping", cmd |-> cmd]]
       /\ stopped' = (position # 0)
       /\ UNCHANGED now

\* The operator's commands, one at a time on the worker thread.
OperatorCommand ==
    /\ handler["worker"].pc = "idle"
    /\ \E cmd \in Operator : Begin("worker", cmd)
    /\ UNCHANGED <<fileVars, tasks, vaultPath, position, waiting, timestamp>>

-----------------------------------------------------------------------------
\* The macro sequence, as far as the vault and the files are concerned.  A
\* sequence whose vault cannot be created returns before it has changed anything.

\* Mutated form of StartSequence: every sequence has the same vault.
StartSequenceAgain ==
    /\ position = 0
    /\ now \in Times /\ now # timestamp
    /\ timestamp' = now
    /\ vaultPath' = 1
    /\ position' = 1
    /\ waiting' = FALSE
    /\ stopped' = FALSE
    /\ UNCHANGED <<now, fileVars, tasks, handler>>

StartSequence ==
    /\ position = 0
    /\ now \in Times /\ now # timestamp
    /\ timestamp' = now
    /\ vaultPath' = now
    /\ position' = 1
    /\ waiting' = FALSE
    /\ stopped' = FALSE
    /\ UNCHANGED <<now, fileVars, tasks, handler>>

Dispatch ==
    /\ position \in DOMAIN Steps /\ ~waiting /\ ~stopped
    /\ handler["macro"].pc = "idle"
    /\ Begin("macro", Steps[position])
    /\ UNCHANGED <<fileVars, tasks, vaultPath, position, waiting, timestamp>>

\* After a RESET_DAQ the flag is raised once more.
StepReturns ==
    /\ handler["macro"].pc = "true"
    /\ handler' = [handler EXCEPT !["macro"] = Idle]
    /\ waiting' = TRUE
    /\ stopped' = (stopped /\ Steps[position] # "RESET_DAQ")
    /\ UNCHANGED <<now, fileVars, tasks, vaultPath, position, timestamp>>

\* A task that failed lets the sequence go on like one that succeeded.
StepEnds ==
    /\ waiting
    /\ stopped \/ \A t \in tasks : t.cmd # Steps[position]
    /\ waiting' = FALSE
    /\ position' = position + 1
    /\ UNCHANGED <<now, fileVars, tasks, handler, vaultPath, stopped,
                   timestamp>>

\* Mutated form of EndSequence: a step that returned false leaves the vault.
EndSequenceKeeps ==
    /\ position # 0 /\ ~waiting
    /\ \/ handler["macro"].pc = "false" /\ UNCHANGED vaultPath
       \/ /\ handler["macro"].pc = "idle"
          /\ position > Len(Steps) \/ stopped
          /\ vaultPath' = 0
    /\ handler' = [handler EXCEPT !["macro"] = Idle]
    /\ position' = 0
    /\ stopped' = FALSE
    /\ UNCHANGED <<now, fileVars, tasks, waiting, timestamp>>

\* Every way out of the sequence clears the vault: the end, a step that
\* returned false, the stop flag before a step.
EndSequence ==
    /\ position # 0 /\ ~waiting
    /\ \/ handler["macro"].pc = "false"
       \/ handler["macro"].pc = "idle" /\ (position > Len(Steps) \/ stopped)
    /\ handler' = [handler EXCEPT !["macro"] = Idle]
    /\ vaultPath' = 0
    /\ position' = 0
    /\ stopped' = FALSE
    /\ UNCHANGED <<now, fileVars, tasks, waiting, timestamp>>

-----------------------------------------------------------------------------
Analysis(thread) ==
    Locate(thread) \/ Name(thread) \/ Analyse(thread) \/ AnalysisFails(thread)
    \/ AnalysisWrites(thread) \/ Publish(thread) \/ LinkTable(thread)

Sequence ==
    StartSequence \/ Dispatch \/ StepReturns \/ StepEnds \/ EndSequence

Next ==
    \/ \E t \in tasks : TaskWrites(t) \/ TaskEnds(t) \/ Reap(t)
    \/ \E thread \in Threads : Fork(thread) \/ Analysis(thread)
    \/ \E thread \in Threads : Sweep(thread) \/ StopReturns(thread)
    \/ OperatorCommand
    \/ Sequence

\* Only the monitor thread is needed: it looks at the tasks every second.
Spec == Init /\ [][Next]_vars /\ WF_vars(\E t \in tasks : Reap(t))

-----------------------------------------------------------------------------
Directories == {"vault", "calibration", "disc", "tdc", "qdc",
                "stg0", "stg1", "stg2", "hist"}
Prefixes == {"disc", "tdc", "qdc", "run"}
Suffixes == {"noise", "dark", "raw", "tsv",
             "stg1", "singles", "stg2", "coin", "hist"}

Paths == [vault : {0} \cup Times, dir : Directories, prefix : Prefixes, ts : Times,
          suffix : Suffixes]

\* The files are named and described as the commands do it, the handlers are in
\* one of their states and a vault is set exactly while a sequence runs.
TypeOK ==
    /\ now \in 1 .. Len(Clock) + 1
    /\ vaultPath \in {0} \cup Times
    /\ vaultPath # 0 <=> position # 0
    /\ DOMAIN files \cup DOMAIN links \subseteq Paths
    /\ \A p \in DOMAIN files :
         files[p] \in [from : Times, begun : {0} \cup Times,
                       made : BOOLEAN]
    /\ \A p \in DOMAIN links : p.vault = 0 /\ links[p].vault # 0
    /\ \A t \in Tables : table[t] \in Paths \cup {NoTable}
    /\ \A t \in Threads :
         handler[t].pc \in {"idle", "stamped", "selected", "located", "named",
                            "analysing", "publish", "table", "stopping", "swept",
                            "true", "false"}
    /\ position \in 0 .. Len(Steps) + 1

\* A file with a timestamp in its name was made from the acquisition of that
\* time, although a handler chooses the timestamp once and the acquisitions,
\* the vault and the links change while it works (CommandDispatch.cpp:631-644).
LineageKept == \A p \in DOMAIN files : files[p].from = p.ts

\* A link in a standard directory leads to an existing file of the same
\* timestamp, and one that wrote this file has reported success; what was
\* interrupted before in a vault stays there (CommandDispatch.cpp:355-367,
\* Config.cpp:379).  The same is true of a calibration table, also when the file
\* has been replaced by a link since or the vault was cleared between the
\* analysis and the link (CommandDispatch.cpp:662).  It is not said that the file
\* is complete: a second analysis truncates what the first one published and may
\* fail, and a script reports success after an exception it has caught.
OnlySuccessIsPublished ==
    /\ \A q \in DOMAIN links :
          /\ links[q] \in DOMAIN files
          /\ files[links[q]].made
          /\ links[q].ts = q.ts
    /\ \A t \in Tables :
          table[t] # NoTable =>
              exists(table[t]) /\ files[Resolve(table[t])].made

\* A sequence of calibrations never processes an acquisition that was started
\* before it: not when its own acquisition has failed, nor when the operator's
\* commands work in its vault, even one that took its time before the vault was
\* set (CommandDispatch.cpp:333-336, 1277-1281).
SequenceUsesOwnData ==
    handler["macro"].pc \in {"analysing", "publish", "table"} =>
        files[Resolve(handler["macro"].in)].begun = timestamp

\* What a task that reported success has written appears in its standard
\* directory, also when the sequence that started it has ended and cleared the
\* vault before the monitor thread came to it (CommandDispatch.cpp:354-366),
\* unless a STOP_DAQ or a RESET_DAQ has swept the tasks before: what is swept is
\* never linked (CommandDispatch.cpp:94-108).
AcquiredIsPublished ==
    \A cmd \in (Operator \cup Range(Steps)) \cap DOMAIN Acquisitions :
      \A s \in Times :
        (\E t \in tasks : /\ t.cmd = cmd /\ t.ts = s /\ t.state = "good"
                         /\ \A p \in Outputs(t) : exists(p))
        ~> \/ LET c == Acquisitions[cmd] IN
              \A x \in c.suffixes : exists(Path(0, c.dir, c.prefix, s, x))
           \/ \E thread \in Threads : handler[thread].pc = "swept"
=============================================================================
