----------------------------- MODULE CommandService -----------------------------
(***************************************************************************)
(* What the command client promises the hub: an accepted command is        *)
(* executed once, one command at a time; STOP_DAQ and RESET_DAQ overtake   *)
(* everything that waits, the latest one first; all others are executed in *)
(* the order in which they were accepted.  Lost connections and restarts   *)
(* of the client do not show.                                              *)
(***************************************************************************)
EXTENDS Sequences

CONSTANTS Commands, Urgent, NoCommand

VARIABLES urgent,    \* accepted urgent commands, the latest first
          normal,    \* other accepted commands, the oldest first
          busy,      \* the command being executed
          accepted,  \* every command accepted so far
          executed   \* the commands executed so far, in order

vars == <<urgent, normal, busy, accepted, executed>>

Init ==
    /\ urgent = <<>>
    /\ normal = <<>>
    /\ busy = NoCommand
    /\ accepted = {}
    /\ executed = <<>>

Accept(c) ==
    /\ c \notin accepted
    /\ accepted' = accepted \cup {c}
    /\ IF c \in Urgent
       THEN urgent' = <<c>> \o urgent /\ UNCHANGED normal
       ELSE normal' = Append(normal, c) /\ UNCHANGED urgent
    /\ UNCHANGED <<busy, executed>>

BeginUrgent ==
    /\ busy = NoCommand
    /\ urgent # <<>>
    /\ busy' = Head(urgent)
    /\ urgent' = Tail(urgent)
    /\ UNCHANGED <<normal, accepted, executed>>

BeginNormal ==
    /\ busy = NoCommand
    /\ urgent = <<>>
    /\ normal # <<>>
    /\ busy' = Head(normal)
    /\ normal' = Tail(normal)
    /\ UNCHANGED <<urgent, accepted, executed>>

End ==
    /\ busy # NoCommand
    /\ executed' = Append(executed, busy)
    /\ busy' = NoCommand
    /\ UNCHANGED <<urgent, normal, accepted>>

Next ==
    \/ \E c \in Commands : Accept(c)
    \/ BeginUrgent
    \/ BeginNormal
    \/ End

Spec == Init /\ [][Next]_vars
=============================================================================
