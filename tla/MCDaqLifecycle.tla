----------------------------- MODULE MCDaqLifecycle -----------------------------
\* Instances of DaqLifecycle.  One DAQ thread id would do, a second one lets a
\* second DAQ thread exist if the code allowed it.  The history variable says
\* whether two handlers have ever been under way at once: what START_DAQ
\* promises to one dispatching thread it does not promise to two.
EXTENDS DaqLifecycle

VARIABLE overlapped

Overlap == \E d, e \in Dispatchers : d # e /\ pc[d] # "idle" /\ pc[e] # "idle"

HistoryInit == Init /\ overlapped = FALSE

HistoryNext == Next /\ overlapped' = (overlapped \/ Overlap')

HistorySpec == HistoryInit /\ [][HistoryNext]_<<vars, overlapped>> /\ Fairness

\* As long as commands come one at a time, START_DAQ always returns, although
\* it joins the previous DAQ thread while it holds daqMutex_.
StartReturns ==
    \A d \in Dispatchers :
        pc[d] \in StartStates ~> pc[d] \notin StartStates \/ overlapped

=============================================================================
