----------------------------- MODULE MCFrameServer -----------------------------
\* Instances of FrameServer with one acquiring script that may be started again
\* when it has ended or was killed; nothing in the program keeps a second one
\* from running at the same time, and no part of the reading protocol is made
\* for two readers.  The history variable holds the scripts in whose acquisition
\* stop_daq.py has stopped the server, which resets the pointers while
\* write_raw may be reading frames.
EXTENDS FrameServer

VARIABLE interrupted

Acquiring(c) == ~At(c, {"ended"})

HistoryInit == Init /\ interrupted = {}

HistoryNext ==
    /\ Next
    /\ interrupted' =
         {c \in Acquirers :
            /\ Acquiring(c)'
            /\ \/ c \in interrupted
               \/ poll' = "joinOff" /\ client' = Stopper}

HistorySpec ==
    HistoryInit /\ [][HistoryNext]_<<vars, interrupted>> /\ Fairness

\* The ring never holds more frames than it has slots, although the pointer a
\* script sets comes from an answer that is older than the frames pushed and
\* the resets made since (FrameServer.cpp:162, daqd.py:1244).
RingConsistent == hasWorker => (wr - rd) % (2 * QueueSize) <= QueueSize

\* In a step that is not interrupted write_raw never reads a frame the worker
\* is copying, never one of another synchronisation, and no number twice or out
\* of order (write_raw.cpp:186 only warns).
FileInOrder ==
    \A c \in Acquirers \ interrupted :
        LET file == script[c].file IN
        /\ \A i \in DOMAIN file : file[i].sync = script[c].target.sync
        /\ \A i \in 2 .. Len(file) : file[i - 1].id < file[i].id

\* After __synchronizeDataToConfig at most one frame is older than the call:
\* the worker may have compared it with the old minimumFrameID and push it
\* after the pointers were read (UDPFrameServer.cpp:160-164).
AtMostOneStale ==
    \A c \in Acquirers \ interrupted :
        Cardinality({i \in DOMAIN script[c].file :
                       script[c].file[i].id < script[c].target.id}) <= 1

\* The poll thread finishes every request, also one that joins the worker or
\* waits for a reply of the front end: a request it did not finish would keep
\* stop_daq.py and every other client waiting (FrameServer.cpp:187).
EveryRequestAnswered == poll # "idle" ~> poll = "idle"

=============================================================================
