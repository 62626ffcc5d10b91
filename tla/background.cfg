SPECIFICATION FairSpec
CONSTANTS
    Pids = {p1, p2}
    Dispatchers = {worker, macro}
    Recorders = {recorder}
    Monitor = monitor
    NoPid = NoPid
    Nobody = Nobody
INVARIANTS
    TypeOK
    AtMostOneReport
    ReportIsTrue
    NoLostChild
PROPERTIES
    NoSignalAfterReap
    EveryTaskReported
CHECK_DEADLOCK FALSE
