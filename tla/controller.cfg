SPECIFICATION FairSpec
CONSTANTS
    Callers = {worker}
    Telemetry = {journal, monitor}
    Parts = 2
    MaxRetries = 2
    Nobody = Nobody
    Worker = worker
    Journal = journal
INVARIANTS
    TypeOK
    StreamIsWhole
    NoUseAfterDestroy
PROPERTIES
    ReconnectHappens
    ShutdownEnds
CHECK_DEADLOCK FALSE
