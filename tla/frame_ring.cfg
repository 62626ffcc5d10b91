SPECIFICATION HistorySpec
CONSTANTS
    QueueSize = 2
    Acquirers = {sipm}
    Stopper = stop
    Required = 2
    MaxStarts = 2
    MaxTries = 1
    MaxFrame = 4
    WireSize = 2
    MaxFile = 4
    MaxLag = 2
INVARIANTS
    TypeOK
    RingConsistent
    FileInOrder
    AtMostOneStale
PROPERTIES
    EveryRequestAnswered
CHECK_DEADLOCK FALSE
