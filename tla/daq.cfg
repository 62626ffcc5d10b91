SPECIFICATION HistorySpec
CONSTANTS
    Dispatchers = {worker, macro}
    Owner = owner
    Threads = {t1, t2}
    Nobody = Nobody
    NoThread = NoThread
INVARIANTS
    TypeOK
    SingleDaqThread
    RefusalIsJustified
PROPERTIES
    StopNotErased
    StartReturns
CHECK_DEADLOCK FALSE
