SPECIFICATION HistorySpec
CONSTANTS
    Dispatchers = {worker}
    Owner = owner
    Threads = {t1}
    Nobody = Nobody
    NoThread = NoThread
PROPERTIES
    StopReturns
CHECK_DEADLOCK FALSE
