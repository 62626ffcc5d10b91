SPECIFICATION FairSpec
CONSTANTS
    Commands = {c1, c2, u1}
    Urgent = {u1}
    Garbage = {g}
    NoCommand = NoCommand
    MaxResets = 1
INVARIANTS
    TypeOK
    AckedIsKept
PROPERTIES
    ImplementsService
    AckedIsExecuted
    StopReturnsIfSeen
CHECK_DEADLOCK FALSE
