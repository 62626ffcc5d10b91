SPECIFICATION FairSpec
CONSTANTS
    Commands = {c1}
    Urgent = {}
    Garbage = {}
    NoCommand = NoCommand
    MaxResets = 1
PROPERTIES
    ClientStopReturns
CHECK_DEADLOCK FALSE
