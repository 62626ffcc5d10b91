SPECIFICATION FairSpec
CONSTANTS
    Macros = {"MACRO_STAGE3_OPERATIONAL_D", "MACRO_AUTO_RUN_CYCLE"}
    OperatorCodes = {"ACQUIRE_SIPM_DATA"}
    CycleLimits = {0, 2}
    NoMacro = NoMacro
INVARIANTS
    TypeOK
    SuccessMeansAllSteps
    StepsDoNotOverlap
    StopHeeded
    RecorderFollowsFlag
PROPERTY WorkerReturns
CHECK_DEADLOCK FALSE
