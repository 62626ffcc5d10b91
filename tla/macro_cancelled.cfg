SPECIFICATION FairSpec
CONSTANTS
    Macros = {"MACRO_AUTO_RUN_CYCLE"}
    OperatorCodes = {}
    CycleLimits = {0}
    NoMacro = NoMacro
PROPERTY StopCancelsMacro
CHECK_DEADLOCK FALSE
