SPECIFICATION Spec
CONSTANTS
    Clock <- MCClock
    Operator = {"ACQUIRE_TDC_CALIBRATION", "PROCESS_TDC_CALIBRATION",
                "ACQUIRE_SIPM_DATA", "STOP_DAQ"}
    Steps <- MCSteps
INVARIANTS
    TypeOK
    LineageKept
    OnlySuccessIsPublished
    SequenceUsesOwnData
PROPERTIES
    AcquiredIsPublished
CHECK_DEADLOCK FALSE
