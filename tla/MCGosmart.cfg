SPECIFICATION FairSpec
CONSTANTS
    Timeouts <- MCTimeouts
    Second = 2
    HalfRange = 8
    Names <- MCNames
    NameTables <- MCNameTables
    NVMeNames <- MCNVMeNames
INVARIANTS
    TypeOK
    ExitCodeContract
    VerdictBacked
    SectionsBacked
    ReportMatchesDrive
    HandlesReleased
    TimeoutNotEarly
PROPERTIES
    ImplementsOneShot
    TimeoutEndsRun
    OnlyOutsideBlocks
