SPECIFICATION Spec
CONSTANTS
    Fields = {"Data_Units_Written", "Num_Err_Log_Entries"}
    Range64 = 8
    Unit = 2
    Jumps = {1, 3}
    LogSize = 2
    MaxSteps = 5
INVARIANT CountedErrorsAreListed
PROPERTIES
    CountersNeverGoBack
    AmountsNeverShrink
