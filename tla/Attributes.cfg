SPECIFICATION Spec
CONSTANTS
    NumAttributes = 3
    Tables <- MCTables
    Orders <- MCOrders
    RPMs <- MCRPMs
    Values = {0, 1, 2}
    Limits = {0, 1}
    Fresh = 2
    Byte = 2
    Counters = {33}
    MaxSteps = 2
INVARIANTS
    GetAnswersFirstCarrier
    ListAndGetAgree
    WhenFailedTellsHistory
