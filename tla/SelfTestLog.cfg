SPECIFICATION Spec
CONSTANTS
    Size = 3
    Numbers = {1}
    Results = {0, 7}
    Steps = 1
    MaxTests = 5
INVARIANTS
    EveryTestListedOnce
    EndedTestIsLogged
PROPERTY ProgressOnlyForward
