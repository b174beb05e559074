SPECIFICATION Spec
CONSTANTS
    Size = 3
    Numbers = {1, 129}
    Results = {0, 7}
    Steps = 1
    MaxTests = 5
INVARIANT CaptiveIsNamed
