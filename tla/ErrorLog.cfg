SPECIFICATION Spec
CONSTANTS
    CountRange = 8
    MaxErrors = 18
INVARIANTS
    MostRecentFirst
    AllEntriesShown
