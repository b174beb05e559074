SPECIFICATION Spec
CONSTANTS
    Timeouts <- MCTimeouts
    Second = 2
    HalfRange = 8
    Names <- MCNames
    NameTables <- MCNameTables
    NVMeNames <- MCNVMeNames
INVARIANT SelectiveLogChecked
