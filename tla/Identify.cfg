SPECIFICATION Spec
CONSTANTS
    Word = 32
    Sector = 16
    Kilo = 10
    Blank = " "
    Nul = "NUL"
    Length = 4
    Drives <- MCDrives
INVARIANTS
    GeometryExact
    LargerIsNotShownSmaller
    ModelSurvives
