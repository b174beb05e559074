SPECIFICATION Spec
INVARIANT VerdictIsTheDrives
PROPERTY NoRelapse
