\* Two laps and more of a 16-id space with a window of 4.
SPECIFICATION Spec
CONSTANTS
    IdSpace = 16
    WindowSize = 4
    MaxGap = 7
    MaxLag = 3
    Last = 36
INVARIANTS
    TypeOK
    NothingForgotten
    NoFalseDuplicate
