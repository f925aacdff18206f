SPECIFICATION SystemSpec
CONSTANTS
    NumKinds = 2
    Existing <- MCExisting
    Fallible = {1}
    Workers = {w1, w2}
    Starter = s
    NoOne = none
    Debounce = 1
    MaxVersion = 1
    MaxNotices = 1
    Readers = {r1}
SYMMETRY MCSymmetry
INVARIANTS
    SystemInv
    NoLostUpdate
    PermissionsAreNoOlder
    AssuredIsCovered
PROPERTIES
    ReadsMoveForward
    ImplementsRegister
CHECK_DEADLOCK FALSE
