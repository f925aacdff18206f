SPECIFICATION FairSpec
CONSTANTS
    NumKinds = 2
    Existing <- MCExisting
    Fallible = {}
    Workers = {w1}
    Starter = s
    NoOne = none
    Debounce = 1
    MaxVersion = 1
    MaxNotices = 1
PROPERTIES
    EventuallyConverges
    EventuallyReady
CHECK_DEADLOCK FALSE
