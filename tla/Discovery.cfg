SPECIFICATION FairSpec
CONSTANTS
    Served <- MCServed
    Requests <- MCRequests
    MaxExpanded = 2
    MaxChanges = 1
INVARIANTS
    TypeOK
    AcceptedIsNoPhantom
    ExpansionIsServed
PROPERTIES
    CacheIsNeverLost
    RefreshConverges
CHECK_DEADLOCK FALSE
