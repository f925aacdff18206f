SPECIFICATION Spec
CONSTANTS
    n1 = n1
    n2 = n2
    n1padded = n1padded
    Namespaces = {n1, n2}
    Padded <- MCPadded
    Cluster = cluster
    Blank = blank
    NoName = noname
    NoUID = nouid
    Callers <- MCCallers
    Worlds <- MCWorlds
    MaxPublished = 2
INVARIANTS
    TypeOK
    ShownIsListable
    NothingListableIsHidden
CHECK_DEADLOCK FALSE
