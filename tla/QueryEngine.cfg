SPECIFICATION MCSpec
CONSTANTS
    n1 = n1
    n2 = n2
    n1padded = n1padded
    Namespaces = {n1, n2}
    Padded <- MCPadded
    Cluster = cluster
    Blank = blank
    AccountOf <- MCAccountOf
    Roles = {"a", "b", "c"}
    Target = "a"
    Labels = {"l1", "l2"}
    MaxSelectors = 2
    Snapshots <- MCSnapshots
    Matches <- MCMatches
    Phantoms = {"y"}
    Clusters <- MCClusters
    MaxPodsPerSubject = 2
    MaxWorkloadsPerPod = 1
    MaxOwnerDepth = 3
INVARIANTS
    TypeOK
    PodsAddUp
    WorkloadsAddUp
    CutChainsAreReported
    NodesLeadToTheirPods
    OrderDoesNotMatter
    RowsAgreeWithGraph
    CountersAgreeWithGraph
    StrictKeepsToTheScope
    NoSourceIsMissed
    ExactWhenEveryLabelIsCarried
    PodsAreReached
CHECK_DEADLOCK FALSE
