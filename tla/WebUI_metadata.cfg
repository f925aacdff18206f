SPECIFICATION Spec
CONSTANTS
    MaxCalls = 2
    Statuses <- MCStatuses
    None = None
    Cut = Cut
    pods = pods
    Pods = Pods
    Values <- MCValues
    Names <- MCNames
    Items <- MCItems
    Fold <- MCFold
    Typed = {}
    Scripts <- MCScripts
    Clients <- MCClients
INVARIANTS
    RuleMetadataIsAlwaysIncluded
CHECK_DEADLOCK FALSE
