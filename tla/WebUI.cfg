SPECIFICATION FairSpec
CONSTANTS
    MaxCalls = 2
    Statuses <- MCStatuses
    None = None
    Cut = Cut
    pods = pods
    Pods = Pods
    Values <- MCValues
    Names <- MCNames
    Items <- MCItems
    Fold <- MCFold
    Typed = {}
    Scripts <- MCScripts
    Clients <- MCClients
INVARIANTS
    TypeOK
    EngineSeesWhatWasMeant
PROPERTIES
    TimeoutsNest
    DrawsTheLatestWholeAnswer
    QueriesNeverUncheck
    ButtonsComeBack
CHECK_DEADLOCK FALSE
