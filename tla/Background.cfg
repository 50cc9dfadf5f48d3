SPECIFICATION FairSpec
CONSTANTS
    Subs = {s1}
    Events = {e1}
    Operators = {o1, o2}
    MaxAttempts = 2
    MaxSent = 4
    Passes = {p1, p2}
    Hooks = {h1}
    Healths = {"up", "down"}
    Marks = {{"failed_workflow"}}
    Syncs = {{"github", "railway"}}
    Production = TRUE
    MaxCommits = 1
    MaxDeployments = 3
    Histories <- MCHistories
    MaxEvents = 2
    None = None
INVARIANTS
    ReceiptTellsTheTruth
    SettledFlagsTellTheTruth
PROPERTIES
    DeliveriesSettle
    FlagsConverge
CHECK_DEADLOCK FALSE
