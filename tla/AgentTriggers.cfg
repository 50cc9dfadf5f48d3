SPECIFICATION FairSpec
CONSTANTS
    Triggers = {t1}
    Crons = {x1}
    Metrics = {m1}
    Period <- MCPeriod
    Cooldown = 2
    TickLimit = 1
    Ticks = {c1}
    Operators = {d1}
    MaxTime = 2
    MaxEdits = 2
    MaxCrashes = 1
    MaxFailures = 2
    None = None
INVARIANTS
    SlotsFireOnce
    EdgesAreAnswered
    EnabledHasASlot
PROPERTIES
    FiresAreRisingEdges
    DueIsServed
CHECK_DEADLOCK FALSE
