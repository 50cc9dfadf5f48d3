SPECIFICATION FairSpec
CONSTANTS
    Runs = {r1}
    Requesters = {u1}
    Approvers = {u1, u2, u3}
    c1 = c1
    c2 = c2
    Calls = {c1, c2}
    Cancellers = {c2}
    Plans <- MCPlans
    None = None
INVARIANTS
    ApprovalBeforeEffect
    ContextNamesAnApprover
    EffectsInOrder
    OutOfScopeUntouched
    SerialRunsTellTheTruth
PROPERTIES
    VerdictIsFinal
    StartedRunsSettle
