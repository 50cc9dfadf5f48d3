SPECIFICATION Spec
CONSTANTS
    r1 = r1
    r2 = r2
    r3 = r3
    l1 = l1
    hub = hub
    proposal = proposal
    Requests = {r1, r2, r3}
    Apps = {hub, proposal}
    Hub = hub
    Referenced = {hub}
    Legacy <- MCLegacy
    Isolations = {"read committed", "repeatable read"}
    MaxAttempts = 2
    MaxExports = 1
    None = None
INVARIANT
    ApprovedDeletionGoesThrough
CHECK_DEADLOCK FALSE
