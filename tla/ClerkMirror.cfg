SPECIFICATION Spec
CONSTANTS
    Users = {u1}
    Calls = {c1, c2}
    MaxAccounts = 2
    MaxChanges = 2
    Org = Org
    None = None
SYMMETRY MCSymmetry
INVARIANTS
    NoStaleAccess
    VisitHeals
PROPERTIES
    SuspendedStays
CHECK_DEADLOCK FALSE
