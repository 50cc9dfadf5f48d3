SPECIFICATION Spec
CONSTANTS
    o1 = o1
    o2 = o2
    Orders = {o1, o2}
    Recurring = {o1}
    Buyer <- MCCompany
    FreeDomains <- MCFree
    Payments = {p1}
    MaxEvents = 1
    MaxEntities = 1
    SweepLimit = 2
    MaxCharges = 1
    MaxForeign = 0
    Calls = {c1, c2}
    Operators = {c2}
    None = None
INVARIANTS
    EntitledOnlyIfPaid
    PaidIsRecorded
    ProvisionedIsComplete
    OneOrgPerDomain
    ProvisionedOnce
    ProcessedMeansProvisioned
CHECK_DEADLOCK FALSE
