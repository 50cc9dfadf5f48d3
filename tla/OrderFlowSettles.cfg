SPECIFICATION FairSpec
CONSTANTS
    o1 = o1
    o2 = o2
    Orders = {o1}
    Recurring = {o1}
    Buyer <- MCCompany
    FreeDomains <- MCFree
    Payments = {p1}
    MaxEvents = 1
    MaxEntities = 1
    SweepLimit = 2
    MaxCharges = 1
    MaxForeign = 1
    Calls = {c1, c2}
    Operators = {c2}
    None = None
PROPERTY
    EventsSettle
CHECK_DEADLOCK FALSE
