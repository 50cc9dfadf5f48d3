SPECIFICATION Spec
CONSTANTS
    Calls = {c1, c2}
    Requests = {q1}
    TTL = 1
    MaxTime = 2
    MaxChanges = 2
    Apps = {a1, a2}
    Statuses = {"onboarding", "suspended"}
    Training = {FALSE}
    Submissions = {s1, s2, s3}
    Keys = {k1}
    Realms = {r1, r2}
    MaxTokens = 2
    MaxRefs = 3
    Names = {n1, n2}
    Versioned = {n1}
    Hashes = {None}
    Verdicts = {"verified"}
    Dispatches = {d1, d2}
    Items = {i1, i2}
    Repos = {g1, g2}
    MaxOpened = 2
    Fixers = {f1, f2}
    Cooldown = 1
    MaxNow = 3
    MaxIssues = 2
    Admins = {u1, u2}
    Roles = {"mactech_super_admin", "mactech_admin", "none"}
    UserStatuses = {"active", "suspended", "inactive"}
    Contracts = {k1}
    Stages = {"PIPELINE", "ACTIVE", "CLOSEOUT"}
    Users = {u1}
    MaxEvents = 4
    ApiKeyIds = {y1, y2, y3}
    None = None
INVARIANTS
    AccessEndsWithTTL
    MetadataTellsTruth
    CheckoutBillsOnce
    ConnectionIsGood
    ReferencesResolve
    FeedbackIsFiledOnce
    FixesAreSpaced
    LogTellsTheStage
PROPERTIES
    LastSuperAdminStays
    LinesEnd
CHECK_DEADLOCK FALSE
