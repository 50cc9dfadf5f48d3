SPECIFICATION Spec
CONSTANTS
    Calls = {c1}
    Apps = {a1, a2}
    Statuses = {"onboarding", "suspended"}
    Training = {TRUE, FALSE}
INVARIANT MetadataKeepsTraining
CHECK_DEADLOCK FALSE
