SPECIFICATION Spec
CONSTANTS
    KindChoices = {"Cyborg"}
    FirstCreds = {1}
    MaxCred = 1
    MaxAccount = 2
    MaxImage = 1
    MaxMissing = 0
    MaxEdits = 1
    Faults = {}
    NewEdits = 0
    MaxFaults = 0
    MaxEvents = 1
INVARIANT CyborgAccountKept
CHECK_DEADLOCK FALSE
