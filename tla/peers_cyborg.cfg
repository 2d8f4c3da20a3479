SPECIFICATION FairSpec
CONSTANTS
    KindChoices = {"Cyborg"}
    FirstCreds = {1}
    MaxCred = 3
    MaxAccount = 1
    MaxImage = 2
    MaxMissing = 0
    MaxEdits = 2
    Faults = {"call", "child", "patch", "restart"}
    NewEdits = 0
    MaxFaults = 1
    MaxEvents = 2
INVARIANTS PeerInv CredentialKept
PROPERTY Settles
CHECK_DEADLOCK FALSE
