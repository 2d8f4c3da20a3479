SPECIFICATION FairSpec
CONSTANTS
    KindChoices = {"PlacementAPI"}
    FirstCreds = {0, 1}
    MaxCred = 3
    MaxAccount = 2
    MaxImage = 2
    MaxMissing = 1
    MaxEdits = 3
    Faults = {"call", "child", "patch", "restart"}
    NewEdits = 1
    MaxFaults = 1
    MaxEvents = 4
INVARIANTS PeerInv AccountKept CredentialKept SchemaFirst DeletionLeavesNothing
PROPERTY Settles
CHECK_DEADLOCK FALSE
