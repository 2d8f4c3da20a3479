SPECIFICATION FairSpec
CONSTANTS
    Cell0 = {TRUE, FALSE}
    Optional = {"NovaNoVNCProxy"}
    Computes = {a}
    MaxURL = 2
    MaxSecret = 2
    MaxUsers = 1
    MaxEdits = 2
    Faults = {"call", "compute", "delete", "patch", "restart"}
    MaxFaults = 1
    NewEvents = 1
INVARIANTS CellInv CellReadyTellsTruth
PROPERTIES ProxyFirst UsersOwnKept CellSettles
CHECK_DEADLOCK FALSE
