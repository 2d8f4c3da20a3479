CONSTANTS
    c0 = c0
    c1 = c1
    conductor0 = conductor0
    conductor1 = conductor1
    api = api
    NovaCR = nova
    CellOrder <- OneCell
    APIAccess = {c0}
    CellServices <- JustConductors
    TopServices <- JustAPI
    MaxImage = 2
    MaxFaults = 1
SPECIFICATION FairSpec
INVARIANTS UpgradeInv SchemaFirst TopFollowsCell0 ReadyMeansRolledOut
PROPERTY UpgradeCompletes
