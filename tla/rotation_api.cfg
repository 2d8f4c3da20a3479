CONSTANTS
    cell0 = cell0
    conductor0 = conductor0
    api = api
    Top = Top
    AC = AC
    API = API
    Notif = Notif
    NoInput = NoInput
    CellOrder <- OneCell
    APIAccess = {}
    Services = {conductor0, api}
    UnitOf <- UnitsOfOne
    MaxIssued <- ThreeOfAPI
    MaxFaults = 1
SPECIFICATION FairSpec
INVARIANTS RotationInv InUseProtected AppliedMeansRolledOut
PROPERTIES CurrentStaysHeld LeaseSpec TransportReleased
