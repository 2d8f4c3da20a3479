CONSTANTS
    cell0 = cell0
    conductor0 = conductor0
    api = api
    Top = Top
    AC = AC
    API = API
    Notif = Notif
    NoInput = NoInput
    CellOrder <- OneCell
    APIAccess = {}
    Services = {conductor0, api}
    UnitOf <- UnitsOfOne
    MaxIssued <- OneAPIOneNotif
    MaxFaults = 0
SPECIFICATION ToggleSpec
INVARIANT InUseProtected
