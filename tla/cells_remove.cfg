CONSTANTS
    cell0 = cell0
    cell1 = cell1
    CellOrder <- TwoCells
    APIAccess = {cell0, cell1}
    MaxVersion <- OneOfEach
    MaxTemplates = 1
    MaxRemovals = 1
    MaxFaults = 1
    FreshConfig = FALSE
    PreserveJobs = TRUE
SPECIFICATION FairSpec
INVARIANTS TypeOK RowHasCell
PROPERTIES NovaCellGoesLast MappedCellsGo
