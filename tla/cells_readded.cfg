CONSTANTS
    cell0 = cell0
    cell1 = cell1
    CellOrder <- TwoCells
    APIAccess = {cell0, cell1}
    MaxVersion <- OneOfEach
    MaxTemplates = 0
    MaxRemovals = 1
    MaxFaults = 0
    FreshConfig = FALSE
    PreserveJobs = TRUE
SPECIFICATION FairSpec
PROPERTY CellsMapped
