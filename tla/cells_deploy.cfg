CONSTANTS
    cell0 = cell0
    cell1 = cell1
    CellOrder <- TwoCells
    APIAccess = {cell0, cell1}
    MaxVersion <- TwoOfEach
    MaxTemplates = 0
    MaxRemovals = 0
    MaxFaults = 2
    FreshConfig = FALSE
    PreserveJobs = FALSE
SPECIFICATION FairSpec
INVARIANTS RowNotAhead RegisteredIsMapped
PROPERTY CellsMapped
