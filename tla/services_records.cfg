SPECIFICATION Spec
CONSTANTS
    Services = {s1,s2}
    TopologyCRs = {t1}
    NoTopology = NoTopology
    HostsMatch <- PartOfOthers
    MaxReplicas = 2
    Faults = {}
    Deployments <- TwoConductors
INVARIANT LiveRecordKept
CHECK_DEADLOCK FALSE
