SPECIFICATION FairSpec
CONSTANTS
    Services = {s1,s2}
    TopologyCRs = {t1}
    NoTopology = NoTopology
    HostsMatch <- OwnHosts
    MaxReplicas = 2
    Faults = {"call", "read", "cleanup", "patch", "restart"}
    Deployments <- AllDeployments
INVARIANTS ServiceInv EndpointFollowsCR MemcachedFollowsCR TopologyFollowsCR LiveRecordKept
PROPERTIES BecomesReady DeletionCompletes StaleRecordsGo
CHECK_DEADLOCK FALSE
