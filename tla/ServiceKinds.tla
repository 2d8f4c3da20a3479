------------------------------ MODULE ServiceKinds ------------------------------
(***************************************************************************)
(* What distinguishes the controllers of the services that run in pods:    *)
(* the six Nova services, Placement, and the two of Cyborg.  Each of them  *)
(* is a sequence of steps, to which ServiceLifecycle gives their meaning.  *)
(***************************************************************************)
EXTENDS Sequences, FiniteSets, ReconcileSteps

Kinds == {"NovaAPI", "NovaScheduler", "NovaConductor", "NovaMetadata",
          "NovaNoVNCProxy", "NovaCompute", "PlacementAPI", "CyborgAPI",
          "CyborgConductor"}
CyborgKinds == {"CyborgAPI", "CyborgConductor"}

(* Objects of others that a reconcile needs and that may be missing: the   *)
(* input Secret, the CA bundle, the certificates of the endpoints, the     *)
(* VeNCrypt certificate, databases with their accounts, a Memcached that   *)
(* is Ready, network attachments, and the address of a LoadBalancer.  *)
Inputs == {"secret", "ca", "cert", "vencrypt", "account", "memcached", "nad", "address"}

Topologies == <<Do("leaveTopology"), Do("takeTopology")>>
HoldMemcached == <<Do("memcached"), Do("holdMemcached")>>
Deploy == Topologies \o <<Do("statefulSet"), Do("rolledOut")>>
Expose == <<Need("address", "CreateService", "wait", {"CreateService"})>>
DropMemcached == <<Do("dropMemcached")>>
(* The error of reading the Memcached is dropped together with the result. *)
TryDropMemcached == <<Do("tryDropMemcached")>>
(* The order swapped. *)
GoAndLeave == <<Do("dropFinalizer"), Do("dropTopology")>>
LeaveAndGo == <<Do("dropTopology"), Do("dropFinalizer")>>

-----------------------------------------------------------------------------
(* NovaAPI *)

APIConditions == {"Input", "ServiceConfig", "Deployment", "CreateService",
    "KeystoneEndpoint", "NetworkAttachments", "TLSInput", "Memcached"}
APIConfig == <<Need("account", "ServiceConfig", "retry", {})>>
APIInputs ==
    <<Need("secret", "Input", "retry", {"Input"})>>
    \o HoldMemcached \o APIConfig
    \o <<Need("ca", "TLSInput", "wait", {}),
         Need("cert", "TLSInput", "wait", {"TLSInput", "ServiceConfig"})>>
APIDeployment == Deploy
APIExposure == Expose
APIEndpoint == <<Do("endpoint")>>
APISteps == APIInputs
    \o <<Need("nad", "NetworkAttachments", "retry", {})>> \o APIDeployment
    \o <<Do("whenDeployed")>> \o APIExposure \o APIEndpoint
APIDeletion == <<Do("dropEndpoint")>> \o DropMemcached \o LeaveAndGo
APIWatches == {"secret", "ca", "cert", "topology", "address"}
APIMounts == {"ca", "cert"}

-----------------------------------------------------------------------------
(* NovaScheduler: MemcachedReady is not among its initial conditions. *)

SchedulerConditions == {"Input", "ServiceConfig", "Deployment",
    "NetworkAttachments", "TLSInput"}
SchedulerConfig == <<Need("account", "ServiceConfig", "retry", {"ServiceConfig"})>>
SchedulerInputs ==
    <<Need("secret", "Input", "retry", {"Input"}),
      Need("ca", "TLSInput", "wait", {"TLSInput"})>>
    \o HoldMemcached \o SchedulerConfig
SchedulerDeployment == Deploy
SchedulerCleanup == <<Do("cleanRecords")>>
SchedulerSteps == SchedulerInputs
    \o <<Need("nad", "NetworkAttachments", "retry", {})>> \o SchedulerDeployment
    \o <<Do("whenDeployed")>> \o SchedulerCleanup
SchedulerDeletion == TryDropMemcached \o LeaveAndGo
SchedulerWatches == {"secret", "ca", "topology"}
SchedulerMounts == {"ca"}

-----------------------------------------------------------------------------
(* NovaConductor: the job that syncs the cell database comes before the    *)
(* pods, and its own finalizer goes before the reference to the Topology.  *)

ConductorConditions == {"Input", "ServiceConfig", "DBSync", "Deployment",
    "NetworkAttachments", "TLSInput", "Memcached", "CronJob"}
ConductorConfig == <<Need("account", "ServiceConfig", "retry", {"ServiceConfig"})>>
ConductorInputs ==
    <<Need("secret", "Input", "retry", {"Input"}),
      Need("ca", "TLSInput", "wait", {"TLSInput"})>>
    \o HoldMemcached \o ConductorConfig
    \o <<Need("nad", "NetworkAttachments", "retry", {})>>
ConductorDBSync == <<Do("dbSync")>>
ConductorDeployment == Deploy
ConductorPurge == <<Make("CronJob")>>
ConductorCleanup == <<Do("cleanRecords")>>
ConductorSteps == ConductorInputs \o ConductorDBSync \o ConductorDeployment
    \o ConductorPurge \o <<Do("whenDeployed")>> \o ConductorCleanup
ConductorDeletion == TryDropMemcached \o <<Do("dropFinalizer"), Do("dropTopology")>>
ConductorWatches == {"secret", "ca", "topology"}
ConductorMounts == {"ca"}

-----------------------------------------------------------------------------
(* NovaMetadata: exposed whether or not its pods run, since the address is *)
(* what the configuration for neutron needs.                               *)

MetadataConditions == {"Input", "ServiceConfig", "Deployment", "CreateService",
    "NetworkAttachments", "ComputeServiceConfig", "TLSInput", "Memcached"}
MetadataConfig == <<Need("account", "ServiceConfig", "retry", {"ServiceConfig"})>>
MetadataInputs ==
    <<Need("secret", "Input", "retry", {"Input"})>>
    \o HoldMemcached
    \o <<Need("ca", "TLSInput", "wait", {}),
         Need("cert", "TLSInput", "wait", {"TLSInput"})>>
    \o MetadataConfig
MetadataDeployment == Deploy
MetadataExposure == Expose
NeutronConfig == <<Make("ComputeServiceConfig")>>
MetadataSteps == MetadataInputs
    \o <<Need("nad", "NetworkAttachments", "retry", {})>> \o MetadataDeployment
    \o MetadataExposure \o NeutronConfig
MetadataDeletion == TryDropMemcached \o LeaveAndGo
MetadataWatches == {"secret", "ca", "cert", "topology", "address"}
MetadataMounts == {"ca", "cert"}

-----------------------------------------------------------------------------
(* NovaNoVNCProxy: exposed before anything else is done, for the URL of    *)
(* the console is part of what the computes are configured with.           *)

ProxyConditions == {"Input", "ServiceConfig", "Deployment", "CreateService",
    "NetworkAttachments", "TLSInput", "Memcached"}
ProxyConfig == <<Need("account", "ServiceConfig", "retry", {"ServiceConfig"})>>
ProxyInputs ==
    <<Need("secret", "Input", "retry", {"Input"}),
      Need("ca", "TLSInput", "wait", {}),
      Need("cert", "TLSInput", "wait", {}),
      Need("vencrypt", "TLSInput", "wait", {"TLSInput"})>>
ProxyExposure == Expose
ProxyDeployment == Deploy
ProxySteps == ProxyInputs \o ProxyExposure \o HoldMemcached \o ProxyConfig
    \o <<Need("nad", "NetworkAttachments", "retry", {})>>
    \o ProxyDeployment
ProxyDeletion == TryDropMemcached \o LeaveAndGo
ProxyWatchesSome == {"secret", "ca", "cert", "topology", "address"}
ProxyWatches == {"secret", "ca", "cert", "vencrypt", "topology", "address"}
ProxyMounts == {"ca", "cert", "vencrypt"}

-----------------------------------------------------------------------------
(* NovaCompute: no Memcached, and no finalizer of its own. *)

ComputeConditions == {"Input", "ServiceConfig", "Deployment",
    "NetworkAttachments", "TLSInput"}
ComputeConfig == <<Make("ServiceConfig")>>
ComputeInputs ==
    <<Need("secret", "Input", "retry", {"Input"}),
      Need("ca", "TLSInput", "wait", {"TLSInput"})>> \o ComputeConfig
ComputeDeployment == Deploy
ComputeSteps == ComputeInputs
    \o <<Need("nad", "NetworkAttachments", "retry", {})>> \o ComputeDeployment
ComputeDeletion == <<Do("dropTopology")>>
ComputeWatches == {"secret", "ca", "topology"}
ComputeMounts == {"ca"}

-----------------------------------------------------------------------------
(* PlacementAPI: it sets up its database itself, and registers the service *)
(* as well as its endpoints.  How it treats accounts and credentials that  *)
(* change is modelled in PeerOperators.                                    *)

PlacementConditions == {"DB", "DBSync", "CreateService", "Input", "ServiceConfig",
    "Deployment", "KeystoneService", "KeystoneEndpoint", "NetworkAttachments", "TLSInput"}
PlacementConfig == <<Step("make", "none", "ServiceConfig", "retry", {})>>
PlacementInputs ==
    <<Need("secret", "Input", "retry", {"Input"}),
      Need("account", "DB", "retry", {"DB"})>>
    \o PlacementConfig
    \o <<Need("ca", "TLSInput", "wait", {}),
         Need("cert", "TLSInput", "wait", {"TLSInput", "ServiceConfig"}),
         Need("nad", "NetworkAttachments", "retry", {})>>
PlacementExposure == Expose
PlacementDBSync == <<Do("dbSync")>>
PlacementDeployment == Deploy
PlacementEndpoint == <<Make("KeystoneService"), Do("endpoint")>>
PlacementSteps == PlacementInputs \o PlacementExposure \o PlacementDBSync
    \o PlacementDeployment \o <<Do("whenDeployed")>> \o PlacementEndpoint
PlacementDeletion == <<Do("dropTopology"), Do("dropEndpoint"), Do("dropFinalizer")>>
PlacementWatches == {"secret", "ca", "cert", "topology", "address"}
PlacementMounts == {"ca", "cert"}

-----------------------------------------------------------------------------
(* CyborgAPI and CyborgConductor: their observed generation is set by the  *)
(* last step only.                                                         *)

CyborgAPIConditions == {"Input", "TLSInput", "ServiceConfig", "Deployment",
    "CreateService", "KeystoneEndpoint"}
CyborgAPIConfig == <<Make("ServiceConfig")>>
CyborgAPIInputs ==
    <<Need("secret", "Input", "retry", {"Input"}),
      Need("ca", "TLSInput", "wait", {}),
      Need("cert", "TLSInput", "wait", {"TLSInput"})>> \o CyborgAPIConfig
CyborgAPIExposure == Expose
CyborgAPIEndpoint == <<Do("endpoint")>>
CyborgAPISteps == CyborgAPIInputs \o Deploy \o <<Do("ifDeployed")>>
    \o CyborgAPIExposure \o CyborgAPIEndpoint \o <<Do("observe")>>
CyborgAPIDeletion == <<Do("dropEndpoint")>> \o LeaveAndGo
CyborgAPIWatches == {"secret", "ca", "cert", "topology", "address"}
CyborgAPIMounts == {"ca", "cert"}

CyborgConductorConditions == {"Input", "ServiceConfig", "Deployment"}
CyborgConductorConfig == <<Make("ServiceConfig")>>
CyborgConductorSteps ==
    <<Need("secret", "Input", "retry", {"Input"})>>
    \o CyborgConductorConfig \o Deploy \o <<Do("observe")>>
CyborgConductorDeletion == LeaveAndGo
CyborgConductorWatches == {"secret", "ca", "topology"}
CyborgConductorMounts == {"ca"}

-----------------------------------------------------------------------------
(* The table.  Whoever holds a Memcached watches it too. *)

ByKind(api, scheduler, conductor, metadata, proxy, compute, placement, cyborgAPI,
       cyborgConductor) ==
    [k \in Kinds |->
        CASE k = "NovaAPI" -> api
          [] k = "NovaScheduler" -> scheduler
          [] k = "NovaConductor" -> conductor
          [] k = "NovaMetadata" -> metadata
          [] k = "NovaNoVNCProxy" -> proxy
          [] k = "NovaCompute" -> compute
          [] k = "PlacementAPI" -> placement
          [] k = "CyborgAPI" -> cyborgAPI
          [] k = "CyborgConductor" -> cyborgConductor]

Steps == ByKind(APISteps, SchedulerSteps, ConductorSteps, MetadataSteps,
    ProxySteps, ComputeSteps, PlacementSteps, CyborgAPISteps, CyborgConductorSteps)
Deletion == ByKind(APIDeletion, SchedulerDeletion, ConductorDeletion, MetadataDeletion,
    ProxyDeletion, ComputeDeletion, PlacementDeletion, CyborgAPIDeletion,
    CyborgConductorDeletion)
InitConditions == ByKind(APIConditions, SchedulerConditions, ConductorConditions,
    MetadataConditions, ProxyConditions, ComputeConditions, PlacementConditions,
    CyborgAPIConditions, CyborgConductorConditions)
Watches == ByKind(APIWatches, SchedulerWatches, ConductorWatches, MetadataWatches,
    ProxyWatches, ComputeWatches, PlacementWatches, CyborgAPIWatches,
    CyborgConductorWatches)
Mounts == ByKind(APIMounts, SchedulerMounts, ConductorMounts, MetadataMounts,
    ProxyMounts, ComputeMounts, PlacementMounts, CyborgAPIMounts, CyborgConductorMounts)

Does(k, op) == \E i \in DOMAIN Steps[k] : Steps[k][i].op = op
HoldsMemcached(k) == Does(k, "holdMemcached")
HasEndpoint(k) == Does(k, "endpoint")
Registers(k) == Does(k, "cleanRecords")
Needed(k) ==
    { Steps[k][i].input : i \in { j \in DOMAIN Steps[k] : Steps[k][j].op = "need" } }
    \cup Mounts[k] \cup (IF HoldsMemcached(k) THEN {"memcached"} ELSE {})
OwnsFinalizer(k) == k # "NovaCompute"
=============================================================================
