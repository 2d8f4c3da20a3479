# A TLA+ verification project for nova-operator

The nova-operator is a Kubernetes operator: a set of controllers that bring
OpenStack Nova (and, in the same binary, Placement and Cyborg) to the state a
user's custom resources (CRs) ask for.  No controller ever waits.  Each
`Reconcile` reads the world, makes some calls, records conditions and hashes in
the status of its CR, and returns; it runs again when something it watches
changes.  What is hard to get right is therefore not in any one function but
between them: a status that was written before the change it is now read as
confirming, a Secret that is rewritten after it was checked, a call that fails
half-way, an operator that restarts before the deferred status patch.

This directory holds TLA+ models of those parts, TLC configurations that check
them on small instances, and proofs, checked by TLAPS, of the main theorems.
`PROJECT.json` lists the runs, the definitions with the source lines they stand
for, the hazards and the findings.

## 1. Inventory

| Part | State it keeps | Operations | Talks to |
|---|---|---|---|
| Nova controller (`nova_controller.go`) | `Nova.Status`: conditions, RegisteredCells, DiscoveredCells, tracked secret names, AppliedInputSecretHash; annotations with the transport secret of each cell; input Secrets, job Secrets, consumer finalizers | one `Reconcile`, `reconcileDelete` | keystone, MariaDB and RabbitMQ CRs, NovaCell/NovaAPI/NovaScheduler/NovaMetadata CRs, nova-manage jobs |
| NovaCell controller (`novacell_controller.go`) | conditions, NovaComputesStatus, Hash, AppliedInputSecretHash | `Reconcile` | NovaConductor, NovaMetadata, NovaNoVNCProxy, NovaCompute CRs; reads its Secret through the cache |
| Service controllers (conductor, API, scheduler, metadata, noVNC proxy, compute) | conditions, Hash, ReadyCount, AppliedInputSecretHash, LastAppliedTopology | `Reconcile`, `reconcileDelete`, DB sync (conductor), DB purge (conductor), service cleanup (conductor, scheduler), exposure (API, metadata, proxy) | StatefulSets, Memcached and Topology finalizers, jobs |
| nova-manage jobs (`internal/nova/*.go`, `templates/nova/nova-manage/bin`) | rows of `nova_api.cell_mappings`, host mappings | map or update a cell, discover hosts, delete a cell | the API database |
| PlacementAPI controller (`placement/api_controller.go`) | conditions, Hash, ApplicationCredentialSecret, LastAppliedTopology; the configuration Secret, finalizers on account, database, credential, KeystoneService and KeystoneEndpoint | `Reconcile`, `reconcileDelete`, DB sync | MariaDB, keystone, Deployment |
| Cyborg controllers (`cyborg/*.go`) | conditions, Hash, ApplicationCredentialSecret, AppliedInputSecretHash; the Secret of its two CRs, the same finalizers but the endpoint's (CyborgAPI's) | `Reconcile`, `reconcileDelete`, DB sync | MariaDB, RabbitMQ, keystone, CyborgAPI and CyborgConductor CRs with their StatefulSets |
| Admission webhooks (`api/*/v1beta1/*_webhook.go`) | none | defaults, validation | API server |
| Shared helpers (`internal/common`) | none | Topology, Secrets, network attachments, watch mapping | API server |
| lib-common, mariadb-, infra-, keystone-operator | external | jobs, StatefulSets, secret finalizers; issue databases, transport URLs, credentials | |

Behaviour that is hard: child statuses that lag (every parent decides on
conditions and hashes its children wrote earlier); informer caches that lag;
statuses that are merge-patched against a copy that is out of date by then;
rolling updates, in which pods of an old template run beside new ones; status
that is patched only when a reconcile ends, while finalizers, Secrets, jobs and
CRs change at once; failing calls and restarts between any two of them; jobs
that mount a Secret long after it was judged; cells that leave the spec and
come back half-deleted.

What makes each part correct:

* *rotation*: the finalizer that keeps a credential from being revoked is on
  every secret a running pod uses, at every moment; superseded secrets are let
  go eventually;
* *cells*: the mapping in the API database never leads to something that does
  not exist or is not rolled out, the status tells the truth about the mapping,
  every cell of the spec gets mapped and every mapped cell that left it goes;
  deletion can be resumed from any point;
* *NovaCell*: applied means applied by all services of the cell, and a service
  that left the template goes;
* *services*: schema before pods; finalizers on Memcached, Topology and keystone
  objects are held while used and gone when the CR is; no CR waits for ever for
  something that has arrived; service records follow the pods;
* *Placement, Cyborg*: the account and the credential that a pod works with can
  not be deleted or revoked, a rotation ends, Ready is true of the pods;
* *deletion of a CR*: nothing it owned, or protected, is left.

## 2. Modules

| Module | What it is |
|---|---|
| `SecretRotation` | rotation of credentials through Nova, cells, services and pods |
| `CredentialLease` | what rotation promises: an abstract specification |
| `MCSecretRotation` | instances for TLC |
| `SecretRotationProofs` | theorems about `SecretRotation` |
| `CellLifecycle` | databases, NovaCell, mapping, discovery and deletion of cells |
| `CellLifecycleProofs` | theorems about `CellLifecycle` |
| `MCCellLifecycle` | instances for TLC |
| `ImageUpgrade` | a new container image from the Nova CR to the pods |
| `MCImageUpgrade` | instances for TLC |
| `ImageUpgradeProofs` | theorems about `ImageUpgrade` |
| `ReconcileSteps` | the shapes of a step of a reconcile |
| `ServiceKinds` | the nine controllers of services with pods, each as a sequence of steps |
| `ServiceLifecycle` | the life of their CRs, from the first reconcile to the end of their deletion |
| `MCServiceLifecycle` | instances for TLC |
| `ServiceLifecycleProofs` | theorems about `ServiceLifecycle` and the plans of `ServiceKinds` |
| `CellServices` | the NovaCell controller: its services, computes and compute config Secret |
| `CellServicesProofs` | theorems about `CellServices` |
| `PeerOperators` | Placement and Cyborg: accounts, credentials, schema, keystone, deletion |
| `PeerOperatorsProofs` | theorems about `PeerOperators` |

The first three models cut the same Nova controller along three questions (which
credential, which cell, which image).  Each keeps the order of the calls of
`Reconcile` and splits it where another actor can get in between for its
question; the rest of the reconcile is abstracted to a choice.

### SecretRotation

A reconcile of the Nova controller is split where another actor can get in
between: `NovaEnsureMQ` (credentials looked up, finalizers added),
`NovaEnsureCell` once per cell in the order of `orderedCellNames`,
`NovaEnsureTop` (cell0 gate, top-level Secret, API, scheduler, metadata),
`NovaRelease` once per kind of credential (`FinalizeSecretRotation`), `NovaPrune`
(`PruneSecretConsumerFinalizers`, one secret at a time) and `NovaPatch` (the
deferred patch).  Local variables of `Reconcile` are the variables `view`, `mem`,
`cell0Ready`, `allReady` and `pending`; `mem` is the status in memory and
`tracked` the one in the API server.  `NovaError` is any error return (the patch
still happens), `NovaCrash` a restart, a panic or a failing patch (it does not).

Contents of Secrets are functions from kinds of credentials to numbered names,
and a hash is the content it stands for: equal hash, equal content.  A unit is a
cell or `Top`, the group of top-level services.  `input` is a Secret in the API
server, `cache` the informer's copy of it; the Nova controller reads it uncached
(`APIReader`), the NovaCell and service controllers cached.  `template` and
`pods` are the StatefulSet: pods may be on several contents during a rolling
update.  `SvcReconcile` stands for the controllers of all services: they differ
in what they deploy, not in how input is read and confirmed.

Issuers are the environment: `Withdraw` and `PublishNew` replace a secret,
`PublishOld` goes back to an earlier one or to none: a step of `ToggleNext`, not
of `Next`, because what the rotation promises rests on secrets that are only
replaced by new ones.  `rotation_toggle` shows how it fails otherwise.

Left out here, because the property does not depend on it: databases, mapping
and discovery (a cell that is rolled out but not yet mapped only makes
`allReady` false more often), changes of CR specs during a rotation (generation
is always observed), removal of cells, disabling of services.

### CredentialLease

A credential is *held* while the finalizer is on it and *used* while a pod or
template is configured with it.  Workloads may move to what is held, and only
what nobody uses may be released.  `SecretRotation` implements it with
`held <- finalizers, used <- InUse`.

### CellLifecycle

A reconcile is `NovaStart` (spec read; databases and buses ensured),
`NovaEnsureCell` per cell (`ensureCell` with `ensureNovaManageJobSecret`,
`ensureCellMapped`, `ensureNovaComputeDiscover`), `NovaList` (cell0 gate, list of
NovaCells), `NovaDeleteJob` and `NovaDrop` per NovaCell that is not in the spec
(`ensureCellDeleted`), `NovaDeleted` and `NovaPatch`.  `NovaDrop` removes one
resource per step in the order of the code.  The configuration of a cell is a
version number.  A mapping job has an identity (`hash`) and the version its pod
`mounted`, which need not agree: the Secret may be rewritten in between.

`DoJob` is lib-common's: a job runs when its hash is not the recorded one, is
replaced when its hash differs, and is otherwise waited for.  A finished job
stays if `PreserveJobs`, and else may expire.

Abstractions: a NovaCell that is Ready with an input stays so until it deploys
another one (readiness that lapses is the subject of `SecretRotation` and
`ImageUpgrade`); the NovaCell controller is one step (`CellDeploys`); a cell that
comes back has its old configuration again unless `FreshConfig`, otherwise
configurations are not reused.  `MaxVersion` is a bound per cell.

### ImageUpgrade

The Nova controller is `NovaEnsureCell` once per cell (`ensureCell` up to the
readiness check) and `NovaEnsureTop` (cell0 gate, top-level services, deferred
`PatchInstance`); `CellReconcile` is the NovaCell controller; a conductor's
reconcile is `ConductorWaits` when the DB sync job has to be started, waited for or
looked at, and `ConductorRolls` when it goes on to the StatefulSet and the purge
cron job; `SvcRolls` stands for the other services and `SvcError` for every return
before something is deployed.  `Restart` is a restart of the manager or a panic: all
reconciles under way are lost.  The jobs and the pods are `ApiDbSync`, `DbSync`,
`DbSyncFails`, `PodStart` and `PodReplace`.

All controllers share one cache (`seen`), which catches up CR by CR
(`CacheSync`).  `CreateOrPatch` is `EnsureCR` for what it writes and `ReturnedCR`
for what its caller gets: the cached copy when that has the wanted spec already,
the answer of the API server when it was patched.  That difference is why a
parent must compare generations, and the properties fail when it does not.

A status is written as the code does it: the reconcile works on the copy it read at
the start (`Copy`), which the cache may have overtaken since (`CacheSync` keeps it
in `base`), and the deferred patch carries only what differs from that copy (`Merge`,
`Patched`): a field the reconcile leaves as it has read it stays what it is by then.
So a stale Ready can come to stand beside a new ObservedGeneration: the first
reconcile reads generation 1, not Ready; the parent changes the image; the first
reconcile patches Ready; the second one reads the copy of generation 2 that is still
not Ready, finds it not Ready, and patches the ObservedGeneration alone.  The
conditions are one list in the patch, which may differ though Ready is the same; then
all of it is written, and `Patched` allows both.  The step that reads is not a
step of its own: a reconcile that the cache has not overtaken works with what
`seen` is now.  What a service controller does to its StatefulSet, and what it finds
of the pods, is one step with the patch, because nobody else changes the
StatefulSet and pods only move towards it.

Two variables and a field are history, not in the code.  `founded` says of a report
that some reconcile has found the CR ready with the generation it stands beside,
from reports that were founded; `allFounded` is the same for the reconcile of Nova
under way; `misled` is the image that was last handed to the top-level services
behind a Ready of cell0 that is not founded.

Abstractions.  Images only grow, and as the spec of a CR changes with the image
only, the image is also the generation.  Input Secrets do not change, so the
comparison of applied hashes is implied by Ready (its absence is what
`SecretRotation` is about).  NovaCompute CRs, the
gate of the noVNC proxy inside a cell, and the removal of services are left out.
Whether a ready cell is also mapped is a choice (`mapped`).  Finished sync jobs
do not expire; a failed one is not retried, as in the code.

### ServiceKinds and ServiceLifecycle

The controllers of services are written alike: the same entry, the same deferred
patch, and a fixed order of steps any of which may return early.
`ReconcileSteps` has the shapes: `Need` (something of others that may be missing,
with the condition it turns False and whether the reconcile is retried or only
waits for an event), `Make` (an object that is created or updated), `Do` (a step
with a meaning of its own).  `ServiceKinds` gives for each kind its conditions,
its steps in the order of its `Reconcile`, its deletion, what its
`SetupWithManager` watches and what its pods mount.  The differences between the
kinds are all there: which ones leave MemcachedReady out of their initial
conditions, which ones drop an error, that NovaCompute has no finalizer of its
own, that NovaConductor removes its own finalizer before it releases the
Topology.

`ServiceLifecycle` gives the steps their meaning.  `Begin` takes a request out of
the work queue and reads the CR; each step is an action on `local`, the copy in
memory; `Patch` writes finalizers and status and lets a CR in deletion go with
its last finalizer.  `Wake` is the watch list of the kind: an event that nobody
watches queues nothing.  `local.fresh` says whether the generation that is being
recorded is still the current one.  The environment is `Edit`, `Delete`,
`DeleteMemcached`, `DeleteTopology`, `Arrives` (a missing input), `RollOut`,
`JobDone`, `EndpointReady`; the faults are a failing call, a failing read whose
error the code drops, a failing cleanup whose error is only logged, a lost patch
and a restart.

A finalizer on the Memcached is named after the kind, so `memcached.fins` is a set
of kinds and shared by the CRs of a kind; one on a Topology names the CR.
`Deployments` says what there may be to begin with: the kind of each CR, which of
them exist, and how many inputs, edits and faults.

Abstractions: contents and hashes are the subject of the other models; all pods of a
StatefulSet change at once (`RollOut`), as only their records and their template
matter here; reads go to the API server.  With them the status that a reconcile has
read is the one it patches (no other one of that CR runs meanwhile), so the merge
patch writes what a whole one would; what it does after a stale read is the subject
of `ImageUpgrade`.

### CellServices

The NovaCell controller with the same frame (`Begin`, steps of `CellSteps`,
`Patch`), about what the other models take for granted of it: that a service
that is switched off goes and one that is switched on again comes back, that a
user's CR the cell has seen under one of its names is neither adopted nor deleted,
that computes get the URL of a proxy only when the proxy has rolled it out, and that
NovaComputesStatus, the only record of the computes, does not forget one.

The `Get` that looks for the owner and the write that follows are two calls of the
code and two steps here; `local.turn` names the CR that has been looked at and not
yet written.  `LookAt` is the `Get` of the metadata service and the proxy
(`ensureConductor` does not look); then comes `EnsureService`, `CreateOrPatch` and
what is made of its answer, or `DropService`, the deletion of a service that is
switched off.  `RefuseService` is the error return when the CR is not the cell's,
`SkipService` the deletion that finds nothing, or nothing of the cell's.
`LookAtObsolete` and `ForgetCompute`, `LookAtCompute` and `EnsureCompute` are one
iteration of the two loops over computes, whose order is that of a Go map, so any.
`Written` writes whatever it finds under the name, and makes it the cell's: a CR
that a user creates between the two steps is overwritten and gets an owner, or is
deleted.  `taken`, which is history, names the CRs where that has happened or may
still happen.  `ProxyURL` is the gate on the proxy, `Judge` everything between the
loop and `ensureComputeConfig`.  The controllers of the services are three actions
(`ServiceStarts`, `ServiceReady`, `ServiceGone`); their steps are those of
`ServiceLifecycle`.

A request is queued by what the cell owns (`EventOf`), so not by a CR of a user,
by its own status (`Patch`), by its spec and by its Secret.  The faults are any
call whose error is returned, a compute that cannot be read or written (noted in
its entry, not returned), a deletion that fails (the error is dropped), a lost
patch and a restart.  `lost` is not in the code: it names the CRs that a
fault made the cell lose sight of: computes, which `ComputesKnown` excepts, and
services whose deletion failed, which `CellReadyTellsTruth` excepts until the
cell has asked them again.

Abstractions: of a service's spec only the URL is there, any other field would
behave the same; a NovaCompute is gone when deleted, as it has no finalizer; an
adopted StatefulSet need not ever roll out (its selector is immutable), so
`CellSettles` excepts a taken name.  Reads go to the API server, and the status is
patched as a whole, which with such reads is the same: like every claim of this
module, what it says of Ready is weaker for a cell whose reconcile has worked with a
stale copy (`ImageUpgrade`).

### PeerOperators

The same frame with other questions, for the controllers of PlacementAPI and
Cyborg.  What a configuration is made of is a credential and an account
(`ConfigOf`), what a pod template is made for is a configuration and an image.
The configuration Secret is written in place and mounted: `pod[w].config` is what
the pod read when it started, which need not be what its template was made for
(`PodRestarts`).  A workload is represented by the pod that is replaced last, the
one every property is about.

Placement has its Deployment under its own hand (`Deploy`, `RolledOut`).  Cyborg
writes a Secret and two CRs (`EnsureChild`), whose controllers (`ChildReconciles`,
the two Cyborg kinds of `ServiceLifecycle` in one action) write the
configuration and the template and report; Cyborg judges them by a read through
the cache right after its own patch, so `EnsureChild` chooses whether the cache
has it already.

`New` is a CR that was just created, `Deployed` the state it reaches when nothing
else happens; starting there too lets rotations be checked with a small number of
steps (it was checked that `Deployed` is reached from `New`).

## 3. Runs

`rotation_*` check `MCSecretRotation`, `cells_*` check `MCCellLifecycle`,
`upgrade` checks `MCImageUpgrade`, `services*` check `MCServiceLifecycle`,
`cell_services` checks `CellServices`, `peers_*` check `PeerOperators`.

| Run | Instance | Shows |
|---|---|---|
| `rotation_api` | cell0, API bus issued three times, 1 fault, fair | `RotationInv`, `InUseProtected`, `AppliedMeansRolledOut`, `CurrentStaysHeld`, `LeaseSpec`, `TransportReleased` |
| `rotation_toggle` | cell0, API and notifications bus, `ToggleSpec` | finding: `InUseProtected` fails when the spec goes back to an earlier secret |
| `cells_deploy` | two cells, two configurations each, 2 faults (expiring jobs are among them), fair | `RowNotAhead`, `RegisteredIsMapped`, `CellsMapped` |
| `cells_remove` | two cells, computes, one removal, 1 fault, fair | `TypeOK`, `RowHasCell`, `NovaCellGoesLast`, `MappedCellsGo` |
| `cells_readded` | one removal, fair | finding: `CellsMapped` fails |
| `upgrade` | cell0 with its conductor, the API, two images, 1 fault (a reconcile that the cache overtakes is one), fair | `UpgradeInv`, `SchemaFirst`, `TopFollowsCell0`, `ReadyMeansRolledOut`, `UpgradeCompletes` |
| `services` | one CR of each of the nine kinds, one input missing, 2 edits, 1 fault; two conductors or two metadata services, 1 edit; two proxies, 1 edit, 1 fault; fair | `ServiceInv` (`TypeOK`, `ReadyMeansHeld`), `EndpointFollowsCR`, `MemcachedFollowsCR`, `TopologyFollowsCR`, `LiveRecordKept`, `BecomesReady`, `DeletionCompletes`, `StaleRecordsGo` |
| `services_records` | two conductors, the cell name of one in the host names of the other | finding: `LiveRecordKept` fails |
| `cell_services` | cell0 or another cell, new or deployed, a proxy to switch off, one compute, a user's CR, 2 URLs, 2 Secrets, deployed 2 edits and 1 fault, new 1 of either, fair | `CellInv` (`TypeOK`, `ComputesKnown`), `CellReadyTellsTruth`, `ProxyFirst`, `UsersOwnKept`, `CellSettles` |
| `peers_placement` | Placement new or deployed, 3 credentials, 2 accounts, 2 images, 3 edits, 1 fault, fair | `PeerInv` (`TypeOK`, `ReadyTellsTruth`), `AccountKept`, `CredentialKept`, `SchemaFirst`, `DeletionLeavesNothing`, `Settles` |
| `peers_cyborg` | Cyborg new or deployed, 3 credentials, 2 images, 2 edits or faults, fair | `PeerInv`, `CredentialKept`, `Settles`; schema and deletion are the steps of Placement |
| `peers_accounts` | Cyborg deployed, one change of account | finding: `CyborgAccountKept` fails |

Bounds.  `MaxIssued` 3 is the rapid rotation A, B, C: one secret in use, one on
its way, one wanted; a fourth adds another secret in the position of B.
`MaxFaults` 1 puts one error or crash at every point of every behaviour, and the
patch that is lost then is the one the next reconcile misses; several faults in a
row repeat it, and the proofs have no bound.  `cells_deploy` has two, so that a
fault may meet an expired job.  Two cells are enough for cell0 to gate another
one and for one cell to be judged while another one is not settled; a unit has
one service in TLC and any number in the proofs, and rotation of the application
credential, of the notifications bus and of two buses at once is left to the
proofs, which treat all kinds and all cells alike.  `MaxVersion` 2 is an old and
a new configuration, `MaxRemovals` 1 lets a cell leave and come back, which is
where its two lives meet.  `MaxImage` 2 is a deployment followed by an upgrade,
the two ways a schema and a StatefulSet come about; one overtaken reconcile is
enough for a merge patch to put a Ready beside a newer generation (without `founded` and
`misled` TLC violates the properties in this very instance); `upgrade` has one cell,
because each cell is handled alike and the proofs cover any number.

`services` has each kind alone, with 2 edits of which a missing input is one: the
least in which a change or deletion meets another one, or meets a CR that
still waits.  Services share only the Memcached and the Topology they refer to, and of
these the finalizer on the Memcached has the name of the kind.  So the run has two CRs
of a kind as well, as every deployment with cell0 and cell1 does: the conductor,
the metadata service and the proxy stand for the kinds that hold the Memcached, of
which the last also has a fault; one edit is the deletion of one of the two.
Two replicas are one to scale down to and one to lose.  In `peers_*`
three credentials are the rapid rotation, two accounts and two images an old and
a new one.  `NewEdits`, which bounds what happens to a CR that is still new, and
`MaxEvents`, which bounds edits and faults together, keep the runs in the
minutes; Cyborg has lower ones because its cache and its two CRs multiply the
states.  A rotation of a deployed CR, with a second one or a fault anywhere in it, is
within both.

`cell_services` has the proxy as the service that is switched off, because others
depend on it; the metadata service has the same code without that, and the run
passes with it in place of the proxy.  Two URLs and two Secrets are an old and a
new one, and one compute is enough because each is handled alone; 2 edits are a
service or template that goes and comes back, or that changes while a user acts,
who may do so between the look for the owner and the write.  A cell that is new has
one event, edit or fault (`NewEvents`).

No run uses symmetry: cells are ordered, and cell0 is special.  Deadlock is
checked where the controllers never stop (`rotation_*`, `cells_*`, `upgrade`);
the models with a work queue come to rest when nothing is queued and the user is
quiet, so there it is not: what must happen before is `BecomesReady`, `CellSettles` and
`Settles`.

Fairness is weak fairness of the whole Nova reconcile loop and of each other
controller, cache, rollout and job pod. It is what controller-runtime gives: a
change of a watched object queues a reconcile, an error is requeued with
backoff, a restart lists everything. In `ServiceLifecycle`, `CellServices` and
`PeerOperators` the queue is a variable, so that is not assumed but modelled:
only what is watched, an error, RequeueAfter or a restart queues a request, and
fairness is only that the queue is served, that other operators provide what is
missing, and that jobs and pods make progress. Nothing is assumed of the user,
of faults, or of an issuer beyond publishing a successor of what it withdrew. A
sync job run by `DbSync` comes to an end; that it may fail is not fair, and
`UpgradeCompletes` excepts it, as `CellsMapped` does for a mapping job.  In
`ServiceLifecycle` each CR's reconciles are fair on their own, because the queue
serves every CR, and so is each CR's progress of rollouts, jobs and endpoints taken
together.

## 4. Proofs

### Rotation

`SecretRotationProofs` proves, for all sets of cells and services, all bounds
and, except where noted, secrets that are not reused (`Spec`; `ToggleSpec` also
lets a user go back to an earlier one):

| Theorem | Property |
|---|---|
| `TypeCorrect` | `TypeOK`, of `Spec` and of `ToggleSpec` |
| `RotationInvariant` | `RotationInv`, the inductive invariant |
| `RotationSafe` | `InUseProtected` |
| `AppliedSafe` | `AppliedMeansRolledOut` |
| `RotationImplementsLease` | `LeaseSpec` |
| `CurrentHeld` | `CurrentStaysHeld`, of `Spec` and of `ToggleSpec` |

Assumption: `RotationConstants`, in `SecretRotation`; TLC evaluates it in every
run.

`InUseProtected` is not inductive: to know that a released secret is in no pod
one must know why `allReady` was true.  The argument is that numbers of secrets
only get *older* along the way from Nova to a pod (`InputsAreIssued`,
`CacheLags`, `RolloutLags`), and that reports on the way back are older still
(`ReportsLag`).  So when a parent finds that a child has applied exactly the
content it wants now (`Settled`), everything between the two is squeezed to that
content: no pod, template or cache of the unit can be on another one, and,
because the Nova controller is the only one who writes the Secret, none will be
until it has run again.  `ReadyMeansSettled` keeps this for the cells handled so
far, `ViewOK` and `ViewIsLatest` say that the names this reconcile works with
are protected and not older than what was handed out before.  Then what
`NovaRelease` and `NovaPrune` take away is in no content on its way, which is
`Protected`.  The order of numbers is also what going back breaks (`rotation_toggle`).

### Upgrade

`ImageUpgradeProofs` proves, for all lists of cells and services, numbers of
images and numbers of faults:

| Theorem | Property |
|---|---|
| `UpgradeTypes` | `TypeOK` |
| `UpgradeInvariant` | `UpgradeInv`, the inductive invariant |
| `SchemaSafe` | `SchemaFirst` |
| `TopSafe` | `TopFollowsCell0` |
| `ReadySafe` | `ReadyMeansRolledOut` |

Assumption: `UpgradeConstants`: the lists are lists, no two cells and no cell and
the top level share a service, and every cell has a conductor.

The properties speak of pods; what a controller decides on is a status two
levels up, perhaps out of a stale cache.  `ImagesGrow` orders what everyone
wants: pods behind template behind what the service controller has read behind
the CR behind what the cell has read, up to the Nova CR.  Because nobody hands on
an older image than before (`EnsureWants`), a rollout that has reached an image
never falls behind it (`RolloutsKept`).  That makes a report of readiness that was
found for an image a fact that cannot be undone: `ReportsTrue` says that each founded
report, in the API server, in the cache, in the copy of a reconcile or in a local
variable, is true of the image it stands beside.  `PatchReports` is the lemma about
the merge patch: what it writes is founded only if this reconcile has found it, or if
the report that it leaves alone was.  The
gate then gives `TopBehindCell0`, since the cell0 it looks at wants what this
reconcile wants and has observed it; for images beyond `misled` it was opened by a
founded report.  `SyncsRecorded` is the corresponding fact
for the schema: a job is never ahead of the CR, the schema never ahead of the
job, and whatever is recorded as synced, even in a stale copy, is.  All four are
needed at once: `ReportsTrue` of a cell uses that its services want no more than
the cell (`ImagesGrow`).  `SchemaFirst` has no exception: whether a schema is
migrated is decided by a hash and a job, and not by Ready.

What an invariant over the whole of the reports would say is false, and section 5
says how: Ready of a service, of a cell and of Nova can each be shown beside a
generation nobody has found ready.

The comparison of generations is used exactly once per level (`ReadyChild`,
`CellTurn`, `GateHolds`).  The check for cells with API access does not make it,
and there is no such lemma for it (section 5).

### NovaCell

`CellServicesProofs` proves, for any number of computes, URLs, Secrets, users and
faults and both kinds of cell:

| Theorem | Property |
|---|---|
| `ComputesAccounted` | `CellInv` |
| `UsersOwnSafe` | `UsersOwnKept` |
| `ProxyServesFirst` | `ProxyFirst` |
| `ReadyTellsTruth` | `CellReadyTellsTruth` |

Assumption: `CellServicesConstants`.

A reconcile is known by its position in `CellSteps`: `Left(i, j)` says that one of
those steps is next.  `Knows` (for `CellInv`) follows a compute through the three
places that can name it: the entries in the status, those in memory, and `lost`.
`LookedAt` (for `UsersOwnKept`) is what is known between the look and the write: a CR
that a reconcile has looked at and is about to write is not a user's, unless its name
is in `taken`.  The property is not the guard of a step, since any number of steps of
the user may come between the two.
`URLsGiven` (for `ProxyFirst`) says that a URL in `local` is that of a proxy which
still serves it, from the step that reads it to the ones that hand it on.

`ReadyInv` (for `CellReadyTellsTruth`) is a chain.  Secrets and URLs only get newer
(`SecretOrder`, `Copies`); what a service says of itself is true of it
(`ChildTrue`), and what it has been asked for is not newer than what the cell
knows (`ServicesFollow`).  `ServicesUpdated` and `Passed` say what each step has
left behind it, as long as it is behind: a service whose step was passed without
its condition turning False has applied the Secret of this reconcile.
`AppliedByAll` turns that into the hash of the whole cell, `EntriesTrue`, `Concluded`
and `ConfigTrue` into what the status says of computes, discovery and the compute
config, and `Reported` into the status of the CR.

The first attempt at this proof failed, for a good reason: the property was
false in instances larger than that of the run.  A service whose deletion fails
(the error is dropped, `novacell_controller.go:556`) outlives being switched off;
the cell then advances AppliedInputSecretHash without asking it, and when it is
switched on again it is still Ready with the old Secret, so that for a moment the
cell is Ready and applied, and one of its services is not.  The property now
excepts such a service (section 5), and is proved.

### Cells

`CellLifecycleProofs` proves, for all lists of cells, configurations, removals and
faults:

| Theorem | Property |
|---|---|
| `TypesCorrect` | `TypeOK` |
| `MappingLags` | `RowNotAhead`, until a cell is removed |
| `RegisteredLagsMapping` | `RegisteredIsMapped`, until a cell is removed |
| `MappedCellsServed` | `RowHasCell`, as long as `JobsMatchSpec` holds |
| `CellGoesLast` | `NovaCellGoesLast`, as long as `JobsMatchSpec` holds |

Assumption: `CellConstants`, which is types and bounds only: `PreserveJobs`, a field of
the Nova CR that is false by default, may be either, and cells are configured any
number of times.

The hypotheses are those under which the code keeps the promise, not those of
the proof.  The first two properties are checked by a run without removals and
fail after one: a cell that comes back brings its old row with it
(`cells_readded`).  `JobsMatchSpec` is what `ensureCellDeleted` takes for granted when it
goes by a delete job that is done: no mapping job is still under way for a cell that
has left the spec, and no cell of the spec has a delete job that is done.  It is a
condition on the behaviour, not on the constants, and neither half can be left out: TLC
violates `RowHasCell` with either one alone.  Without the first, a mapping job writes
the row after the delete job has taken it; without the second, a cell that is removed
again, with the same hash, finds the delete job of its former removal done and is
taken apart although it has a row.  Both are among the hazards
(`nova_controller.go:1072`, `830`).

`DeployInv` follows a configuration: the CR lags behind the user (`CRLags`), the job
Secret behind what the NovaCell has rolled out (`SecretLags`), the hash a job has and
the one it mounted behind the Secret (`JobLags`), and what is registered behind the
row (`RegisteredLags`).  `RemovalInv` follows a removal: the copies a reconcile works
with were real (`ViewsReal`) and had a backend (`BackendThere`), a cell whose delete
job is done has no row (`DeletedHasNoRow`), one that is being taken apart has
neither a row nor a job that may write one, for good (`DroppedForGood`), and where a
row is, or such a job, the cell is still there (`RowsServed`).  `DropsLast` is the step
that removes the NovaCell.

### Placement and Cyborg

`PeerOperatorsProofs` proves, for both operators and all numbers of credentials,
accounts, images, missing inputs, edits and faults:

| Theorem | Property |
|---|---|
| `ReadyIsTrue` | `PeerInv` |
| `AccountsAreKept` | `AccountKept` |
| `CredentialsAreKept` | `CredentialKept` |
| `SchemaComesFirst` | `SchemaFirst` |
| `NothingIsLeft` | `DeletionLeavesNothing` |

Assumption: `PeerConstants`.

What these properties need of a reconcile is not where it is but what it has
behind it and ahead of it.  `Ahead(op)` says that a step is still to come,
`Precedes` which steps never come after which, and `PlanInv` that what is left of
a reconcile keeps that order; the plans of the two operators are shown to have
it once, and from there on the proofs know the plans only by it.  `AheadBefore` and
`StepTaken` are the induction over a reconcile: a step that was ahead and no longer
is was taken, or the reconcile ends.

The invariant is `PeerProofInv`.  `PodsBehind` and `WritesBehind` order
configurations, by credential and by account: the template a pod was made for
behind what it has read, behind what is mounted, behind the Secret, behind the
copy of the spec (`CopyBehind`) and the spec.  So whatever has reached a spec
(`Reaches`) and is not beyond it is squeezed to it (`ReachedIsAll`).
`AppliedReached` and `ReadyReached` say who has reached what: the hashes that the
children report, also in the cache, those that Cyborg reports, and the workloads
whose condition is True.  That is both what `ReadyTellsTruth` says of a Ready CR and what
makes a release safe: when ReleaseCredential finds no pending condition, or
`releaseAccounts` has `rolledOut` behind it, everything a pod may read is of the
spec, whose own account and credential are not released.  `StepsHeld` says that
what a step is about to write is held already; the order in which Placement does
this is why `CredentialKept` needs its exception for a pod that restarts.
`CyborgAccountKept` fails (`peers_accounts`) at exactly this point: `releaseAccounts` of
Cyborg has no such step behind it.  `ImagesSynced` has the schema behind every image
that is deployed; `FinalizerFirst`, `DropsDeleted` and `Dropped` have nothing held
before the CR has its finalizer, and everything given back before it loses it.

### Services

`ServiceLifecycleProofs` proves, for any CRs of any of the nine kinds, any
Topologies, missing inputs, edits, deletions and faults:

| Theorem | Property |
|---|---|
| `TypesCorrect` | `TypeOK` |
| `EndpointGoesFirst` | `EndpointFollowsCR` |
| `MemcachedGoesFirst` | `MemcachedFollowsCR` |
| `TopologyGoesFirst` | `TopologyFollowsCR` |
| `ReadyHoldsAll` | `ServiceInv` |
| `RecordsOfPodsAreKept` | `LiveRecordKept`, if no host name contains the cell name of another CR of the kind |

Assumption: `ServiceConstants`.

The theorems are about any number of CRs of any kinds.  The finalizer on the
Memcached is named after the kind (`novaconductor_controller.go:810`), so the
deletion of one of two conductors takes it from the other, which is Ready.
`ReadyMeansHeld` does not exclude that: it says that the finalizer is there, or another
CR of the kind is in deletion or gone and this one has a request in the queue or a
reconcile under way that sees the change (`SharedReleased`).  That second part is
what the code does about it: every controller that holds the Memcached watches it
without a predicate (`novaconductor_controller.go:890`), and the reconcile that follows
turns MemcachedReady False or takes the finalizer again.  `LiveRecordKept` fails for
names that contain one another (`services_records`): `OwnHostNames` is what the code
takes for granted.  It is about `kind`, which never changes.

As for Placement and Cyborg, a reconcile is known by what is ahead of it.  The
first part of the module reduces the nine plans to that: `Table` says for each
kind which steps its plan and its deletion have (`MainOps`, `DropOps`), and that no
two of them come in an order that `Precedes` forbids.  That is where the
differences of the kinds enter the proofs; `NovaConductor`, for one, has no
`dropTopology` before `dropFinalizer`, and `TopologyFollowsCR` excepts it.  `StepLeaves`
and `StepAhead` are what any step of a reconcile does to the rest: which variables
only certain steps change, and that a step which was ahead and is not any more was
taken or the reconcile ends.  `SameKeeps` and `Others` carry what is known of one CR
over the steps of all the others.

The invariant is `ServiceProofInv`.  `CopyBehind`: the copy in memory is the CR
unless there has been an edit, and then nothing may be recorded as of this
generation.  `FinalizerFirst` and `DropsDeleted`: nothing is held before the CR has
its own finalizer, and only a CR in deletion lets go.  `Dropped`: once the own
finalizer is out of the copy, or about to be taken out, each of the others is
released or its step is still ahead.  `StepsHeld`: a condition that is True in
memory is true of the object, whatever other actors did since; `ReadyHeld` is
what becomes of it in the status.  `OneByOne` (one reconcile at a time for each
kind) is needed because two conductors share a finalizer: without it one could
take it again between the release of the other and its last patch.  `SharedInv` is the
rest of the argument for the Memcached: `SharedStays` (a CR that has begun to go
does not come back), `QueueKept` (only the start of its own reconcile takes a CR from the queue) and
`RequestKept` (a reconcile that ends without its patch is requested again).

### What is only model-checked

Liveness (`TransportReleased`, `CellsMapped`, `MappedCellsGo`,
`UpgradeCompletes`, `BecomesReady`, `DeletionCompletes`, `StaleRecordsGo`,
`CellSettles`, `Settles`): fairness and ENABLED are out of the prover's reach.
Outside the hypotheses of their theorems, `RowHasCell` and `NovaCellGoesLast` are
checked by TLC in `cells_remove`, for its bounds.  That `JobsMatchSpec` cannot be weakened
was checked by TLC, without a run of its own.  That deployed
states of `PeerOperators` are reachable was checked by TLC, and not proved.

## 5. Findings

1. `rotation_toggle`: the comparison of hashes identifies a content, not a
   rollout.  A unit that goes back to a content it has applied before is taken
   for settled before it has seen the change, and the secret in between is
   released under running pods.
2. `cells_readded`: `RegisteredCells` survives the row it stands for.
3. `services_records`: service records are matched to a cell by substring of the
   host name, so the cleanup of cell1 deletes records of cell10 whose pods run.
4. `peers_accounts`: Cyborg takes the finalizer off the previous database account
   in the reconcile that hands the new one to its CRs, which have not rolled it
   out; Placement waits for its deployment.

Observations made while modelling, without a run of their own:

* An application credential of Nova that is superseded twice in a row keeps its
  finalizer for ever: only transport secrets are pruned
  (`nova_controller.go:935-971`), the comment at 303-305 says it is removed later.
* `nova_controller.go:1567`: `ensureCell` starts host discovery without looking at
  the status of the mapping, although the comment at 1566 says when "mapping is
  done"; a discovery that is first finds nothing and is recorded for good.  It
  also replaces the status of the mapping by that of the discovery, so a cell can
  be counted as CellReady while it is being mapped; `RegisteredIsMapped`
  therefore compares the row with what is registered, not with what is wanted.
* A status is merge-patched against the copy read at the start
  (`novaapi_controller.go:138-162`; all controllers alike), so a Ready found for one
  generation can stand beside the ObservedGeneration of the next one: the steps are
  under `ImageUpgrade` in section 2.  The parent compares generations and takes that
  Ready over (`nova_controller.go:1717`, `novacell_controller.go:414`): a cell and the
  Nova CR can be Ready at a generation whose pods are still old, the gate on cell0
  can open before its conductors run the new image, and "the cell does not treat a
  still rolling out NoVNCProxy as Ready" (`novacell_controller.go:520-526`) is not
  guaranteed.  The next reconcile that reads a current copy puts it right, as the
  StatefulSet still changes; `UpgradeCompletes` holds without exception for it.
  The steps are rare: two reconciles of one CR, of which the second one reads a
  copy that the cache has caught up with the spec of but not with the status.
* `nova_controller.go:657`: a cell with API access is let through when cell0 is
  Ready for its old spec, and is upgraded before the API database is.
* `nova_controller.go:1133` tests the error of deleting the NovaCell CR the wrong
  way round: any error but NotFound counts as success, so `NovaCellsDeletion` is
  True while the CR is still there.  `NovaDrop` models it; the next reconcile
  tries again.
* `nova_controller.go:1055` rewrites the job Secret of cell0 when another cell is
  deleted, before cell0 has rolled out its configuration, and `:826` passes the
  host of the cell0 database as that of the API database.
* When cell0 is reconfigured during a deletion, the delete job gets a new hash and
  runs again on a row that is gone, fails, and the deletion is stuck.
* A cell that is added again while its delete job runs loses its row to it
  (finding 2 is the shortest such path).
* Without `PreserveJobs` a finished job may expire before its end is recorded and
  is then run again; `cells_deploy` counts that among the faults, as nothing in
  the code ends it if it happened every time.
* `novaconductor_controller.go:820` removes the own finalizer before the Topology
  is released at 826; when that fails the conductor goes and the Topology keeps
  its finalizer.  The other controllers have the order of `LeaveAndGo`;
  `TopologyFollowsCR` excludes the conductor.
* `novacompute_controller.go` never adds a finalizer of its own, so its
  `reconcileDelete` (518-537) is not reached and the Topology of a deleted
  NovaCompute keeps its finalizer.
* `novacell_controller.go:713` tests the error of deleting a NovaCompute the wrong
  way round: a failed deletion counts as done, and with its entry the cell loses
  all it knows of the compute, which stays for ever.  The same becomes of one that
  was created in a reconcile whose status patch is lost, if its template is gone
  before the next reconcile.  `ComputesKnown` excepts both.
* AppliedInputSecretHash of a NovaCell need not hold for "all of this cell's child
  services" (`novacell_types.go:284-289`): a metadata service or proxy whose
  deletion failed is not asked when the Secret changes, and is Ready with the old
  one when it is switched on again before its controller has run.
* The errors of deleting the metadata service or the proxy of a cell are dropped
  (`common.go:321`, `novacell_controller.go:555`).  One such failure is masked, as
  the patch of the status queues another reconcile; two in a row leave a service
  that is switched off running until something else happens.
* The comment at `novacell_controller.go:731-739` says that after a human has
  deleted a NovaCompute that is in the way "Nova will create its own".  An error of
  a compute is noted in the status and not returned, and the CR of the user is not
  owned, so nothing makes the cell look again; `CellSettles` excepts a compute
  whose last entry is an error.  For the other services the error is returned.
* The look for the owner and the write that follows are two calls
  (`novacell_controller.go:454` and `488`, `586` and `619`, `743` and `779`; the
  deletions alike, by name): a CR that a user creates in between is overwritten and
  gets an owner, or is deleted, against "If it is not created by us, we don't touch
  it" (`:459`, `548`, `591`, `704`, `756`) and "the cell cannot simply start adopting an
  existing NoVNCProxy" (`:446`).  `ensureConductor` does not look at all.
  `UsersOwnKept` excepts the names where it has happened.
* The finalizer on the Memcached is named after the kind: the first CR of a kind
  that is deleted takes it away from the others, which are Ready
  (`novaconductor_controller.go:810`; the comment where it is added, `:270`, says
  "to prevent it from being deleted now that we're using it").  As all of them watch the Memcached
  they reconcile again and take it back; a Memcached that is deleted just then goes.
  The deletion of scheduler, conductor and others drops the error of reading the
  Memcached, and then leaves the finalizer behind.
* A Topology that was taken in a reconcile whose status patch is lost is not in
  LastAppliedTopology; if the reference is changed before the next reconcile, it
  keeps its finalizer.
* Placement writes the new configuration, and returns once because its hash is
  new, before it holds the credential in it (`api_controller.go:275`, `358`, `368`):
  a pod that restarts in between reads a credential that can be revoked.  It also
  tracks one credential only, so B of a rapid rotation A, B, C keeps its
  finalizer, after the deletion of the CR as well; Cyborg prunes at deletion only.
* `ensureCyborgAPI` and `ensureConductor` read their CR back through the cache
  after having patched it.  If the cache has not seen the patch the old CR, Ready
  for the old image, is judged; `expectedInputSecretHash` keeps that from
  happening with a new configuration.
* The deletion paths of Placement and Cyborg take the finalizers off account and
  credential while the pods still run.

## 6. Plan

Done: 1. `SecretRotation` with its lease and proofs; 2. `CellLifecycle`;
3. `ImageUpgrade` with proofs; 4. `ServiceLifecycle`; 5. `PeerOperators`;
6. `CellServices`.

Proofs: 1. `SecretRotation`; 2. `ImageUpgrade`; 3. `CellServices`; 4. `CellLifecycle`;
5. `PeerOperators`; 6. `ServiceLifecycle`.  Every invariant that a passing run checks
is the property of a theorem.

### Not modelled

* `reconcileDelete` of Nova, its keystone service and RBAC, and the finalizers of
  its database accounts.
* The service controllers inside `SecretRotation` and `ImageUpgrade` are the
  parts those questions need; `ServiceLifecycle` has all their steps, but no
  contents.  The three are not composed in one model: the product has too many
  states, and what they share (the StatefulSet, its readiness) is abstracted in
  each to what the others do not look at.
* Admission webhooks: defaults and validations of one object, without state;
  where one of them restricts what the controllers can meet (cell0 is required)
  it is a guard of the user's actions.
* Rendered configuration text, generated deep copies, wiring in `cmd/main.go`.
