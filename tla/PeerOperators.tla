------------------------------ MODULE PeerOperators ------------------------------
(***************************************************************************)
(* Placement and Cyborg, the two operators that share the binary with that *)
(* of Nova: what their top-level controllers hold for the pods below them. *)
(* Both put finalizers on the application credential and on the database   *)
(* account they are configured with, take them off the ones they have left *)
(* behind, sync their database before the pods run a new image, register   *)
(* in keystone, and give all of that back when their CR is deleted.        *)
(*                                                                         *)
(* They differ in the order of things.  Placement has its Deployment under *)
(* its own hand; Cyborg writes a Secret for two CRs, whose controllers     *)
(* write the configuration of the pods, and judges them by what they       *)
(* report, as far as its cache has seen it.                                *)
(*                                                                         *)
(* Configurations are written in place: a pod that starts reads what is in *)
(* the Secret by then, whatever its template was made for.                 *)
(***************************************************************************)
EXTENDS Naturals, Sequences, FiniteSets, ReconcileSteps

CONSTANTS
    KindChoices,  \* the operators that are looked at
    FirstCreds,   \* the credentials a new CR may refer to
    MaxCred,      \* bound: application credentials; 0 stands for none
    MaxAccount,   \* bound: database accounts
    MaxImage,     \* bound: container images
    MaxMissing,   \* bound: inputs that are missing at first
    MaxEdits,     \* bound: inputs missing at first, edits and deletions
    NewEdits,     \* bound: how many of them when the CR is new
    Faults,       \* the faults that may happen
    MaxFaults,    \* bound: how many of them
    MaxEvents     \* bound: edits and faults together

PeerKinds == {"PlacementAPI", "Cyborg"}
Children == {"CyborgAPI", "CyborgConductor"}
Workloads == {"PlacementAPI"} \cup Children
FaultKinds == {"call", "child", "patch", "restart"}

ASSUME PeerConstants ==
    /\ KindChoices \subseteq PeerKinds
    /\ FirstCreds \subseteq 0 .. MaxCred
    /\ {MaxCred, MaxMissing, MaxEdits, NewEdits, MaxFaults, MaxEvents} \subseteq Nat
    /\ {MaxAccount, MaxImage} \subseteq Nat \ {0}
    /\ MaxMissing <= NewEdits /\ NewEdits <= MaxEdits
    /\ Faults \subseteq FaultKinds

NoCred == 0
Creds == 1 .. MaxCred
Accounts == 1 .. MaxAccount
Images == 1 .. MaxImage

(* What a configuration is made from, and what a pod template is made for. *)
Configs == [cred : Creds \cup {NoCred}, account : Accounts]
NoConfig == [cred |-> NoCred, account |-> 0]
Templates == [config : Configs, image : Images]
NoTemplate == [config |-> NoConfig, image |-> 0]
NoPod == [template |-> NoTemplate, config |-> NoConfig]
Specs == [cred : Creds \cup {NoCred}, account : Accounts, image : Images]
ConfigOf(spec) == [cred |-> spec.cred, account |-> spec.account]
TemplateOf(config, image) == [config |-> config, image |-> image]

-----------------------------------------------------------------------------
(* The two controllers, as sequences of steps. *)

Inputs == {"secret", "database", "credential", "bus", "keystone", "cert", "address"}

PlacementConditions == {"DB", "DBSync", "CreateService", "Input", "ServiceConfig",
    "PlacementAPI", "KeystoneService", "KeystoneEndpoint", "TLSInput"}
PlacementDB == <<Do("account"), Need("database", "DB", "retry", {"DB"})>>
PlacementConfig ==
    <<Need("keystone", "ServiceConfig", "retry", {}), Need("credential", "Input", "retry", {}),
      Do("writeConfig")>>
PlacementInputs ==
    <<Need("secret", "Input", "retry", {"Input"})>> \o PlacementDB \o PlacementConfig
    \o <<Need("cert", "TLSInput", "wait", {"TLSInput"}), Do("recordHash"),
         Do("holdCredential")>>
PlacementDeployment == <<Do("deploy"), Do("rolledOut"), Do("releaseCredential")>>
PlacementKeystone == <<Do("keystoneService"), Do("keystoneEndpoint")>>
PlacementSteps == PlacementInputs
    \o <<Need("address", "CreateService", "wait", {"CreateService"}), Do("dbSync")>>
    \o PlacementDeployment \o PlacementKeystone
    \o <<Do("releaseAccounts"), Do("releaseCredential")>>
PlacementDeletion ==
    <<Do("dropDatabase"), Do("dropEndpoint"), Do("dropService"), Do("dropCredentials"),
      Do("dropFinalizer")>>

CyborgConditions == {"DB", "Bus", "Input", "KeystoneService", "ServiceConfig", "DBSync",
    "CyborgAPI", "CyborgConductor", "AgentConfig"}
CyborgDB == <<Do("account"), Need("database", "DB", "retry", {"DB"})>>
CyborgBus == <<Need("bus", "Bus", "retry", {"Bus"})>>
CyborgInputs == CyborgDB \o CyborgBus
    \o <<Need("secret", "Input", "retry", {}), Need("credential", "Input", "retry", {}),
         Do("holdCredential"), Need("keystone", "Input", "retry", {})>>
CyborgSecret == <<Do("writeConfig")>>
CyborgAgentConfig == <<Make("AgentConfig")>>
CyborgKeystone == <<Do("keystoneService")>>
CyborgDBSync == <<Make("ServiceConfig"), Do("dbSync")>>
CyborgChildren == <<Do("CyborgAPI"), Do("CyborgConductor")>>
CyborgSteps == CyborgInputs \o CyborgSecret \o CyborgAgentConfig \o CyborgKeystone
    \o CyborgDBSync \o CyborgChildren \o <<Do("releaseAccounts"), Do("releaseCredential")>>
CyborgDeletion ==
    <<Do("dropDatabase"), Do("dropService"), Do("dropCredentials"), Do("dropFinalizer")>>

Steps == [PlacementAPI |-> PlacementSteps, Cyborg |-> CyborgSteps]
Deletion == [PlacementAPI |-> PlacementDeletion, Cyborg |-> CyborgDeletion]
Conditions == [PlacementAPI |-> PlacementConditions, Cyborg |-> CyborgConditions]
WorkloadsOf == [PlacementAPI |-> {"PlacementAPI"}, Cyborg |-> Children]
Needed(k) ==
    { Steps[k][i].input : i \in { j \in DOMAIN Steps[k] : Steps[k][j].op = "need" } }

-----------------------------------------------------------------------------
VARIABLES
    kind,      \* which of the two
    cr,        \* [life, fin, spec]
    status,    \* [pending, cred, hash, synced, applied, seen], last patched: the
               \* conditions that are not True, ApplicationCredentialSecret, the
               \* input hash, the image of the recorded DB sync job,
               \* AppliedInputSecretHash, is ObservedGeneration the generation
    todo,      \* the steps left of a reconcile, or none
    local,     \* the copy of the CR that it works on
    queued,    \* is there a request in the work queue?
    inputs,    \* the inputs that exist
    credFins,  \* credentials with the consumer finalizer
    accFins,   \* accounts with the finalizer
    dbFin,     \* is the finalizer on the MariaDBDatabase?
    keystone,  \* KeystoneService and KeystoneEndpoint: [fin, ready]
    job,       \* the DB sync job: [image, done]
    schema,    \* the image the database was last synced for
    secret,    \* Cyborg: the Secret of its two CRs
    child,     \* child[w]: their CRs [image, seen, applied, ready]
    cached,    \* cached[w]: as the cache of the operator has them
    mounted,   \* mounted[w]: the configuration that pods mount
    template,  \* template[w]: the pod template
    pod,       \* pod[w]: the pod that is replaced last, by its template and the
               \* configuration that it has read
    edits, faults

crVars == <<kind, cr, status>>
workVars == <<todo, local, queued>>
finVars == <<credFins, accFins, dbFin, keystone>>
dbVars == <<job, schema>>
childVars == <<secret, child, cached>>
podVars == <<mounted, template, pod>>
boundVars == <<edits, faults>>
vars == <<crVars, workVars, inputs, finVars, dbVars, childVars, podVars, boundVars>>

NoJob == [image |-> 0, done |-> FALSE]
NoChild == [image |-> 0, seen |-> 0, applied |-> NoConfig, ready |-> FALSE]
KeystoneObjects == {"service", "endpoint"}
NoObject == [fin |-> FALSE, ready |-> FALSE]
Idle == [spec |-> [cred |-> NoCred, account |-> 1, image |-> 1], fin |-> FALSE,
         pending |-> {}, cred |-> NoCred, hash |-> NoConfig, synced |-> 0,
         applied |-> NoConfig, fresh |-> FALSE]

(* A CR that was just created; some of its inputs may be missing.          *)
New ==
    /\ \E c \in FirstCreds :
          cr = [life |-> "live", fin |-> FALSE,
                spec |-> [cred |-> c, account |-> 1, image |-> 1]]
    /\ status = [pending |-> {"Ready"}, cred |-> NoCred, hash |-> NoConfig, synced |-> 0,
                 applied |-> NoConfig, seen |-> FALSE]
    /\ queued = TRUE
    /\ \E missing \in SUBSET Needed(kind) :
          /\ Cardinality(missing) <= MaxMissing
          /\ inputs = Inputs \ missing
          /\ edits = MaxEdits - NewEdits + Cardinality(missing)
    /\ credFins = {} /\ accFins = {} /\ dbFin = FALSE
    /\ keystone = [service |-> NoObject, endpoint |-> NoObject]
    /\ job = NoJob
    /\ schema = 0
    /\ secret = NoConfig
    /\ child = [w \in Children |-> NoChild]
    /\ mounted = [w \in Workloads |-> NoConfig]
    /\ template = [w \in Workloads |-> NoTemplate]
    /\ pod = [w \in Workloads |-> NoPod]

(* What becomes of it when nothing else happens.                           *)
Deployed ==
    \E c \in FirstCreds :
    LET config == [cred |-> c, account |-> 1]
        isCyborg == kind = "Cyborg"
        ready == [fin |-> TRUE, ready |-> TRUE] IN
    /\ cr = [life |-> "live", fin |-> TRUE,
             spec |-> [cred |-> c, account |-> 1, image |-> 1]]
    /\ status = [pending |-> {}, cred |-> c, hash |-> IF isCyborg THEN NoConfig ELSE config,
                 synced |-> 1, applied |-> IF isCyborg THEN config ELSE NoConfig,
                 seen |-> TRUE]
    /\ queued = FALSE
    /\ inputs = Inputs
    /\ edits = 0
    /\ credFins = {c} \ {NoCred} /\ accFins = {1} /\ dbFin = TRUE
    /\ keystone = [service |-> ready, endpoint |-> IF isCyborg THEN NoObject ELSE ready]
    /\ job = [image |-> 1, done |-> TRUE]
    /\ schema = 1
    /\ secret = IF isCyborg THEN config ELSE NoConfig
    /\ child = [w \in Children |-> IF ~isCyborg THEN NoChild
                  ELSE [image |-> 1, seen |-> 1, applied |-> config, ready |-> TRUE]]
    /\ mounted = [w \in Workloads |-> IF w \in WorkloadsOf[kind] THEN config ELSE NoConfig]
    /\ template = [w \in Workloads |->
                     IF w \in WorkloadsOf[kind] THEN TemplateOf(config, 1) ELSE NoTemplate]
    /\ pod = [w \in Workloads |-> [template |-> template[w], config |-> mounted[w]]]

Init ==
    /\ kind \in KindChoices
    /\ todo = <<>>
    /\ local = Idle
    /\ faults = 0
    /\ New \/ Deployed
    /\ cached = child

-----------------------------------------------------------------------------
At(op) == todo # <<>> /\ Head(todo).op = op
GoOn == todo' = Tail(todo)
End == todo' = Save
MarkTrue(conds) == local' = [local EXCEPT !.pending = @ \ conds]
MarkFalse(cond) == local' = [local EXCEPT !.pending = @ \cup {cond}]
(* A request after an error or RequeueAfter, and one after a watched event. *)
Retry == queued' = TRUE
Wake == queued' = (queued \/ cr.life # "gone")

-----------------------------------------------------------------------------
(* The user, the other operators, and the pods. *)

MayEdit == edits < MaxEdits /\ edits + faults < MaxEvents /\ edits' = edits + 1

(* A new credential or account is one that was not used before: rotation   *)
(* to an earlier one is modelled in SecretRotation.                        *)
Edit ==
    /\ cr.life = "live"
    /\ MayEdit
    /\ \/ cr.spec.cred < MaxCred /\ cr' = [cr EXCEPT !.spec.cred = @ + 1]
       \/ cr.spec.account < MaxAccount /\ cr' = [cr EXCEPT !.spec.account = @ + 1]
       \/ cr.spec.image < MaxImage /\ cr' = [cr EXCEPT !.spec.image = @ + 1]
    /\ status' = [status EXCEPT !.seen = FALSE]
    /\ local' = [local EXCEPT !.fresh = FALSE]
    /\ Wake
    /\ UNCHANGED <<kind, todo, inputs, finVars, dbVars, childVars, podVars, faults>>

(* The CR goes, and its dependents with it. *)
Collect ==
    /\ child' = [w \in Children |-> NoChild]
    /\ template' = [w \in Workloads |-> NoTemplate]
    /\ pod' = [w \in Workloads |-> NoPod]

Delete ==
    /\ cr.life = "live"
    /\ MayEdit
    /\ cr' = [cr EXCEPT !.life = IF cr.fin THEN "deleting" ELSE "gone"]
    /\ IF cr.fin THEN Wake /\ UNCHANGED <<child, template, pod>>
       ELSE Collect /\ UNCHANGED queued
    /\ UNCHANGED <<kind, status, todo, local, inputs, finVars, dbVars, secret, cached,
                   mounted, faults>>

Arrives(i) ==
    /\ i \notin inputs
    /\ inputs' = inputs \cup {i}
    /\ Wake
    /\ UNCHANGED <<crVars, todo, local, finVars, dbVars, childVars, podVars, boundVars>>

KeystoneReady(o) ==
    /\ keystone[o].fin /\ ~keystone[o].ready
    /\ keystone' = [keystone EXCEPT ![o].ready = TRUE]
    /\ Wake
    /\ UNCHANGED <<crVars, todo, local, inputs, credFins, accFins, dbFin, dbVars, childVars,
                   podVars, boundVars>>

(* The job migrates the database as it ends. *)
JobDone ==
    /\ job # NoJob /\ ~job.done
    /\ job' = [job EXCEPT !.done = TRUE]
    /\ schema' = IF job.image > schema THEN job.image ELSE schema
    /\ Wake
    /\ UNCHANGED <<crVars, todo, local, inputs, finVars, childVars, podVars, boundVars>>

NewPod(w, t) == [template |-> t, config |-> mounted[w]]

(* Nobody watches them. *)
PodEventUnseen(w) == UNCHANGED queued

(* Only Placement watches its own pods. *)
PodEvent(w) == IF w \in Children THEN UNCHANGED queued ELSE Wake

RollOut(w) ==
    /\ pod[w].template # template[w]
    /\ pod' = [pod EXCEPT ![w] = NewPod(w, template[w])]
    /\ PodEvent(w)
    /\ UNCHANGED <<crVars, todo, local, inputs, finVars, dbVars, childVars, mounted,
                   template, boundVars>>

(* A pod is replaced by one of the same template, for whatever reason.     *)
PodRestarts(w) ==
    /\ pod[w] # NoPod
    /\ pod[w].config # mounted[w]
    /\ pod' = [pod EXCEPT ![w] = NewPod(w, @.template)]
    /\ PodEvent(w)
    /\ UNCHANGED <<crVars, todo, local, inputs, finVars, dbVars, childVars, mounted,
                   template, boundVars>>

(* Whatever template they are of. *)
PodsAreRunning(w, t) == template[w] = t /\ pod[w] # NoPod

(* IsReadyForInput: all pods are of this template, which is the current one.*)
IsReadyForInput(w, t) == template[w] = t /\ pod[w].template = t

-----------------------------------------------------------------------------
(* The controllers of CyborgAPI and CyborgConductor: they write the        *)
(* configuration and the pod template, and report.  What ServiceLifecycle  *)
(* says of them in detail is one action here, which may fail halfway.      *)

Report(w) ==
    LET t == TemplateOf(secret, child[w].image) IN
    IF IsReadyForInput(w, t)
    THEN [image |-> child[w].image, seen |-> child[w].image, applied |-> secret, ready |-> TRUE]
    ELSE [child[w] EXCEPT !.seen = child[w].image, !.ready = FALSE]

ChildReconciles(w) ==
    /\ child[w] # NoChild
    /\ mounted' = [mounted EXCEPT ![w] = secret]
    /\ template' = [template EXCEPT ![w] = TemplateOf(secret, child[w].image)]
    /\ child' = [child EXCEPT ![w] = Report(w)]
    /\ <<mounted, template, child>>' # <<mounted, template, child>>
    /\ UNCHANGED <<crVars, workVars, inputs, finVars, dbVars, secret, cached, pod, boundVars>>

(* The CRs are not owned: no event. *)
CacheSyncUnseen(w) ==
    /\ cached[w] # child[w]
    /\ cached' = [cached EXCEPT ![w] = child[w]]
    /\ UNCHANGED <<crVars, workVars, inputs, finVars, dbVars, secret, child, podVars, boundVars>>

(* The cache of the operator catches up: an event for Cyborg, which owns   *)
(* the CRs.                                                                *)
CacheSync(w) ==
    /\ cached[w] # child[w]
    /\ cached' = [cached EXCEPT ![w] = child[w]]
    /\ Wake
    /\ UNCHANGED <<crVars, todo, local, inputs, finVars, dbVars, secret, child, podVars, boundVars>>

-----------------------------------------------------------------------------
(* The frame of Reconcile, which is that of ServiceLifecycle.              *)

AddsFinalizer == cr.life = "live" /\ ~cr.fin

Program ==
    IF cr.life = "deleting" THEN Deletion[kind] \o Save
    ELSE IF AddsFinalizer THEN Save
    ELSE Steps[kind] \o Save

Begin ==
    /\ queued /\ todo = <<>>
    /\ queued' = FALSE
    /\ IF cr.life = "gone"
       THEN UNCHANGED <<todo, local>>
       ELSE /\ todo' = Program
            /\ local' = [spec |-> cr.spec, fin |-> cr.fin \/ AddsFinalizer,
                         pending |-> Conditions[kind], cred |-> status.cred,
                         hash |-> status.hash, synced |-> status.synced,
                         applied |-> status.applied, fresh |-> TRUE]
    /\ UNCHANGED <<crVars, inputs, finVars, dbVars, childVars, podVars, boundVars>>

(* The generation noted when the status is written, not when it is read.   *)
OutcomeOfNow ==
    [pending |-> local.pending, cred |-> local.cred, hash |-> local.hash,
     synced |-> local.synced, applied |-> local.applied, seen |-> TRUE]

Outcome ==
    [pending |-> local.pending, cred |-> local.cred, hash |-> local.hash,
     synced |-> local.synced, applied |-> local.applied, seen |-> local.fresh]

Patch ==
    /\ At("patch")
    /\ todo' = <<>>
    /\ local' = Idle
    /\ IF cr.life = "gone"
       THEN UNCHANGED <<cr, status, queued, child, template, pod>>
       ELSE /\ status' = Outcome
            /\ IF cr.life = "deleting" /\ ~local.fin
               THEN /\ cr' = [cr EXCEPT !.life = "gone", !.fin = FALSE]
                    /\ Collect
                    /\ UNCHANGED queued
               ELSE /\ cr' = [cr EXCEPT !.fin = local.fin]
                    /\ IF cr.fin # local.fin \/ status # Outcome
                       THEN Wake ELSE UNCHANGED queued
                    /\ UNCHANGED <<child, template, pod>>
    /\ UNCHANGED <<kind, inputs, finVars, dbVars, secret, cached, mounted, boundVars>>

-----------------------------------------------------------------------------
(* The steps. *)

(* Reads that follow one another are one action: what appears in between   *)
(* starts another reconcile.  The first that is missing ends this one.  The*)
(* credential is not asked for by a CR that has none.                      *)
Leading == { n \in DOMAIN todo : \A i \in 1 .. n : todo[i].op = "need" }
Found(i) ==
    todo[i].input \in inputs \/ (todo[i].input = "credential" /\ local.spec.cred = NoCred)
ThenOf(n) == UNION { todo[i].then : i \in 1 .. n }
NeedInputs ==
    /\ At("need")
    /\ \/ /\ \A i \in Leading : Found(i)
          /\ todo' = SubSeq(todo, Cardinality(Leading) + 1, Len(todo))
          /\ MarkTrue(ThenOf(Cardinality(Leading)))
          /\ UNCHANGED queued
       \/ \E n \in Leading :
          /\ ~Found(n) /\ \A i \in 1 .. n - 1 : Found(i)
          /\ End
          /\ local' = [local EXCEPT !.pending =
                          (@ \ ThenOf(n - 1)) \cup {todo[n].cond}]
          /\ IF todo[n].miss = "retry" THEN Retry ELSE UNCHANGED queued
    /\ UNCHANGED <<crVars, inputs, finVars, dbVars, childVars, podVars, boundVars>>

MakeObject ==
    /\ At("make")
    /\ GoOn
    /\ MarkTrue(Head(todo).then)
    /\ UNCHANGED <<crVars, queued, inputs, finVars, dbVars, childVars, podVars, boundVars>>

(* EnsureMariaDBAccount and CreateOrPatchAll.                              *)
HoldAccount ==
    /\ At("account")
    /\ GoOn
    /\ accFins' = accFins \cup {local.spec.account}
    /\ dbFin' = TRUE
    /\ UNCHANGED <<crVars, local, queued, inputs, credFins, keystone, dbVars, childVars,
                   podVars, boundVars>>

(* Placement writes what its own pods mount, Cyborg what its CRs read.     *)
WriteConfig ==
    /\ At("writeConfig")
    /\ GoOn
    /\ IF kind = "PlacementAPI"
       THEN /\ mounted' = [mounted EXCEPT !["PlacementAPI"] = ConfigOf(local.spec)]
            /\ UNCHANGED <<secret, local>>
       ELSE /\ secret' = ConfigOf(local.spec)
            /\ MarkTrue({"Input"})
            /\ UNCHANGED mounted
    /\ UNCHANGED <<crVars, queued, inputs, finVars, dbVars, child, cached, template, pod,
                   boundVars>>

(* A new hash ends the reconcile; writing it to the status starts the next.*)
RecordHash ==
    /\ At("recordHash")
    /\ local' = [local EXCEPT !.hash = ConfigOf(local.spec)]
    /\ IF local.hash # ConfigOf(local.spec) THEN End ELSE GoOn
    /\ UNCHANGED <<crVars, queued, inputs, finVars, dbVars, childVars, podVars, boundVars>>

(* Only when none is tracked yet. *)
HoldFirstCredential ==
    /\ At("holdCredential")
    /\ GoOn
    /\ credFins' = IF local.cred = NoCred
                   THEN credFins \cup ({local.spec.cred} \ {NoCred}) ELSE credFins
    /\ IF kind = "PlacementAPI" THEN MarkTrue({"ServiceConfig"}) ELSE UNCHANGED local
    /\ UNCHANGED <<crVars, queued, inputs, accFins, dbFin, keystone, dbVars, childVars,
                   podVars, boundVars>>

HoldCredential ==
    /\ At("holdCredential")
    /\ GoOn
    /\ credFins' = credFins \cup ({local.spec.cred} \ {NoCred})
    /\ IF kind = "PlacementAPI" THEN MarkTrue({"ServiceConfig"}) ELSE UNCHANGED local
    /\ UNCHANGED <<crVars, queued, inputs, accFins, dbFin, keystone, dbVars, childVars,
                   podVars, boundVars>>

(* Without waiting for the job. *)
SyncDBAside ==
    /\ At("dbSync")
    /\ GoOn
    /\ MarkTrue({"DBSync"})
    /\ job' = IF job.image = local.spec.image THEN job
              ELSE [image |-> local.spec.image, done |-> FALSE]
    /\ UNCHANGED <<crVars, queued, inputs, finVars, schema, childVars, podVars, boundVars>>

(* DoJob: a job that the status has no record of is run, and waited for.   *)
SyncDB ==
    /\ At("dbSync")
    /\ LET image == local.spec.image IN
       IF local.synced = image \/ job = [image |-> image, done |-> TRUE]
       THEN /\ GoOn
            /\ local' = [local EXCEPT !.synced = image, !.pending = @ \ {"DBSync"}]
            /\ UNCHANGED <<queued, job>>
       ELSE /\ End /\ Retry
            /\ job' = IF job.image = image THEN job ELSE [image |-> image, done |-> FALSE]
            /\ UNCHANGED local
    /\ UNCHANGED <<crVars, inputs, finVars, schema, childVars, podVars, boundVars>>

Deploy ==
    /\ At("deploy")
    /\ GoOn
    /\ template' = [template EXCEPT !["PlacementAPI"] =
                       TemplateOf(ConfigOf(local.spec), local.spec.image)]
    /\ UNCHANGED <<crVars, local, queued, inputs, finVars, dbVars, childVars, mounted, pod,
                   boundVars>>

RolledOut ==
    /\ At("rolledOut")
    /\ IF IsReadyForInput("PlacementAPI", TemplateOf(ConfigOf(local.spec), local.spec.image))
       THEN GoOn /\ MarkTrue({"PlacementAPI"})
       ELSE End /\ MarkFalse("PlacementAPI")
    /\ UNCHANGED <<crVars, queued, inputs, finVars, dbVars, childVars, podVars, boundVars>>

(* The KeystoneService is mirrored and not waited for.                     *)
EnsureKeystoneService ==
    /\ At("keystoneService")
    /\ GoOn
    /\ keystone' = [keystone EXCEPT !.service.fin = TRUE]
    /\ IF keystone.service.ready THEN MarkTrue({"KeystoneService"}) ELSE UNCHANGED local
    /\ UNCHANGED <<crVars, queued, inputs, credFins, accFins, dbFin, dbVars, childVars,
                   podVars, boundVars>>

EnsureKeystoneEndpoint ==
    /\ At("keystoneEndpoint")
    /\ keystone' = [keystone EXCEPT !.endpoint.fin = TRUE]
    /\ IF keystone.endpoint.ready THEN GoOn /\ MarkTrue({"KeystoneEndpoint"})
       ELSE End /\ UNCHANGED local
    /\ UNCHANGED <<crVars, queued, inputs, credFins, accFins, dbFin, dbVars, childVars,
                   podVars, boundVars>>

(* Its condition alone. *)
IsReady(c, config) == c.ready

(* What Cyborg asks of a CR that it has created or patched: that it has    *)
(* seen its generation, applied the Secret and is ready.                   *)
InputApplied(c, config) == c.image = c.seen /\ c.applied = config /\ c.ready

(* ensureCyborgAPI and ensureConductor: patch, then read through the cache,*)
(* which may or may not have what was just patched.  A CR the cache does   *)
(* not know cannot be created twice, nor read after it was created.        *)
Judged(w) ==
    IF InputApplied(cached'[w], ConfigOf(local.spec)) THEN local.pending \ {w}
    ELSE local.pending \cup {w}
EnsureChild(w) ==
    /\ At(w)
    /\ child' = [child EXCEPT ![w].image = local.spec.image]
    /\ cached' \in {cached, [cached EXCEPT ![w] = child'[w]]}
    /\ IF cached'[w] = NoChild
       THEN End /\ Retry /\ UNCHANGED local
       ELSE /\ GoOn
            /\ local' = [local EXCEPT !.pending = Judged(w),
                  !.applied = IF Judged(w) \cap Children = {} THEN ConfigOf(local.spec) ELSE @]
            /\ UNCHANGED queued
    /\ UNCHANGED <<crVars, inputs, finVars, dbVars, secret, podVars, boundVars>>

(* DeleteUnusedMariaDBAccountFinalizers: every account but the one in use  *)
(* by the spec.                                                            *)
ReleaseAccounts ==
    /\ At("releaseAccounts")
    /\ GoOn
    /\ accFins' = accFins \cap {local.spec.account}
    /\ UNCHANGED <<crVars, local, queued, inputs, credFins, dbFin, keystone, dbVars,
                   childVars, podVars, boundVars>>

(* Without asking whether every condition is True. *)
ReleaseCredentialEarly ==
    /\ At("releaseCredential")
    /\ GoOn
    /\ credFins' = credFins \ ({local.cred} \ {local.spec.cred})
    /\ local' = [local EXCEPT !.cred = local.spec.cred]
    /\ UNCHANGED <<crVars, queued, inputs, accFins, dbFin, keystone, dbVars, childVars,
                   podVars, boundVars>>

(* The credential in the status is let go of once everything is ready with *)
(* the one in the spec; only then is that one noted in its place.          *)
ReleaseCredential ==
    /\ At("releaseCredential")
    /\ GoOn
    /\ IF local.cred \in {NoCred, local.spec.cred}
       THEN /\ local' = [local EXCEPT !.cred = local.spec.cred]
            /\ UNCHANGED credFins
       ELSE IF local.pending = {}
       THEN /\ credFins' = credFins \ {local.cred}
            /\ local' = [local EXCEPT !.cred = local.spec.cred]
       ELSE UNCHANGED <<local, credFins>>
    /\ UNCHANGED <<crVars, queued, inputs, accFins, dbFin, keystone, dbVars, childVars,
                   podVars, boundVars>>

-----------------------------------------------------------------------------
(* The steps of reconcileDelete. *)

DropDatabase ==
    /\ At("dropDatabase")
    /\ GoOn
    /\ dbFin' = FALSE
    /\ accFins' = accFins \ {local.spec.account}
    /\ UNCHANGED <<crVars, local, queued, inputs, credFins, keystone, dbVars, childVars,
                   podVars, boundVars>>

DropKeystone(op, o) ==
    /\ At(op)
    /\ GoOn
    /\ keystone' = [keystone EXCEPT ![o].fin = FALSE]
    /\ UNCHANGED <<crVars, local, queued, inputs, credFins, accFins, dbFin, dbVars,
                   childVars, podVars, boundVars>>

(* The tracked credential only. *)
DropTrackedCredential ==
    /\ At("dropCredentials")
    /\ GoOn
    /\ credFins' = credFins \ {local.cred}
    /\ UNCHANGED <<crVars, local, queued, inputs, accFins, dbFin, keystone, dbVars,
                   childVars, podVars, boundVars>>

(* Placement lets go of the credentials it can name, Cyborg of all.        *)
DropCredentials ==
    /\ At("dropCredentials")
    /\ GoOn
    /\ credFins' = IF kind = "Cyborg" THEN {} ELSE credFins \ {local.cred, local.spec.cred}
    /\ UNCHANGED <<crVars, local, queued, inputs, accFins, dbFin, keystone, dbVars,
                   childVars, podVars, boundVars>>

DropFinalizer ==
    /\ At("dropFinalizer")
    /\ GoOn
    /\ local' = [local EXCEPT !.fin = FALSE]
    /\ UNCHANGED <<crVars, queued, inputs, finVars, dbVars, childVars, podVars, boundVars>>

-----------------------------------------------------------------------------
(* Faults. *)

May(fault) ==
    /\ fault \in Faults
    /\ faults < MaxFaults /\ edits + faults < MaxEvents
    /\ faults' = faults + 1

(* A call that writes fails: the reconcile returns the error.  *)
Writes == {"make", "account", "writeConfig", "holdCredential", "dbSync", "deploy",
           "keystoneService", "keystoneEndpoint", "releaseAccounts", "releaseCredential",
           "dropDatabase", "dropEndpoint", "dropService", "dropCredentials"} \cup Children
CallFails ==
    /\ todo # <<>>
    /\ Head(todo).op \in Writes
    /\ May("call")
    /\ End
    /\ Retry
    /\ UNCHANGED <<crVars, local, inputs, finVars, dbVars, childVars, podVars, edits>>

(* The controller of a child fails between its configuration and its pods. *)
ChildFails(w) ==
    /\ child[w] # NoChild
    /\ mounted[w] # secret
    /\ May("child")
    /\ mounted' = [mounted EXCEPT ![w] = secret]
    /\ child' = [child EXCEPT ![w].ready = FALSE]
    /\ UNCHANGED <<crVars, workVars, inputs, finVars, dbVars, secret, cached, template, pod,
                   edits>>

PatchFails ==
    /\ At("patch")
    /\ May("patch")
    /\ todo' = <<>>
    /\ local' = Idle
    /\ Retry
    /\ UNCHANGED <<crVars, inputs, finVars, dbVars, childVars, podVars, edits>>

(* The operator restarts.  The cache is filled before it reconciles.       *)
Restart ==
    /\ todo # <<>>
    /\ May("restart")
    /\ todo' = <<>>
    /\ local' = Idle
    /\ cached' = child
    /\ Wake
    /\ UNCHANGED <<crVars, inputs, finVars, dbVars, secret, child, podVars, edits>>

-----------------------------------------------------------------------------
Reconcile ==
    \/ Begin \/ NeedInputs \/ MakeObject \/ HoldAccount \/ WriteConfig \/ RecordHash
    \/ HoldCredential \/ SyncDB \/ Deploy \/ RolledOut \/ EnsureKeystoneService
    \/ EnsureKeystoneEndpoint \/ ReleaseAccounts \/ ReleaseCredential
    \/ \E w \in Children : EnsureChild(w)
    \/ DropDatabase \/ DropKeystone("dropEndpoint", "endpoint")
    \/ DropKeystone("dropService", "service") \/ DropCredentials \/ DropFinalizer \/ Patch

(* What goes on without the user, and without anything going wrong.        *)
Progress ==
    \/ JobDone
    \/ \E i \in Inputs : Arrives(i)
    \/ \E o \in KeystoneObjects : KeystoneReady(o)
    \/ \E w \in Children : ChildReconciles(w) \/ CacheSync(w)
    \/ \E w \in Workloads : RollOut(w)

Fault ==
    \/ CallFails \/ PatchFails \/ Restart
    \/ \E w \in Children : ChildFails(w)

Next ==
    \/ Edit \/ Delete \/ Fault \/ Reconcile \/ Progress
    \/ \E w \in Workloads : PodRestarts(w)

Spec == Init /\ [][Next]_vars

(* The work queue of the controller is served; and as long as there is     *)
(* something to do for the other operators, a job or a pod, it is done.    *)
(* Nothing makes the user act, or a pod restart.                           *)
Fairness == WF_vars(Reconcile) /\ WF_vars(Progress)

FairSpec == Spec /\ Fairness

-----------------------------------------------------------------------------
TypeOK ==
    /\ kind \in KindChoices
    /\ cr \in [life : {"live", "deleting", "gone"}, fin : BOOLEAN, spec : Specs]
    /\ status.pending \subseteq Conditions[kind] \cup {"Ready"}
    /\ status.cred \in Creds \cup {NoCred} /\ status.synced \in Images \cup {0}
    /\ {status.hash, status.applied, secret} \subseteq Configs \cup {NoConfig}
    /\ credFins \subseteq Creds /\ accFins \subseteq Accounts
    /\ schema \in Images \cup {0} /\ job.image \in Images \cup {0}
    /\ \A w \in Workloads :
          /\ mounted[w] \in Configs \cup {NoConfig}
          /\ template[w] \in Templates \cup {NoTemplate}
          /\ pod[w].template \in Templates \cup {NoTemplate}
          /\ pod[w].config \in Configs \cup {NoConfig}
    /\ \A w \in Children : child[w].ready => child[w].applied \in Configs

(* What the owner of the CR goes by: Ready, of the current generation.     *)
Ready == status.pending = {} /\ status.seen

InUse(w) == {pod[w].config, mounted[w]} \ {NoConfig}

(* The database account that the configuration or a pod of Placement uses  *)
(* can not be deleted, whatever rotation is under way and whatever failed. *)
AccountHeld(w) == \A c \in InUse(w) : c.account \in accFins
AccountKept == cr.life = "live" => AccountHeld("PlacementAPI")

(* The same for the pods of Cyborg.                                        *)
CyborgAccountKept == cr.life = "live" => \A w \in Children : AccountHeld(w)

(* No credential is revoked that a pod works with.  For Placement this is  *)
(* so once a pod has the configuration its template was made for: one that *)
(* restarts earlier reads a credential that is not held yet.               *)
CredentialKept ==
    cr.life = "live" =>
        \A w \in WorkloadsOf[kind] :
            kind = "Cyborg" \/ pod[w].config = pod[w].template.config
                => pod[w].config.cred \in credFins \cup {NoCred}

(* No pod runs an image that the database was not synced for.              *)
SchemaFirst == \A w \in Workloads : pod[w].template.image <= schema

(* Ready says that every pod runs the configuration of the spec, and so    *)
(* does AppliedInputSecretHash of Cyborg.  For Placement it says the same  *)
(* of the image; Cyborg may have judged a CR by what its cache had of it   *)
(* before the image was patched.                                           *)
ReadyTellsTruth ==
    cr.life = "live" /\ (Ready \/ status.applied = ConfigOf(cr.spec)) =>
        \A w \in WorkloadsOf[kind] :
            /\ pod[w].config = ConfigOf(cr.spec)
            /\ kind = "PlacementAPI" => pod[w].template.image = cr.spec.image

PeerInv == TypeOK /\ ReadyTellsTruth

(* A CR never goes before it has given back what its status and its spec   *)
(* name, and Cyborg not before every credential: no other reconcile will.  *)
DeletionLeavesNothing ==
    cr.life = "gone" =>
        /\ ~keystone.service.fin /\ ~keystone.endpoint.fin /\ ~dbFin
        /\ cr.spec.account \notin accFins
        /\ {status.cred, cr.spec.cred} \cap credFins = {}
        /\ kind = "Cyborg" => credFins = {}

(* Whatever happens, a CR that is not deleted becomes Ready with pods of   *)
(* its spec, and the rotation that made it wait ends: the credential and   *)
(* the account of the spec are held and noted, and no other account is.  A *)
(* CR that is deleted goes.                                                *)
Current(w) == pod[w].template = TemplateOf(ConfigOf(cr.spec), cr.spec.image)
Rotated ==
    /\ status.cred = cr.spec.cred
    /\ status.cred \in credFins \cup {NoCred}
    /\ accFins = {cr.spec.account}
Settled ==
    \/ cr.life = "gone"
    \/ /\ cr.life = "live"
       /\ Ready /\ Rotated
       /\ \A w \in WorkloadsOf[kind] : Current(w)
Settles == []<>Settled
=============================================================================
