---------------------------- MODULE SecretRotation ----------------------------
(***************************************************************************)
(* Rotation of the credentials that the Nova controller hands to its       *)
(* workloads: the keystone application credential and the RabbitMQ         *)
(* transport URLs of the API bus, the notifications bus and each cell.     *)
(*                                                                         *)
(* One reconcile of the Nova controller (nova_controller.go) is the        *)
(* sequence NovaEnsureMQ, NovaEnsureCell for each cell, NovaEnsureTop,     *)
(* NovaRelease for each credential, NovaPrune, NovaPatch.  Between any two *)
(* of these steps the other controllers run: CellReconcile is the NovaCell *)
(* controller, SvcReconcile any of the service controllers (conductor,     *)
(* metadata, novncproxy, compute, api, scheduler), PodStart and PodReplace *)
(* the StatefulSet controller, CacheSync the informer through which the    *)
(* controllers read the input Secrets.                                     *)
(*                                                                         *)
(* Contents of a Secret are abstracted to the names of the credentials     *)
(* they were built from, so the hash of a Secret (AppliedInputSecretHash)  *)
(* is its content.  The CR specs of the workloads do not change during a   *)
(* rotation (the name of the input Secret is fixed), so their generation   *)
(* is always observed; databases, cell mapping and cell deletion are the   *)
(* subject of other modules.                                               *)
(***************************************************************************)
EXTENDS Naturals, Sequences, FiniteSets

CONSTANTS
    CellOrder,    \* orderedCellNames: cell0 first, the others sorted by name
    APIAccess,    \* the cells whose template has HasAPIAccess
    Top,          \* stands for the top-level services (api, scheduler, metadata)
    Services,     \* the service CRs
    UnitOf,       \* the cell, or Top, a service belongs to
    AC,           \* kind of the application credential
    API,          \* kind of the API transport URL, shared by cell0 and Top
    Notif,        \* kind of the notifications transport URL
    MaxIssued,    \* bound: secrets issued per kind of credential
    MaxFaults,    \* bound: failed calls and operator restarts
    NoInput       \* the input Secret of a unit does not exist yet

Cells == { CellOrder[i] : i \in DOMAIN CellOrder }
Cell0 == CellOrder[1]
Units == Cells \cup {Top}

(* A cell other than cell0 has a transport URL of its own; its kind is     *)
(* named by the cell.                                                      *)
CellKinds == Cells \ {Cell0}
Kinds == {AC, API, Notif} \cup CellKinds

(* Secrets of kind k are numbered 1, 2, ... as they are issued; 0 is the   *)
(* empty name.                                                             *)
Name == Nat
Credential == Kinds \X Name
Contents == [Kinds -> Name]

ASSUME RotationConstants ==
    /\ CellOrder \in Seq(Cells)
    /\ Len(CellOrder) >= 1
    /\ \A i, j \in DOMAIN CellOrder : CellOrder[i] = CellOrder[j] => i = j
    /\ APIAccess \subseteq Cells
    /\ Top \notin Cells
    /\ UnitOf \in [Services -> Units]
    /\ \A u \in Units : \E s \in Services : UnitOf[s] = u
    /\ {AC, API, Notif} \cap Cells = {}
    /\ AC # API /\ AC # Notif /\ API # Notif
    /\ MaxIssued \in [Kinds -> Nat]
    /\ MaxFaults \in Nat
    /\ NoInput \notin Contents

ServicesOf(u) == { s \in Services : UnitOf[s] = u }

(* The transport URL a unit needs before it can be deployed.               *)
BusOf(u) == IF u \in CellKinds THEN u ELSE API

(* The credentials in the input Secret of a unit.                          *)
Uses(u) == {AC, Notif, BusOf(u)}

VARIABLES
    current,      \* current[k]: TransportURL.Status.SecretName, or the AC secret in the Nova spec
    issued,       \* issued[k]: how many secrets of kind k there have been
    available,    \* available[k]: that secret exists and its TransportURL is Ready
    finalizers,   \* the secrets that carry the consumer finalizer of Nova
    tracked,      \* tracked[k]: secret name kept in the Nova status (cells: in an annotation)
    input,        \* input[u]: content of the cell / top-level Secret
    cache,        \* cache[u]: that Secret as the informer cache has it
    template,     \* template[s]: content the StatefulSet's pod template was rendered from
    pods,         \* pods[s]: contents the running pods were started with
    ready,        \* ready[s]: Ready condition of the service CR
    applied,      \* applied[s]: AppliedInputSecretHash of the service CR
    cellReady,    \* cellReady[c]: Ready condition of the NovaCell
    cellApplied,  \* cellApplied[c]: AppliedInputSecretHash of the NovaCell
    pc,           \* where the Nova reconcile is
    next,         \* index in CellOrder of the next cell to ensure
    view,         \* local: the secret names this reconcile got
    mem,          \* local: tracked, as modified so far by this reconcile
    cell0Ready,   \* local: cells[cell0] is not nil and IsReady
    allReady,     \* local: conditions so far are all True; at the end allServicesReady
    pending,      \* local: kinds FinalizeSecretRotation has still to be called for
    faults

issuerVars == <<current, issued, available>>
svcVars == <<template, pods, ready, applied>>
cellVars == <<cellReady, cellApplied>>
localVars == <<next, view, mem, cell0Ready, allReady, pending>>
novaVars == <<pc, next, view, mem, cell0Ready, allReady, pending>>
vars == <<current, issued, available, finalizers, tracked, input, cache,
          template, pods, ready, applied, cellReady, cellApplied,
          pc, next, view, mem, cell0Ready, allReady, pending, faults>>

NoNames == [k \in Kinds |-> 0]

(* ensureCellSecret and ensureTopLevelSecret: the data of the input Secret *)
(* of unit u, from the names this reconcile got.                           *)
Content(u, names) == [k \in Kinds |-> IF k \in Uses(u) THEN names[k] ELSE 0]

(* The credentials in a content.                                           *)
CredsOf(content) ==
    IF content = NoInput THEN {}
    ELSE { <<k, content[k]>> : k \in { j \in Kinds : content[j] # 0 } }

Init ==
    /\ current = NoNames
    /\ issued = NoNames
    /\ available = [k \in Kinds |-> k \in {AC, Notif}]
    /\ finalizers = {}
    /\ tracked = NoNames
    /\ input = [u \in Units |-> NoInput]
    /\ cache = [u \in Units |-> NoInput]
    /\ template = [s \in Services |-> NoInput]
    /\ pods = [s \in Services |-> {}]
    /\ ready = [s \in Services |-> FALSE]
    /\ applied = [s \in Services |-> NoInput]
    /\ cellReady = [c \in Cells |-> FALSE]
    /\ cellApplied = [c \in Cells |-> NoInput]
    /\ pc = "idle"
    /\ next = 1
    /\ view = NoNames
    /\ mem = NoNames
    /\ cell0Ready = FALSE
    /\ allReady = FALSE
    /\ pending = {}
    /\ faults = 0

-----------------------------------------------------------------------------
(* The issuers of credentials, and the human who edits the Nova spec.      *)

(* The TransportURL is being reconciled for a new user, or the secret the  *)
(* spec will name is still missing: ensureMQ answers MQCreating, the AC    *)
(* lookup NotFound.                                                        *)
Withdraw(k) ==
    /\ available[k]
    /\ issued[k] < MaxIssued[k]
    /\ available' = [available EXCEPT ![k] = FALSE]
    /\ UNCHANGED <<current, issued, finalizers, tracked, input, cache, svcVars,
                   cellVars, novaVars, faults>>

(* A fresh secret is published.                                            *)
PublishNew(k) ==
    /\ ~available[k]
    /\ issued[k] < MaxIssued[k]
    /\ issued' = [issued EXCEPT ![k] = @ + 1]
    /\ current' = [current EXCEPT ![k] = issued[k] + 1]
    /\ available' = [available EXCEPT ![k] = TRUE]
    /\ UNCHANGED <<finalizers, tracked, input, cache, svcVars, cellVars,
                   novaVars, faults>>

(* The spec goes back to an earlier secret (the bus user is changed back), *)
(* or to none at all where that is possible (no application credential,    *)
(* notifications disabled).                                                *)
PublishOld(k) ==
    /\ available[k]
    /\ \E v \in 0 .. issued[k] :
          /\ v # current[k]
          /\ v = 0 => k \in {AC, Notif}
          /\ current' = [current EXCEPT ![k] = v]
    /\ UNCHANGED <<issued, available, finalizers, tracked, input, cache,
                   svcVars, cellVars, novaVars, faults>>

-----------------------------------------------------------------------------
(* The Nova controller.                                                    *)

(* ensureMQ: the secret name, or the empty name while the bus is creating. *)
ensureMQ(k) == IF available[k] THEN current[k] ELSE 0

(* ManageSecretConsumerFinalizer on the named secrets of some kinds.       *)
ManageSecretConsumerFinalizer(ks) ==
    finalizers \cup { <<k, ensureMQ(k)>> : k \in { j \in ks : ensureMQ(j) # 0 } }

(* The credentials part of a reconcile.  A missing AC secret makes it      *)
(* return at once, so this action is not enabled then; a notifications bus *)
(* that is creating makes it return after the finalizers of the first two  *)
(* kinds have been added.  The annotation of a cell is set here when it is *)
(* empty; the other names are first tracked by NovaRelease.                *)
NovaEnsureMQ ==
    /\ pc = "idle"
    /\ available[AC]
    /\ \/ /\ ~available[Notif]
          /\ finalizers' = ManageSecretConsumerFinalizer({AC, API})
          /\ UNCHANGED novaVars
       \/ /\ available[Notif]
          /\ finalizers' = ManageSecretConsumerFinalizer(Kinds)
          /\ view' = [k \in Kinds |-> ensureMQ(k)]
          /\ mem' = [k \in Kinds |-> IF k \in CellKinds /\ tracked[k] = 0
                                     THEN ensureMQ(k) ELSE tracked[k]]
          /\ pc' = "cells"
          /\ next' = 1
          /\ cell0Ready' = FALSE
          /\ allReady' = TRUE
          /\ UNCHANGED pending
    /\ UNCHANGED <<issuerVars, tracked, input, cache, svcVars, cellVars, faults>>

(* A child has confirmed the content its parent now expects: its Ready     *)
(* condition may still be stale-true from before the rotation, so the hash *)
(* it has applied is compared as well.  The *IsReady forms are mutants.    *)
CellIsReady(c, data) == cellReady[c]
CellHasApplied(c, data) == cellReady[c] /\ cellApplied[c] = data

ServiceIsReady(s, data) == ready[s]
ServiceHasApplied(s, data) == ready[s] /\ applied[s] = data

(* The cell is skipped: its MQ is not there yet, or it needs the API       *)
(* database and cell0 is not ready.                                        *)
SkipCell(c) ==
    \/ view[BusOf(c)] = 0
    \/ c # Cell0 /\ c \in APIAccess /\ ~cell0Ready

(* One turn of the loop over the cells: ensureCell writes the cell Secret, *)
(* reads it back uncached, and takes the cell for ready only if it has     *)
(* applied exactly that content.  A failing call in ensureCell only marks  *)
(* the cell failed; the loop goes on.                                      *)
NovaEnsureCell ==
    /\ pc = "cells"
    /\ next <= Len(CellOrder)
    /\ next' = next + 1
    /\ LET c == CellOrder[next]
           data == Content(c, view)
       IN \/ /\ SkipCell(c)
             /\ allReady' = FALSE
             /\ UNCHANGED <<input, cell0Ready, faults>>
          \/ /\ ~SkipCell(c)
             /\ input' = [input EXCEPT ![c] = data]
             /\ allReady' = (allReady /\ CellHasApplied(c, data))
             /\ cell0Ready' = IF c = Cell0 THEN cellReady[c] ELSE cell0Ready
             /\ UNCHANGED faults
          \/ /\ ~SkipCell(c)
             /\ faults < MaxFaults
             /\ faults' = faults + 1
             /\ allReady' = FALSE
             /\ UNCHANGED <<input, cell0Ready>>
    /\ UNCHANGED <<issuerVars, finalizers, tracked, cache, svcVars, cellVars,
                   pc, view, mem, pending>>

(* The top-level services: nothing is done until cell0 is ready.  Each of  *)
(* ensureAPI, ensureScheduler and ensureMetadata mirrors the Ready         *)
(* condition of its CR, forced to False if it has applied another input.   *)
NovaEnsureTop ==
    /\ pc = "cells"
    /\ next > Len(CellOrder)
    /\ \/ /\ ~cell0Ready
          /\ pc' = "patch"
          /\ UNCHANGED <<input, allReady, pending>>
       \/ /\ cell0Ready
          /\ LET data == Content(Top, view)
             IN /\ input' = [input EXCEPT ![Top] = data]
                /\ allReady' = (/\ allReady
                                /\ \A s \in ServicesOf(Top) : ServiceHasApplied(s, data))
          /\ pending' = {AC, API, Notif} \cup { c \in CellKinds : view[c] # 0 }
          /\ pc' = "release"
    /\ UNCHANGED <<issuerVars, finalizers, tracked, cache, svcVars, cellVars,
                   next, view, mem, cell0Ready, faults>>

(* FinalizeSecretRotation: the finalizer leaves the tracked secret, and    *)
(* the current one becomes the tracked one, only if all services are       *)
(* ready.  A disabled notifications bus is released by a branch of its own *)
(* with the same effect.  Mutants: the release does not wait, or does not  *)
(* see that nothing was rotated.                                           *)
FinalizeAtOnce(k) ==
    /\ mem' = [mem EXCEPT ![k] = view[k]]
    /\ finalizers' = IF mem[k] \in {0, view[k]} THEN finalizers
                     ELSE finalizers \ {<<k, mem[k]>>}

FinalizeUnrotated(k) ==
    IF allReady THEN
        /\ mem' = [mem EXCEPT ![k] = view[k]]
        /\ finalizers' = finalizers \ {<<k, mem[k]>>}
    ELSE UNCHANGED <<mem, finalizers>>

FinalizeSecretRotation(k) ==
    IF mem[k] = 0 \/ mem[k] = view[k] THEN
        /\ mem' = [mem EXCEPT ![k] = view[k]]
        /\ UNCHANGED finalizers
    ELSE IF allReady THEN
        /\ mem' = [mem EXCEPT ![k] = view[k]]
        /\ finalizers' = finalizers \ {<<k, mem[k]>>}
    ELSE UNCHANGED <<mem, finalizers>>

(* The calls are made for AC, API and Notif in this order, then for the    *)
(* cells in the random order of a map.                                     *)
MustPrecede(j, k) ==
    \/ j = AC /\ k # AC
    \/ j = API /\ k \notin {AC, API}
    \/ j = Notif /\ k \in CellKinds

NovaRelease(k) ==
    /\ pc = "release"
    /\ k \in pending
    /\ \A j \in pending : ~MustPrecede(j, k)
    /\ FinalizeSecretRotation(k)
    /\ pending' = pending \ {k}
    /\ pc' = IF pending' # {} THEN "release"
             ELSE IF allReady THEN "prune" ELSE "patch"
    /\ UNCHANGED <<issuerVars, tracked, input, cache, svcVars, cellVars,
                   next, view, cell0Ready, allReady, faults>>

(* transportKeep, and the transport secrets it does not list (the mutant   *)
(* never finds one, as for the AC secrets).                                *)
transportKeep == UNION { {<<k, mem[k]>>, <<k, view[k]>>} : k \in Kinds \ {AC} }
NoneStranded == {}
Stranded == { f \in finalizers : f[1] # AC } \ transportKeep

(* PruneSecretConsumerFinalizers, one secret after the other.              *)
NovaPrune ==
    /\ pc = "prune"
    /\ \/ \E f \in Stranded :
             /\ finalizers' = finalizers \ {f}
             /\ UNCHANGED pc
       \/ /\ Stranded = {}
          /\ pc' = "patch"
          /\ UNCHANGED finalizers
    /\ UNCHANGED <<issuerVars, tracked, input, cache, svcVars, cellVars,
                   localVars, faults>>

(* Reconcile returns and its local variables are gone.                     *)
Return ==
    /\ pc' = "idle"
    /\ next' = 1
    /\ view' = NoNames
    /\ mem' = NoNames
    /\ cell0Ready' = FALSE
    /\ allReady' = FALSE
    /\ pending' = {}

(* The deferred PatchInstance: only now do status and annotations persist. *)
NovaPatch ==
    /\ pc = "patch"
    /\ tracked' = mem
    /\ Return
    /\ UNCHANGED <<issuerVars, finalizers, input, cache, svcVars, cellVars,
                   faults>>

(* A call fails and Reconcile returns its error: the deferred patch still  *)
(* runs.                                                                   *)
NovaError ==
    /\ pc \in {"cells", "release", "prune"}
    /\ faults < MaxFaults
    /\ faults' = faults + 1
    /\ pc' = "patch"
    /\ UNCHANGED <<issuerVars, finalizers, tracked, input, cache, svcVars,
                   cellVars, localVars>>

(* The operator restarts, Reconcile panics or the patch itself fails:      *)
(* what was only in memory is lost.                                        *)
NovaCrash ==
    /\ pc # "idle"
    /\ faults < MaxFaults
    /\ faults' = faults + 1
    /\ Return
    /\ UNCHANGED <<issuerVars, finalizers, tracked, input, cache, svcVars,
                   cellVars>>

-----------------------------------------------------------------------------
(* The workloads.                                                          *)

CacheSync(u) ==
    /\ cache[u] # input[u]
    /\ cache' = [cache EXCEPT ![u] = input[u]]
    /\ UNCHANGED <<issuerVars, finalizers, tracked, input, svcVars, cellVars,
                   novaVars, faults>>

(* The NovaCell controller: it mirrors the Ready conditions of its         *)
(* services, and advances AppliedInputSecretHash when all of them are      *)
(* Ready and have applied the content it has read itself.                  *)
CellReconcile(c) ==
    /\ cache[c] # NoInput
    /\ LET all == ServicesOf(c)
       IN /\ cellReady' = [cellReady EXCEPT ![c] = \A s \in all : ready[s]]
          /\ cellApplied' = [cellApplied EXCEPT ![c] =
                IF \A s \in all : ServiceHasApplied(s, cache[c])
                THEN cache[c] ELSE @]
    /\ UNCHANGED <<issuerVars, finalizers, tracked, input, cache, svcVars,
                   novaVars, faults>>

(* The rollout of a service has finished for the content it is configured  *)
(* with: IsReadyForInput, an uncached read of the StatefulSet.  The mutant *)
(* is content when pods are running.                                       *)
PodsAreRunning(s, content) == pods[s] # {}

IsReadyForInput(s, content) ==
    /\ template[s] = content
    /\ pods[s] = {content}

(* A service controller: renders the config from the Secret it read, makes *)
(* the StatefulSet carry it, and reports Ready and the applied hash only   *)
(* if the rollout of that very input is complete.                          *)
SvcReconcile(s) ==
    LET content == cache[UnitOf[s]] IN
    /\ content # NoInput
    /\ template' = [template EXCEPT ![s] = content]
    /\ ready' = [ready EXCEPT ![s] = IsReadyForInput(s, content)]
    /\ applied' = [applied EXCEPT ![s] =
                      IF IsReadyForInput(s, content) THEN content ELSE @]
    /\ UNCHANGED <<issuerVars, finalizers, tracked, input, cache, pods,
                   cellVars, novaVars, faults>>

(* A service reconcile that stops on an error before the StatefulSet: the  *)
(* conditions were reset at its start, so the CR is no longer Ready.       *)
SvcError(s) ==
    /\ ready[s]
    /\ faults < MaxFaults
    /\ faults' = faults + 1
    /\ ready' = [ready EXCEPT ![s] = FALSE]
    /\ UNCHANGED <<issuerVars, finalizers, tracked, input, cache, template,
                   pods, applied, cellVars, novaVars>>

(* A pod is started from the template; PodReplace: the last pod of an      *)
(* older content goes away.                                                *)
PodStart(s) ==
    /\ template[s] # NoInput
    /\ template[s] \notin pods[s]
    /\ pods' = [pods EXCEPT ![s] = @ \cup {template[s]}]
    /\ UNCHANGED <<issuerVars, finalizers, tracked, input, cache, template,
                   ready, applied, cellVars, novaVars, faults>>

PodReplace(s) ==
    /\ template[s] \in pods[s]
    /\ \E p \in pods[s] \ {template[s]} : pods' = [pods EXCEPT ![s] = @ \ {p}]
    /\ UNCHANGED <<issuerVars, finalizers, tracked, input, cache, template,
                   ready, applied, cellVars, novaVars, faults>>

-----------------------------------------------------------------------------
Nova ==
    \/ NovaEnsureMQ
    \/ NovaEnsureCell
    \/ NovaEnsureTop
    \/ \E k \in Kinds : NovaRelease(k)
    \/ NovaPrune
    \/ NovaPatch

Next ==
    \/ \E k \in Kinds : Withdraw(k) \/ PublishNew(k)
    \/ Nova
    \/ NovaError
    \/ NovaCrash
    \/ \E u \in Units : CacheSync(u)
    \/ \E c \in Cells : CellReconcile(c)
    \/ \E s \in Services : \/ SvcReconcile(s)
                           \/ SvcError(s)
                           \/ PodStart(s)
                           \/ PodReplace(s)

Spec == Init /\ [][Next]_vars

(* A user who goes back and forth between secrets.  Spec leaves that out:  *)
(* what is promised without it does not hold with it (rotation_toggle).    *)
ToggleNext == Next \/ \E k \in Kinds : PublishOld(k)
ToggleSpec == Init /\ [][ToggleNext]_vars

(* Every controller keeps being scheduled: a reconcile is queued for each  *)
(* change of an object it owns or watches, an error is requeued with a     *)
(* backoff and a restart reconciles everything; caches catch up, rollouts  *)
(* progress, and an issuer that withdrew a secret publishes the next one.  *)
Fairness ==
    /\ WF_vars(Nova)
    /\ \A k \in Kinds : WF_vars(PublishNew(k))
    /\ \A u \in Units : WF_vars(CacheSync(u))
    /\ \A c \in Cells : WF_vars(CellReconcile(c))
    /\ \A s \in Services : /\ WF_vars(SvcReconcile(s))
                           /\ WF_vars(PodStart(s))
                           /\ WF_vars(PodReplace(s))

FairSpec == Spec /\ Fairness

-----------------------------------------------------------------------------
(* Types: every name a status, a Secret or a local variable carries is one *)
(* that was issued or the empty one, and the reconcile is at a known place.*)
TypeOK ==
    /\ current \in Contents
    /\ issued \in Contents
    /\ available \in [Kinds -> BOOLEAN]
    /\ finalizers \subseteq Credential
    /\ tracked \in Contents
    /\ input \in [Units -> Contents \cup {NoInput}]
    /\ cache \in [Units -> Contents \cup {NoInput}]
    /\ template \in [Services -> Contents \cup {NoInput}]
    /\ pods \in [Services -> SUBSET Contents]
    /\ ready \in [Services -> BOOLEAN]
    /\ applied \in [Services -> Contents \cup {NoInput}]
    /\ cellReady \in [Cells -> BOOLEAN]
    /\ cellApplied \in [Cells -> Contents \cup {NoInput}]
    /\ pc \in {"idle", "cells", "release", "prune", "patch"}
    /\ next \in 1 .. Len(CellOrder) + 1
    /\ view \in Contents
    /\ mem \in Contents
    /\ cell0Ready \in BOOLEAN
    /\ allReady \in BOOLEAN
    /\ pending \subseteq Kinds
    /\ faults \in 0 .. MaxFaults

(* What the workloads are configured with: every running pod, and every    *)
(* template the next pod is started from.                                  *)
InUse ==
    UNION { CredsOf(template[s]) \cup UNION { CredsOf(p) : p \in pods[s] } :
            s \in Services }

(* The credential of a running pod is never released: whatever the order   *)
(* in which cells, top-level services and their StatefulSets roll out, and *)
(* wherever a reconcile is cut short, the consumer finalizer is on every   *)
(* secret a pod or a pod template was rendered from ("so the credential /  *)
(* RabbitMQ user isn't revoked while still referenced by running pods").   *)
InUseProtected == InUse \subseteq finalizers

(* A NovaCell that reports the current content of its Secret as applied    *)
(* tells the truth: every pod and pod template of every service of the     *)
(* cell is on that content, although the cell only sees the statuses its   *)
(* services wrote earlier and a cached copy of the Secret.                 *)
AppliedMeansRolledOut ==
    \A c \in Cells :
        cellApplied[c] # NoInput /\ cellApplied[c] = input[c] =>
            \A s \in ServicesOf(c) : IsReadyForInput(s, input[c])

-----------------------------------------------------------------------------
(* The inductive invariant of Spec behind InUseProtected.                  *)

NotNewer(p, q) == \A k \in Kinds : p[k] <= q[k]

(* Contents move from Nova towards the pods and reports move back, so      *)
(* along this way they can only get older.                                 *)
IssuedBounds ==
    \A k \in Kinds : current[k] <= issued[k]

InputsAreIssued ==
    \A u \in Units : input[u] # NoInput => NotNewer(input[u], Content(u, current))

CacheLags ==
    \A u \in Units : cache[u] # NoInput =>
        input[u] # NoInput /\ NotNewer(cache[u], input[u])

RolloutLags ==
    \A s \in Services :
        /\ template[s] # NoInput =>
              cache[UnitOf[s]] # NoInput /\ NotNewer(template[s], cache[UnitOf[s]])
        /\ \A p \in pods[s] : template[s] # NoInput /\ NotNewer(p, template[s])

ReportsLag ==
    /\ \A s \in Services : applied[s] # NoInput =>
          /\ template[s] # NoInput
          /\ NotNewer(applied[s], template[s])
          /\ pods[s] # {}
          /\ \A p \in pods[s] : NotNewer(applied[s], p)
    /\ \A c \in Cells : cellApplied[c] # NoInput =>
          \A s \in ServicesOf(c) :
             applied[s] # NoInput /\ NotNewer(cellApplied[c], applied[s])

(* Whatever is on its way to a pod carries the finalizer.                  *)
Protected ==
    /\ \A u \in Units : CredsOf(input[u]) \cup CredsOf(cache[u]) \subseteq finalizers
    /\ \A s \in Services :
          /\ CredsOf(template[s]) \subseteq finalizers
          /\ \A p \in pods[s] : CredsOf(p) \subseteq finalizers

(* All of unit u is on the content this reconcile wants it to have.        *)
Settled(u) ==
    /\ input[u] = Content(u, view)
    /\ \A s \in ServicesOf(u) : applied[s] = Content(u, view)

(* What a reconcile in progress knows.                                     *)
ViewOK ==
    pc # "idle" =>
        /\ NotNewer(view, current)
        /\ cell0Ready => view[API] # 0
        /\ \A k \in Kinds : view[k] # 0 => <<k, view[k]>> \in finalizers

ViewIsLatest ==
    pc = "cells" =>
        \A u \in Units : input[u] # NoInput /\ view[BusOf(u)] # 0 =>
            NotNewer(input[u], Content(u, view))

ReadyMeansSettled ==
    /\ pc = "cells" /\ allReady =>
          \A i \in 1 .. next - 1 : Settled(CellOrder[i])
    /\ pc \in {"release", "prune"} /\ allReady => \A u \in Units : Settled(u)
    /\ pc = "prune" => allReady

RotationInv ==
    /\ TypeOK
    /\ IssuedBounds
    /\ InputsAreIssued
    /\ CacheLags
    /\ RolloutLags
    /\ ReportsLag
    /\ Protected
    /\ ViewOK
    /\ ViewIsLatest
    /\ ReadyMeansSettled

-----------------------------------------------------------------------------
(* A secret that a reconcile found current keeps the finalizer until that  *)
(* reconcile has ended, even if a newer one is published meanwhile.        *)
CurrentStaysHeld ==
    [][ \A k \in Kinds :
          pc # "idle" /\ view[k] # 0 => <<k, view[k]>> \in finalizers' ]_vars

(* Rotations of transport URLs complete: once the issuers are quiet, the   *)
(* only transport secrets left with the finalizer are the current ones,    *)
(* intermediate secrets of a rapid rotation A -> B -> C included.          *)
TransportReleased ==
    <>[](\A f \in finalizers : f[1] # AC => f[2] = current[f[1]])

(* The detailed rotation implements the lease of CredentialLease.          *)
Lease == INSTANCE CredentialLease WITH held <- finalizers, used <- InUse
LeaseSpec == Lease!Spec
=============================================================================
