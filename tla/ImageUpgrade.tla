------------------------------ MODULE ImageUpgrade ------------------------------
(***************************************************************************)
(* A new container image on its way from the Nova CR to the pods.  Nova    *)
(* hands it to the NovaCells and, behind the cell0 gate, to the top-level  *)
(* services; a NovaCell hands it to its services; the controller of a      *)
(* conductor has the schema of its databases migrated before it changes    *)
(* the StatefulSet.                                                        *)
(*                                                                         *)
(* All controllers run in one manager and read CRs through its cache.  A   *)
(* parent knows of a child what CreateOrPatch returns: the cached CR if    *)
(* that has the wanted spec already, else the answer of the API server.    *)
(* The status of a CR is written at the end of its reconcile, as a merge   *)
(* patch against the copy read at the start, which may be out of date.     *)
(*                                                                         *)
(* Images are numbered; the spec of a CR changes with the image only, so   *)
(* the number is its generation too.  Input Secrets do not change: once a  *)
(* service was ready it has applied its input (their rotation is in        *)
(* SecretRotation), and databases and buses are there (CellLifecycle).     *)
(***************************************************************************)
EXTENDS Naturals, Sequences, FiniteSets

CONSTANTS
    NovaCR,         \* the name of the Nova CR
    CellOrder,      \* the cells of the Nova CR: cell0 first, then by name
    APIAccess,      \* the cells whose template has HasAPIAccess
    CellServices,   \* CellServices[c]: services of a cell in order, the conductor first
    TopServices,    \* the top-level services in the order Nova ensures them
    MaxImage,       \* bound: container images
    MaxFaults       \* bound: failing calls, lost status patches, failing jobs,
                    \* and reconciles that the cache overtakes

Elements(q) == { q[i] : i \in DOMAIN q }
Cells == Elements(CellOrder)
Cell0 == CellOrder[1]
Conductor(c) == CellServices[c][1]
Conductors == { Conductor(c) : c \in Cells }
Services == Elements(TopServices) \cup UNION { Elements(CellServices[c]) : c \in Cells }
CRNames == {NovaCR} \cup Cells \cup Services
Image == 0 .. MaxImage

ASSUME UpgradeConstants ==
    /\ CellOrder \in Seq(Cells) /\ Len(CellOrder) >= 1
    /\ APIAccess \subseteq Cells
    /\ TopServices \in Seq(Services)
    /\ CellServices \in [Cells -> Seq(Services) \ {<<>>}]
    /\ \A c \in Cells : Elements(CellServices[c]) \cap Elements(TopServices) = {}
    /\ \A c, d \in Cells : c # d =>
          Elements(CellServices[c]) \cap Elements(CellServices[d]) = {}
    /\ Cells \cap Services = {} /\ NovaCR \notin Cells \cup Services
    /\ MaxImage \in Nat \ {0} /\ MaxFaults \in Nat

VARIABLES
    cr,         \* cr[x]: Nova CR, CR of a cell or of a service, as [want, obs,
                \* ready, synced, founded]: image in the spec (0 if there is no
                \* CR), ObservedGeneration, Ready condition, Hash[DbSyncHash]
                \* (conductors); founded is history: a reconcile has found x
                \* ready with the image that the status says it has observed
    seen,       \* seen[x]: the copy of cr[x] in the cache
    base,       \* base[x]: the copy a reconcile of x has read, once the cache
                \* holds another one; else NoCR
    job,        \* job[c]: DB sync job of the conductor of c, as [state, image]
    schema,     \* schema[c]: image the database of the cell is migrated to
    apiSchema,  \* the same for the API database
    template,   \* template[s]: image of the StatefulSet, 0 for none
    purge,      \* purge[c]: image of the DB purge cron job of c, 0 for none
    pods,       \* pods[s]: images of the running pods
    next,       \* the cell the Nova reconcile handles next; 1 if none is running
    cell0,      \* local: cells[cell0], what ensureCell returned for it
    allReady,   \* local: cells and services were ready so far
    allFounded, \* history: and so by founded reports
    misled,     \* history: image last handed to the top-level services behind
                \* an unfounded report of cell0
    faults

crVars == <<cr, seen, base>>
dbVars == <<job, schema, apiSchema>>
podVars == <<template, purge, pods>>
localVars == <<next, cell0, allReady, allFounded>>
vars == <<crVars, localVars, misled, dbVars, podVars, faults>>

NoCR == [want |-> 0, obs |-> 0, ready |-> FALSE, synced |-> 0, founded |-> FALSE]
NoJob == [state |-> "none", image |-> 0]

(* The image the user has asked for.                                       *)
image == cr[NovaCR].want

Init ==
    /\ cr = [x \in CRNames |-> IF x = NovaCR THEN [NoCR EXCEPT !.want = 1] ELSE NoCR]
    /\ seen = cr
    /\ base = [x \in CRNames |-> NoCR]
    /\ job = [c \in Cells |-> NoJob]
    /\ schema = [c \in Cells |-> 0]
    /\ apiSchema = 0
    /\ template = [s \in Services |-> 0]
    /\ purge = [c \in Cells |-> 0]
    /\ pods = [s \in Services |-> {}]
    /\ next = 1
    /\ cell0 = NoCR
    /\ allReady = FALSE
    /\ allFounded = FALSE
    /\ misled = 0
    /\ faults = 0

Fault == faults < MaxFaults /\ faults' = faults + 1

-----------------------------------------------------------------------------
(* The user asks for the next image.                                       *)
Upgrade ==
    /\ image < MaxImage
    /\ cr' = [cr EXCEPT ![NovaCR].want = @ + 1]
    /\ UNCHANGED <<seen, base, localVars, misled, dbVars, podVars, faults>>

(* The copy of x a reconcile works with.                                   *)
Copy(x) == IF base[x] # NoCR THEN base[x] ELSE seen[x]

(* The cache catches up, and may overtake a reconcile that has read x; as  *)
(* that read commutes with all other steps, it is not a step of its own.   *)
CacheSync(x) ==
    /\ seen[x] # cr[x]
    /\ seen' = [seen EXCEPT ![x] = cr[x]]
    /\ \/ UNCHANGED <<base, faults>>
       \/ /\ base[x] = NoCR /\ seen[x] # NoCR
          /\ base' = [base EXCEPT ![x] = seen[x]]
          /\ Fault
    /\ UNCHANGED <<cr, localVars, misled, dbVars, podVars>>

-----------------------------------------------------------------------------
(* The deferred PatchInstance of x.  A field the reconcile leaves as it    *)
(* has read it is not in the patch and stays what it is by now.  The       *)
(* conditions are one field, which may differ although Ready is the same.  *)
Merge(computed, read, current) == IF computed = read THEN current ELSE computed

(* The CRs r, patched by a reconcile that found x to be ready or not;      *)
(* founded: by what it saw itself or by founded reports.                   *)
Patched(r, x, ready, synced, founded) ==
    LET read == Copy(x)
        obs == Merge(read.want, read.obs, r[x].obs)
    IN { [r EXCEPT ![x].obs = obs,
                   ![x].ready = shown,
                   ![x].synced = Merge(synced, read.synced, r[x].synced),
                   ![x].founded = \/ ready /\ founded /\ shown /\ obs = read.want
                                  \/ r[x].founded /\ shown /\ obs = r[x].obs] :
         shown \in {ready, Merge(ready, read.ready, r[x].ready)} }

(* A reconcile of x has returned.                                          *)
Done(x) == base' = [base EXCEPT ![x] = NoCR]

-----------------------------------------------------------------------------
(* CreateOrPatch of x with image w: the CR as it is then in the API server *)
(* and as the caller gets to see it.  A CR that exists but is not cached   *)
(* yet cannot be ensured (AlreadyExists).  The mutant only creates.        *)
CreateOnly(x, w) == IF cr[x].want # 0 THEN cr[x] ELSE [cr[x] EXCEPT !.want = w]

EnsureCR(x, w) == IF seen[x].want = w THEN cr[x] ELSE [cr[x] EXCEPT !.want = w]

ReturnedCR(x, w) == IF seen[x].want = w THEN seen[x] ELSE EnsureCR(x, w)

CanEnsure(x) == seen[x].want = 0 => cr[x].want = 0

(* The first n of a list of children are ensured; then, unless that was    *)
(* all of them, a call fails.                                              *)
EnsuredUpTo(children, n) ==
    /\ \A i \in 1 .. n : CanEnsure(children[i])
    /\ n < Len(children) /\ CanEnsure(children[n + 1]) => Fault
    /\ n = Len(children) \/ ~CanEnsure(children[n + 1]) => UNCHANGED faults

(* A parent takes over the Ready condition of a child that has observed    *)
(* its spec; of another one it knows nothing (the mutant does not look).   *)
ChildWasReady(child) == child.ready
ChildIsReady(child) == child.want = child.obs /\ child.ready

AllReady(children, w) ==
    \A i \in DOMAIN children : ChildIsReady(ReturnedCR(children[i], w))

AllFounded(children, w) ==
    \A i \in DOMAIN children : ReturnedCR(children[i], w).founded

(* cr once the first n children have been ensured.                         *)
CRsWith(children, n, w) ==
    [x \in CRNames |->
        IF \E i \in 1 .. n : children[i] = x THEN EnsureCR(x, w) ELSE cr[x]]

-----------------------------------------------------------------------------
(* The Nova controller.                                                    *)

(* A cell that needs the API database waits for a ready cell0; whether     *)
(* cell0 is ready with its current spec is not asked here.                 *)
SkipCell(c) == c # Cell0 /\ c \in APIAccess /\ ~cell0.ready

(* The image in the copy of the Nova CR this reconcile works with.         *)
view == Copy(NovaCR).want

(* One turn of the loop over orderedCellNames; the first one reads the     *)
(* spec.  A cell that is ready may still have to be mapped, and is then    *)
(* not counted as ready.                                                   *)
NovaEnsureCell ==
    /\ next <= Len(CellOrder)
    /\ next' = next + 1
    /\ base' = [base EXCEPT ![NovaCR] = Copy(NovaCR)]
    /\ LET c == CellOrder[next]
       IN IF SkipCell(c)
          THEN /\ allReady' = FALSE
               /\ allFounded' = FALSE
               /\ UNCHANGED <<cr, cell0, faults>>
          ELSE \E n \in {0, 1}, mapped \in BOOLEAN :
                  /\ EnsuredUpTo(<<c>>, n)
                  /\ cr' = CRsWith(<<c>>, n, view)
                  /\ cell0' = IF c = Cell0 /\ n = 1 THEN ReturnedCR(c, view) ELSE cell0
                  /\ allReady' = /\ next = 1 \/ allReady
                                 /\ n = 1 /\ mapped
                                 /\ AllReady(<<c>>, view)
                  /\ allFounded' = /\ allReady' /\ (next = 1 \/ allFounded)
                                   /\ AllFounded(<<c>>, view)
    /\ UNCHANGED <<seen, misled, dbVars, podVars>>

(* The gate in front of the top-level services: cell0 is ready and has     *)
(* observed its spec (the mutant asks the first only).                     *)
GateWithoutGeneration == cell0.ready
Cell0Gate == cell0.ready /\ cell0.want <= cell0.obs

(* Reconcile returns and its local variables are gone.                     *)
Return ==
    /\ next' = 1
    /\ cell0' = NoCR
    /\ allReady' = FALSE
    /\ allFounded' = FALSE

(* The rest of the reconcile: the gate, the top-level services, and the    *)
(* deferred PatchInstance, which may fail.                                 *)
NovaEnsureTop ==
    /\ next > Len(CellOrder)
    /\ \/ /\ ~Cell0Gate
          /\ cr' \in Patched(cr, NovaCR, FALSE, 0, FALSE)
          /\ UNCHANGED <<misled, faults>>
       \/ /\ Cell0Gate
          /\ misled' = IF cell0.founded THEN misled ELSE view
          /\ \E n \in 0 .. Len(TopServices) :
                /\ EnsuredUpTo(TopServices, n)
                /\ cr' \in Patched(CRsWith(TopServices, n, view), NovaCR,
                                   /\ allReady /\ n = Len(TopServices)
                                   /\ AllReady(TopServices, view),
                                   0,
                                   allFounded /\ AllFounded(TopServices, view))
       \/ /\ Cell0Gate
          /\ misled' = IF cell0.founded THEN misled ELSE view
          /\ \A i \in DOMAIN TopServices : CanEnsure(TopServices[i])
          /\ Fault
          /\ cr' = CRsWith(TopServices, Len(TopServices), view)
    /\ Return
    /\ Done(NovaCR)
    /\ UNCHANGED <<seen, dbVars, podVars>>

(* The manager stops, and with it whatever reconcile is running.           *)
Restart ==
    /\ next # 1 \/ \E x \in CRNames : base[x] # NoCR
    /\ Fault
    /\ Return
    /\ base' = [x \in CRNames |-> NoCR]
    /\ UNCHANGED <<cr, seen, misled, dbVars, podVars>>

-----------------------------------------------------------------------------
(* The NovaCell controller ensures the services of the cell and is ready   *)
(* when all of them are; the status patch may be lost.                     *)
CellReconcile(c) ==
    LET w == Copy(c).want
        children == CellServices[c]
    IN /\ w # 0
       /\ \/ \E n \in 0 .. Len(children) :
                /\ EnsuredUpTo(children, n)
                /\ cr' \in Patched(CRsWith(children, n, w), c,
                                   n = Len(children) /\ AllReady(children, w),
                                   0,
                                   AllFounded(children, w))
          \/ /\ \A i \in DOMAIN children : CanEnsure(children[i])
             /\ Fault
             /\ cr' = CRsWith(children, Len(children), w)
       /\ Done(c)
       /\ UNCHANGED <<seen, localVars, misled, dbVars, podVars>>

-----------------------------------------------------------------------------
(* The service controllers.                                                *)

(* What a service controller may make of its status.  Pods come and go     *)
(* only towards the StatefulSet, which nobody else changes: what it has    *)
(* found of them still holds when it patches.                              *)
Status(s, ready, synced) == Patched(cr, s, ready, synced, TRUE)

(* A service reconcile that stops on an error before it deploys anything.  *)
SvcError(s) ==
    /\ Copy(s).want # 0
    /\ Fault
    /\ cr' \in Status(s, FALSE, Copy(s).synced)
    /\ Done(s)
    /\ UNCHANGED <<seen, localVars, misled, dbVars, podVars>>

(* DoJob for the DB sync job: it is run unless its hash is the recorded    *)
(* one, an older job is replaced, and this one is waited for.              *)
DoJob(c, w, recorded) ==
    IF w = recorded THEN [job |-> job[c], result |-> "unchanged"]
    ELSE IF job[c].image # w
    THEN [job |-> [state |-> "running", image |-> w], result |-> "running"]
    ELSE [job |-> job[c], result |-> job[c].state]

(* ensureCellDBSynced lets the reconcile go on.  (The mutant goes on as    *)
(* soon as the job is there.)                                              *)
SyncRequested(result) == result # "failed"
Synced(result) == result \in {"unchanged", "done"}

Sync(c) == DoJob(c, Copy(Conductor(c)).want, Copy(Conductor(c)).synced)

(* The conductor has to wait for the job, or for its failure to be looked  *)
(* at: no status but this, and perhaps not even that is written.           *)
ConductorWaits(c) ==
    LET s == Conductor(c)
    IN /\ Copy(s).want # 0
       /\ ~Synced(Sync(c).result)
       /\ job' = [job EXCEPT ![c] = Sync(c).job]
       /\ \/ /\ cr' \in Status(s, FALSE, Copy(s).synced)
             /\ UNCHANGED faults
          \/ /\ Fault
             /\ UNCHANGED cr
       /\ Done(s)
       /\ UNCHANGED <<seen, localVars, misled, schema, apiSchema, podVars>>

(* IsReadyForInput, an uncached read after the StatefulSet was patched.    *)
RolledOut(s, w) == template[s] = w /\ pods[s] = {w}

(* The conductor rolls out: sync recorded, StatefulSet, purge cron job.    *)
(* Calls may fail after the first two of these.                            *)
ConductorRolls(c) ==
    LET s == Conductor(c)
        w == Copy(s).want
    IN /\ w # 0
       /\ Synced(Sync(c).result)
       /\ job' = [job EXCEPT ![c] = Sync(c).job]
       /\ \/ /\ Fault
             /\ cr' \in Status(s, FALSE, w)
             /\ UNCHANGED <<template, purge>>
          \/ /\ Fault
             /\ template' = [template EXCEPT ![s] = w]
             /\ cr' \in Status(s, FALSE, w)
             /\ UNCHANGED purge
          \/ /\ template' = [template EXCEPT ![s] = w]
             /\ purge' = [purge EXCEPT ![c] = w]
             /\ \/ /\ cr' \in Status(s, RolledOut(s, w), w)
                   /\ UNCHANGED faults
                \/ /\ Fault
                   /\ UNCHANGED cr
       /\ Done(s)
       /\ UNCHANGED <<seen, localVars, misled, schema, apiSchema, pods>>

(* The controllers of the other services have no schema to wait for.  What *)
(* fails here is the exposure of the service, or the status patch.         *)
SvcRolls(s) ==
    /\ s \notin Conductors
    /\ Copy(s).want # 0
    /\ template' = [template EXCEPT ![s] = Copy(s).want]
    /\ \/ /\ cr' \in Status(s, RolledOut(s, Copy(s).want), 0)
          /\ UNCHANGED faults
       \/ /\ Fault
          /\ cr' \in {cr} \cup Status(s, FALSE, 0)
    /\ Done(s)
    /\ UNCHANGED <<seen, localVars, misled, dbVars, purge, pods>>

-----------------------------------------------------------------------------
(* The pods.                                                               *)

(* The script of cell0's job: first the API database, then its own.        *)
ApiDbSync ==
    /\ job[Cell0].state = "running"
    /\ apiSchema # job[Cell0].image
    /\ apiSchema' = job[Cell0].image
    /\ UNCHANGED <<crVars, localVars, misled, job, schema, podVars, faults>>

DbSync(c) ==
    /\ job[c].state = "running"
    /\ c = Cell0 => apiSchema = job[c].image
    /\ schema' = [schema EXCEPT ![c] = job[c].image]
    /\ job' = [job EXCEPT ![c].state = "done"]
    /\ UNCHANGED <<crVars, localVars, misled, apiSchema, podVars, faults>>

DbSyncFails(c) ==
    /\ job[c].state = "running"
    /\ Fault
    /\ job' = [job EXCEPT ![c].state = "failed"]
    /\ UNCHANGED <<crVars, localVars, misled, schema, apiSchema, podVars>>

PodStart(s) ==
    /\ template[s] # 0
    /\ template[s] \notin pods[s]
    /\ pods' = [pods EXCEPT ![s] = @ \cup {template[s]}]
    /\ UNCHANGED <<crVars, localVars, misled, dbVars, template, purge, faults>>

PodReplace(s) ==
    /\ template[s] \in pods[s]
    /\ \E p \in pods[s] \ {template[s]} : pods' = [pods EXCEPT ![s] = @ \ {p}]
    /\ UNCHANGED <<crVars, localVars, misled, dbVars, template, purge, faults>>

-----------------------------------------------------------------------------
Nova == NovaEnsureCell \/ NovaEnsureTop

ConductorReconcile(c) == ConductorWaits(c) \/ ConductorRolls(c)

Next ==
    \/ Upgrade
    \/ Nova
    \/ Restart
    \/ \E x \in CRNames : CacheSync(x)
    \/ \E c \in Cells : \/ CellReconcile(c)
                        \/ ConductorReconcile(c)
                        \/ DbSync(c)
                        \/ DbSyncFails(c)
    \/ ApiDbSync
    \/ \E s \in Services : \/ SvcError(s)
                           \/ SvcRolls(s)
                           \/ PodStart(s)
                           \/ PodReplace(s)

Spec == Init /\ [][Next]_vars

(* Every change of a CR, a job or a StatefulSet queues a reconcile of its  *)
(* owner, the cache catches up, and pods start, finish and are replaced.   *)
Fairness ==
    /\ WF_vars(Nova)
    /\ \A x \in CRNames : WF_vars(CacheSync(x))
    /\ \A c \in Cells : /\ WF_vars(CellReconcile(c))
                        /\ WF_vars(ConductorReconcile(c))
                        /\ WF_vars(DbSync(c))
    /\ WF_vars(ApiDbSync)
    /\ \A s \in Services : WF_vars(SvcRolls(s)) /\ WF_vars(PodStart(s))
                                                /\ WF_vars(PodReplace(s))

FairSpec == Spec /\ Fairness

-----------------------------------------------------------------------------
CR == [want : Image, obs : Image, ready : BOOLEAN, synced : Image, founded : BOOLEAN]

(* Types; a Nova reconcile keeps the copy it has read.                     *)
TypeOK ==
    /\ cr \in [CRNames -> CR] /\ seen \in [CRNames -> CR] /\ base \in [CRNames -> CR]
    /\ next > 1 => base[NovaCR] # NoCR
    /\ job \in [Cells -> [state : {"none", "running", "done", "failed"}, image : Image]]
    /\ schema \in [Cells -> Image] /\ apiSchema \in Image
    /\ template \in [Services -> Image] /\ purge \in [Cells -> Image]
    /\ pods \in [Services -> SUBSET (1 .. MaxImage)]
    /\ next \in 1 .. Len(CellOrder) + 1
    /\ cell0 \in CR /\ allReady \in BOOLEAN /\ allFounded \in BOOLEAN
    /\ misled \in Image
    /\ faults \in 0 .. MaxFaults

(* No conductor pod, pod template or purge job has an image the database   *)
(* of its cell is not migrated to, nor, in cell0, one the API database is  *)
(* not migrated to ("cell0 additionally needs its API DB schema synced     *)
(* before the per-cell DB sync runs"): sync jobs are replaced, fail, and   *)
(* are judged by a recorded hash that is read from the cache.              *)
SchemaFirst ==
    \A c \in Cells : \A p \in pods[Conductor(c)] \cup {template[Conductor(c)], purge[c]} :
        p <= schema[c] /\ (c = Cell0 => p <= apiSchema)

(* The top-level services come after cell0: none of their pods or pod      *)
(* templates has an image that the API database is not migrated to or that *)
(* some conductor pod of cell0 does not run yet ("top level services need  *)
(* cell0 to register in"), except one that was handed on when cell0 had    *)
(* shown a Ready that no reconcile has found.                              *)
TopFollowsCell0 ==
    \A s \in Elements(TopServices) : \A p \in pods[s] \cup {template[s]} : p > misled =>
        /\ p <= apiSchema /\ p <= schema[Cell0]
        /\ pods[Conductor(Cell0)] # {}
        /\ \A q \in pods[Conductor(Cell0)] : p <= q

(* A Nova CR that is Ready at a generation tells the truth about pods two  *)
(* levels of status below it: all services run that image or a newer one.  *)
(* So it is unless a merge patch, of it or of a CR it relied on, has put   *)
(* the Ready of one generation beside another one.                         *)
ReadyMeansRolledOut ==
    cr[NovaCR].founded =>
        \A s \in Services : pods[s] # {} /\ \A p \in pods[s] : cr[NovaCR].obs <= p

(* Upgrades complete through errors, restarts and lost status patches,     *)
(* except that a failed DB sync job is not tried again.                    *)
UpgradeCompletes ==
    <>[]( \/ \A s \in Services : pods[s] = {image}
          \/ \E c \in Cells : job[c].state = "failed" )

-----------------------------------------------------------------------------
(* The inductive invariant behind the three of them.                       *)

(* Service s has been rolled out with image v or a newer one.              *)
AtLeast(s, v) ==
    /\ pods[s] # {}
    /\ v <= template[s]
    /\ \A p \in pods[s] : v <= p

CellAtLeast(c, v) == \A s \in Elements(CellServices[c]) : AtLeast(s, v)

(* Images grow: nobody hands on an older one than he has handed on before, *)
(* or claims to have observed one he was never given.                      *)
ImagesGrow ==
    /\ view # 0
    /\ \A x \in CRNames : /\ Copy(x).want <= seen[x].want /\ seen[x].want <= cr[x].want
                          /\ cr[x].obs <= cr[x].want
    /\ \A x \in Cells \cup Elements(TopServices) : cr[x].want <= view
    /\ \A c \in Cells : \A s \in Elements(CellServices[c]) :
          cr[s].want <= Copy(c).want
    /\ \A s \in Services :
          /\ template[s] <= Copy(s).want
          /\ \A p \in pods[s] : p <= template[s]

(* What is recorded as migrated is, and the schema is never ahead of the   *)
(* job, nor the job of the CR.                                             *)
SchemaKnown(c, recorded) == recorded <= schema[c] /\ (c = Cell0 => recorded <= apiSchema)

SyncsRecorded ==
    \A c \in Cells :
        LET s == Conductor(c)
        IN /\ schema[c] <= job[c].image /\ job[c].image <= Copy(s).want
           /\ c = Cell0 => apiSchema <= job[c].image
           /\ job[c].state = "done" => SchemaKnown(c, job[c].image)
           /\ \A r \in {cr[s], seen[s], base[s]} : SchemaKnown(c, r.synced)
           /\ SchemaKnown(c, template[s]) /\ SchemaKnown(c, purge[c])

(* A founded report that something is ready, however old, and wherever it  *)
(* is kept, tells the truth about the image it was made for.               *)
ReportsTrue ==
    /\ \A s \in Services : \A r \in {cr[s], seen[s], base[s]} :
          r.founded => AtLeast(s, r.obs)
    /\ \A c \in Cells : \A r \in {cr[c], seen[c], base[c]} :
          r.founded => CellAtLeast(c, r.obs)
    /\ cell0.founded => next > 1 /\ cell0.want = view /\ CellAtLeast(Cell0, cell0.obs)
    /\ allFounded => next > 1 /\ \A i \in 1 .. next - 1 : CellAtLeast(CellOrder[i], view)
    /\ \A r \in {cr[NovaCR], seen[NovaCR], base[NovaCR]} :
          r.founded => \A s \in Services : AtLeast(s, r.obs)

(* The gate of cell0, opened by a founded report.                          *)
TopBehindCell0 ==
    \A s \in Elements(TopServices) :
        cr[s].want > misled => AtLeast(Conductor(Cell0), cr[s].want)

UpgradeInv ==
    /\ TypeOK
    /\ ImagesGrow
    /\ SyncsRecorded
    /\ ReportsTrue
    /\ TopBehindCell0

=============================================================================
