----------------------------- MODULE CellLifecycle -----------------------------
(***************************************************************************)
(* The life of the cells of one Nova: databases and message buses, the     *)
(* NovaCell CR, the jobs that map the cell in the nova_api database,       *)
(* discover its computes and delete its mapping, and the removal of        *)
(* everything once the cell has left Nova.Spec.CellTemplates.              *)
(*                                                                         *)
(* A reconcile of the Nova controller is NovaStart, NovaEnsureCell for     *)
(* each cell of orderedCellNames, NovaList, then NovaDeleteJob and         *)
(* NovaDrop for each NovaCell that is no longer in the spec, and NovaPatch,*)
(* the deferred write of the status.  The user, the databases and buses,   *)
(* the NovaCell controller and the pods of the jobs run in between.        *)
(*                                                                         *)
(* The configuration of a cell (credentials, hosts, transport URL) is a    *)
(* version number; the hash that is the identity of a mapping job is that  *)
(* version, the hash of a discovery job the version of the compute         *)
(* templates.  Credential finalizers and pod rollouts are in               *)
(* SecretRotation.                                                         *)
(***************************************************************************)
EXTENDS Naturals, Sequences, FiniteSets

CONSTANTS
    CellOrder,      \* every cell there may be: cell0 first, then by name
    APIAccess,      \* the cells whose template has HasAPIAccess
    MaxVersion,     \* MaxVersion[c], bound: configurations of cell c
    MaxTemplates,   \* bound: versions of the compute templates of a cell
    MaxRemovals,    \* bound: cells removed from the spec
    MaxFaults,      \* bound: failing calls and jobs, jobs cleaned up, restarts
    FreshConfig,    \* TRUE: a cell that is added again has new credentials
    PreserveJobs    \* Nova.Spec.PreserveJobs: finished jobs are kept

Cells == { CellOrder[i] : i \in DOMAIN CellOrder }
Cell0 == CellOrder[1]

ASSUME CellConstants ==
    /\ CellOrder \in Seq(Cells) /\ Len(CellOrder) >= 1
    /\ \A i, j \in DOMAIN CellOrder : CellOrder[i] = CellOrder[j] => i = j
    /\ APIAccess \subseteq Cells
    /\ MaxVersion \in [Cells -> Nat \ {0}]
    /\ {MaxTemplates, MaxRemovals, MaxFaults} \subseteq Nat
    /\ {FreshConfig, PreserveJobs} \subseteq BOOLEAN

(* What is kept for a cell besides its NovaCell CR, in the order in which  *)
(* ensureCellDeleted removes it.                                           *)
Teardown == <<"secret", "jobSecrets", "transportURL", "account", "database">>
Resources == { Teardown[i] : i \in DOMAIN Teardown }
Backend == {"transportURL", "account", "database"}

Version == UNION { 0 .. MaxVersion[c] : c \in Cells }
Template == 0 .. MaxTemplates
JobState == {"none", "created", "started", "done", "failed"}

VARIABLES
    spec,         \* the cells in CellTemplates
    version,      \* version[c]: configuration the spec and its secrets give cell c
    templates,    \* templates[c]: compute templates of c, 0 for none
    resources,    \* resources[c]: which of Resources exist
    up,           \* up[c]: the databases and the bus of c are Ready
    want,         \* want[c]: the NovaCell CR, as [v, t]; NoCR if there is none
    got,          \* got[c]: what the NovaCell is Ready with and has applied, or NoCR
    config,       \* config[c]: version in the Secret of the nova-manage jobs of c
    mapJob,       \* mapJob[c]: mapping job, as [state, hash, mounted]
    discoverJob,  \* discoverJob[c]: host discovery job
    deleteJob,    \* deleteJob[c]: cell delete job
    row,          \* row[c]: version in nova_api.cell_mappings, 0 for no row
    hosts,        \* hosts[c]: compute templates whose hosts are mapped, 0 for none
    registered,   \* Status.RegisteredCells
    discovered,   \* Status.DiscoveredCells
    readyCells,   \* the cells the last reconcile counted as CellReady
    deletionDone, \* the NovaCellsDeletion condition
    pc, next,     \* where the Nova reconcile is
    view,         \* local: [v, t] of each cell in the spec it has read, or NoCR
    usable,       \* local: cells whose DB and MQ it found Completed
    reg, disc,    \* local: RegisteredCells and DiscoveredCells, not yet patched
    seenReady,    \* local: cells with status CellReady so far
    cell0Ready,   \* local: cells[cell0] is not nil and IsReady
    doomed,       \* local: NovaCells to delete that it still has to handle
    blocked,      \* local: some deletion is in progress or has failed
    removals, faults

userVars == <<spec, version, templates, removals>>
jobVars == <<mapJob, discoverJob, deleteJob>>
dbVars == <<row, hosts>>
statusVars == <<registered, discovered, readyCells, deletionDone>>
loopVars == <<next, view, usable, reg, disc, seenReady, cell0Ready>>
localVars == <<loopVars, doomed, blocked>>
vars == <<userVars, resources, up, want, got, config, jobVars, dbVars,
          statusVars, pc, localVars, faults>>

NoCR == [v |-> 0, t |-> 0]
NoJob == [state |-> "none", hash |-> 0, mounted |-> 0]

ForAll(x) == [c \in Cells |-> x]

Init ==
    /\ spec = {Cell0}
    /\ version = [c \in Cells |-> IF c = Cell0 THEN 1 ELSE 0]
    /\ templates = ForAll(0)
    /\ resources = ForAll({})
    /\ up = ForAll(FALSE)
    /\ want = ForAll(NoCR)
    /\ got = ForAll(NoCR)
    /\ config = ForAll(0)
    /\ mapJob = ForAll(NoJob)
    /\ discoverJob = ForAll(NoJob)
    /\ deleteJob = ForAll(NoJob)
    /\ row = ForAll(0)
    /\ hosts = ForAll(0)
    /\ registered = ForAll(0)
    /\ discovered = ForAll(0)
    /\ readyCells = {}
    /\ deletionDone = FALSE
    /\ pc = "idle"
    /\ next = 1
    /\ view = ForAll(NoCR)
    /\ usable = {}
    /\ reg = ForAll(0)
    /\ disc = ForAll(0)
    /\ seenReady = {}
    /\ cell0Ready = FALSE
    /\ doomed = {}
    /\ blocked = FALSE
    /\ removals = 0
    /\ faults = 0

-----------------------------------------------------------------------------
(* The user edits the Nova CR; the webhook keeps cell0 in it and keeps     *)
(* compute templates out of cell0.  (The mutant may remove any cell.)      *)

AddCell(c) ==
    /\ c \notin spec
    /\ spec' = spec \cup {c}
    /\ \E v \in IF FreshConfig \/ version[c] = 0 THEN {version[c] + 1} ELSE {version[c]} :
          /\ v <= MaxVersion[c]
          /\ version' = [version EXCEPT ![c] = v]
    /\ UNCHANGED <<templates, removals, resources, up, want, got, config,
                   jobVars, dbVars, statusVars, pc, localVars, faults>>

RemoveAnyCell(c) ==
    /\ c \in spec
    /\ removals < MaxRemovals
    /\ removals' = removals + 1
    /\ spec' = spec \ {c}
    /\ UNCHANGED <<version, templates, resources, up, want, got, config,
                   jobVars, dbVars, statusVars, pc, localVars, faults>>

RemoveCell(c) ==
    /\ c \in spec \ {Cell0}
    /\ removals < MaxRemovals
    /\ removals' = removals + 1
    /\ spec' = spec \ {c}
    /\ UNCHANGED <<version, templates, resources, up, want, got, config,
                   jobVars, dbVars, statusVars, pc, localVars, faults>>

(* A credential of the cell changes behind its Secrets: the transport URL, *)
(* the service password, the password of the database account.  The spec   *)
(* of the NovaCell, and so its generation, does not change with it.        *)
Reconfigure(c) ==
    /\ c \in spec
    /\ version[c] < MaxVersion[c]
    /\ version' = [version EXCEPT ![c] = @ + 1]
    /\ UNCHANGED <<spec, templates, removals, resources, up, want, got, config,
                   jobVars, dbVars, statusVars, pc, localVars, faults>>

EditTemplates(c) ==
    /\ c \in spec \ {Cell0}
    /\ \E t \in Template \ {templates[c]} :
          templates' = [templates EXCEPT ![c] = t]
    /\ UNCHANGED <<spec, version, removals, resources, up, want, got, config,
                   jobVars, dbVars, statusVars, pc, localVars, faults>>

-----------------------------------------------------------------------------
(* Databases and buses, the NovaCell controller and the pods of the jobs.  *)

BackendReady(c) ==
    /\ ~up[c]
    /\ Backend \subseteq resources[c]
    /\ up' = [up EXCEPT ![c] = TRUE]
    /\ UNCHANGED <<userVars, resources, want, got, config, jobVars, dbVars,
                   statusVars, pc, localVars, faults>>

(* The NovaCell becomes Ready with the spec and the Secret it has now,     *)
(* computes included; deleting a compute takes its host mapping away.      *)
CellDeploys(c) ==
    /\ want[c] # NoCR
    /\ up[c]
    /\ got[c] # want[c]
    /\ got' = [got EXCEPT ![c] = want[c]]
    /\ hosts' = IF want[c].t = 0 THEN [hosts EXCEPT ![c] = 0] ELSE hosts
    /\ UNCHANGED <<userVars, resources, up, want, config, jobVars, row,
                   statusVars, pc, localVars, faults>>

(* ensure_cell_mapping.sh: the pod mounts the Secret it starts with; the   *)
(* script creates the row or updates it, and its container is restarted    *)
(* until one of the two succeeds.                                          *)
MapStart(c) ==
    /\ mapJob[c].state = "created"
    /\ "jobSecrets" \in resources[c]
    /\ mapJob' = [mapJob EXCEPT ![c].state = "started", ![c].mounted = config[c]]
    /\ UNCHANGED <<userVars, resources, up, want, got, config, discoverJob,
                   deleteJob, dbVars, statusVars, pc, localVars, faults>>

MapDone(c) ==
    /\ mapJob[c].state = "started"
    /\ row' = [row EXCEPT ![c] = mapJob[c].mounted]
    /\ mapJob' = [mapJob EXCEPT ![c].state = "done"]
    /\ UNCHANGED <<userVars, resources, up, want, got, config, discoverJob,
                   deleteJob, hosts, statusVars, pc, localVars, faults>>

MapFails(c) ==
    /\ mapJob[c].state \in {"created", "started"}
    /\ faults < MaxFaults
    /\ faults' = faults + 1
    /\ mapJob' = [mapJob EXCEPT ![c].state = "failed"]
    /\ UNCHANGED <<userVars, resources, up, want, got, config, discoverJob,
                   deleteJob, dbVars, statusVars, pc, localVars>>

(* discover_hosts looks at the mapped cells only and succeeds without one. *)
DiscoverDone(c) ==
    /\ discoverJob[c].state = "created"
    /\ "jobSecrets" \in resources[c]
    /\ discoverJob' = [discoverJob EXCEPT ![c].state = "done"]
    /\ hosts' = IF row[c] # 0 THEN [hosts EXCEPT ![c] = got[c].t] ELSE hosts
    /\ UNCHANGED <<userVars, resources, up, want, got, config, mapJob,
                   deleteJob, row, statusVars, pc, localVars, faults>>

(* delete_cell.sh, with the configuration of cell0, fails for a cell that  *)
(* is not mapped or still has hosts.                                       *)
DeleteDone(c) ==
    /\ deleteJob[c].state = "created"
    /\ IF row[c] # 0 /\ hosts[c] = 0
       THEN /\ row' = [row EXCEPT ![c] = 0]
            /\ deleteJob' = [deleteJob EXCEPT ![c].state = "done"]
       ELSE /\ deleteJob' = [deleteJob EXCEPT ![c].state = "failed"]
            /\ UNCHANGED row
    /\ UNCHANGED <<userVars, resources, up, want, got, config, mapJob,
                   discoverJob, hosts, statusVars, pc, localVars, faults>>

(* A finished job that is not preserved is cleaned up after a while.       *)
JobExpires(c) ==
    /\ ~PreserveJobs
    /\ faults < MaxFaults
    /\ faults' = faults + 1
    /\ \/ /\ mapJob[c].state = "done"
          /\ mapJob' = [mapJob EXCEPT ![c] = NoJob]
          /\ UNCHANGED <<discoverJob, deleteJob>>
       \/ /\ discoverJob[c].state = "done"
          /\ discoverJob' = [discoverJob EXCEPT ![c] = NoJob]
          /\ UNCHANGED <<mapJob, deleteJob>>
       \/ /\ deleteJob[c].state = "done"
          /\ deleteJob' = [deleteJob EXCEPT ![c] = NoJob]
          /\ UNCHANGED <<mapJob, discoverJob>>
    /\ UNCHANGED <<userVars, resources, up, want, got, config, dbVars,
                   statusVars, pc, localVars>>

-----------------------------------------------------------------------------
(* DoJob: a job runs when its hash differs from the one that is recorded   *)
(* for it; an existing job of another hash is replaced, one of this hash   *)
(* is waited for.                                                          *)
DoJob(job, hash, recorded) ==
    IF hash = recorded THEN [job |-> job, result |-> "unchanged"]
    ELSE IF job.state = "none" \/ job.hash # hash
    THEN [job |-> [state |-> "created", hash |-> hash, mounted |-> 0],
          result |-> "running"]
    ELSE [job |-> job,
          result |-> IF job.state \in {"done", "failed"} THEN job.state ELSE "running"]

(* The Nova controller reads the spec; ensureCellDB and ensureMQ create    *)
(* what is missing for each cell in it.                                    *)
NovaStart ==
    /\ pc = "idle"
    /\ view' = [c \in Cells |-> IF c \in spec THEN [v |-> version[c], t |-> templates[c]]
                                ELSE NoCR]
    /\ resources' = [c \in Cells |-> IF c \in spec THEN resources[c] \cup Backend
                                     ELSE resources[c]]
    /\ usable' = { c \in spec : up[c] }
    /\ reg' = registered
    /\ disc' = discovered
    /\ seenReady' = {}
    /\ cell0Ready' = FALSE
    /\ next' = 1
    /\ pc' = "cells"
    /\ UNCHANGED <<userVars, up, want, got, config, jobVars, dbVars, statusVars,
                   doomed, blocked, faults>>

(* The cells of this round that wait: no database or bus yet, or API       *)
(* access needed while cell0 is not ready.  (The mutant lets cell0 wait    *)
(* for itself.)                                                            *)
SkipCellToo(c) ==
    \/ c \notin usable
    \/ c \in APIAccess /\ ~cell0Ready

SkipCell(c) ==
    \/ c \notin usable
    \/ c # Cell0 /\ c \in APIAccess /\ ~cell0Ready

(* The NovaCell is Ready, has observed its generation and has applied the  *)
(* content of its Secret (the mutant is content with Ready).               *)
CellIsReady(c) == got[c] # NoCR
CellApplied(c) == got[c] = view[c]

(* ensureCellMapped and ensureNovaComputeDiscover.                         *)
Mapping(c) == DoJob(mapJob[c], view[c].v, reg[c])
Discovery(c) ==
    IF view[c].t = 0 THEN [job |-> discoverJob[c], result |-> "unchanged"]
    ELSE DoJob(discoverJob[c], view[c].t, disc[c])

(* The result of a job is recorded when it is done (the mutant records it  *)
(* when the job is created).                                               *)
RecordAtOnce(result) == result # "unchanged"
Record(result) == result = "done"

(* ensureCell for a cell whose NovaCell has applied its input.             *)
MapAndDiscover(c) ==
    /\ config' = [config EXCEPT ![c] = view[c].v]
    /\ mapJob' = [mapJob EXCEPT ![c] = Mapping(c).job]
    /\ reg' = IF Record(Mapping(c).result) THEN [reg EXCEPT ![c] = view[c].v] ELSE reg
    /\ IF Mapping(c).result = "failed"
       THEN UNCHANGED <<discoverJob, disc, seenReady>>
       ELSE /\ discoverJob' = [discoverJob EXCEPT ![c] = Discovery(c).job]
            /\ disc' = IF Record(Discovery(c).result)
                       THEN [disc EXCEPT ![c] = view[c].t] ELSE disc
            /\ seenReady' = IF Discovery(c).result \in {"unchanged", "done"}
                            THEN seenReady \cup {c} ELSE seenReady

(* One turn of the loop over orderedCellNames: nothing, the whole of       *)
(* ensureCell, or a failing call that leaves it after the cell Secret.     *)
NovaEnsureCell ==
    /\ pc = "cells"
    /\ next <= Len(CellOrder)
    /\ next' = next + 1
    /\ LET c == CellOrder[next]
       IN \/ /\ view[c] = NoCR \/ SkipCell(c)
             /\ UNCHANGED <<resources, want, config, mapJob, discoverJob, reg,
                            disc, seenReady, cell0Ready, faults>>
          \/ /\ view[c] # NoCR /\ ~SkipCell(c)
             /\ faults < MaxFaults
             /\ faults' = faults + 1
             /\ resources' = [resources EXCEPT ![c] = @ \cup {"secret"}]
             /\ UNCHANGED <<want, config, mapJob, discoverJob, reg, disc,
                            seenReady, cell0Ready>>
          \/ /\ view[c] # NoCR /\ ~SkipCell(c)
             /\ want' = [want EXCEPT ![c] = view[c]]
             /\ cell0Ready' = IF c = Cell0 THEN got[c] # NoCR ELSE cell0Ready
             /\ IF CellApplied(c)
                THEN /\ resources' = [resources EXCEPT ![c] =
                                         @ \cup {"secret", "jobSecrets"}]
                     /\ MapAndDiscover(c)
                ELSE /\ resources' = [resources EXCEPT ![c] = @ \cup {"secret"}]
                     /\ UNCHANGED <<config, mapJob, discoverJob, reg, disc, seenReady>>
             /\ UNCHANGED faults
    /\ UNCHANGED <<userVars, up, got, deleteJob, dbVars, statusVars, pc, view,
                   usable, doomed, blocked>>

(* The loop is over.  Without a ready cell0 the reconcile stops here; with *)
(* it, the NovaCells that the spec no longer has are looked up.            *)
NovaList ==
    /\ pc = "cells"
    /\ next > Len(CellOrder)
    /\ IF cell0Ready
       THEN /\ doomed' = { c \in Cells : want[c] # NoCR /\ view[c] = NoCR }
            /\ blocked' = FALSE
            /\ pc' = "delete"
       ELSE /\ blocked' = TRUE
            /\ pc' = "patch"
            /\ UNCHANGED doomed
    /\ UNCHANGED <<userVars, resources, up, want, got, config, jobVars, dbVars,
                   statusVars, loopVars, faults>>

(* The next NovaCell to delete: they are handled in the order of names.    *)
IsNextDoomed(c) ==
    /\ c \in doomed
    /\ \A i, j \in DOMAIN CellOrder :
          CellOrder[i] = c /\ CellOrder[j] \in doomed => i <= j

(* ensureCellDeleted: first the delete job has to finish, then the rest is *)
(* removed.  The job runs with the Secret of the nova-manage jobs of cell0,*)
(* which is written here; its hash is that of this Secret.  A failing call *)
(* leaves the cell for the next reconcile.  (The mutants do not wait for   *)
(* the job, or wait for a round without one.)                              *)
GoOnAtOnce(result) == result # "failed"
WhenUnchanged(result) == result = "unchanged"
MayDrop(result) == result = "done"

NovaDeleteJob ==
    /\ pc = "delete"
    /\ \E c \in doomed :
          /\ IsNextDoomed(c)
          /\ \/ /\ resources' = [resources EXCEPT ![Cell0] = @ \cup {"jobSecrets"}]
                /\ config' = [config EXCEPT ![Cell0] = view[Cell0].v]
                /\ LET run == DoJob(deleteJob[c], view[Cell0].v, 0)
                   IN /\ deleteJob' = [deleteJob EXCEPT ![c] = run.job]
                      /\ IF MayDrop(run.result)
                         THEN /\ pc' = "drop"
                              /\ UNCHANGED <<doomed, blocked>>
                         ELSE /\ doomed' = doomed \ {c}
                              /\ blocked' = TRUE
                              /\ UNCHANGED pc
                /\ UNCHANGED faults
             \/ /\ faults < MaxFaults
                /\ faults' = faults + 1
                /\ doomed' = doomed \ {c}
                /\ blocked' = TRUE
                /\ UNCHANGED <<resources, config, deleteJob, pc>>
    /\ UNCHANGED <<userVars, up, want, got, mapJob, discoverJob, dbVars,
                   statusVars, loopVars>>

(* What comes next on the way to the NovaCell CR, which goes last.  The    *)
(* mutant forgets the database.                                            *)
KeepDatabase(c) == resources[c] \ {"database"}
Remaining(c) == resources[c]

IsFirst(c, r) ==
    \E i \in DOMAIN Teardown :
       Teardown[i] = r /\ \A j \in 1 .. i - 1 : Teardown[j] \notin Remaining(c)

(* One deletion, a failing one that leaves the cell for the next           *)
(* reconcile, or the last one: an error of that one is not returned, so    *)
(* the cell counts as deleted either way.                                  *)
NovaDrop ==
    /\ pc = "drop"
    /\ \E c \in doomed :
          /\ IsNextDoomed(c)
          /\ \/ \E r \in Remaining(c) :
                   /\ IsFirst(c, r)
                   /\ resources' = [resources EXCEPT ![c] = @ \ {r}]
                   /\ up' = IF r \in Backend THEN [up EXCEPT ![c] = FALSE] ELSE up
                   /\ UNCHANGED <<want, got, reg, doomed, blocked, pc, faults>>
             \/ /\ Remaining(c) # {}
                /\ faults < MaxFaults
                /\ faults' = faults + 1
                /\ doomed' = doomed \ {c}
                /\ blocked' = TRUE
                /\ pc' = "delete"
                /\ UNCHANGED <<resources, up, want, got, reg>>
             \/ /\ Remaining(c) = {}
                /\ \/ /\ want' = [want EXCEPT ![c] = NoCR]
                      /\ got' = [got EXCEPT ![c] = NoCR]
                      /\ UNCHANGED faults
                   \/ /\ faults < MaxFaults
                      /\ faults' = faults + 1
                      /\ UNCHANGED <<want, got>>
                /\ reg' = [reg EXCEPT ![c] = 0]
                /\ doomed' = doomed \ {c}
                /\ pc' = "delete"
                /\ UNCHANGED <<resources, up, blocked>>
    /\ UNCHANGED <<userVars, config, jobVars, dbVars, statusVars, next, view,
                   usable, disc, seenReady, cell0Ready>>

NovaDeleted ==
    /\ pc = "delete"
    /\ doomed = {}
    /\ pc' = "patch"
    /\ UNCHANGED <<userVars, resources, up, want, got, config, jobVars, dbVars,
                   statusVars, localVars, faults>>

(* The local variables of a reconcile end with it.                         *)
Forget ==
    /\ pc' = "idle"
    /\ next' = 1
    /\ view' = ForAll(NoCR)
    /\ usable' = {}
    /\ reg' = ForAll(0)
    /\ disc' = ForAll(0)
    /\ seenReady' = {}
    /\ cell0Ready' = FALSE
    /\ doomed' = {}
    /\ blocked' = FALSE

(* The deferred PatchInstance.                                             *)
NovaPatch ==
    /\ pc = "patch"
    /\ registered' = reg
    /\ discovered' = disc
    /\ readyCells' = seenReady
    /\ deletionDone' = ~blocked
    /\ Forget
    /\ UNCHANGED <<userVars, resources, up, want, got, config, jobVars, dbVars,
                   faults>>

(* The operator restarts, or the patch fails.                              *)
NovaCrash ==
    /\ pc # "idle"
    /\ faults < MaxFaults
    /\ faults' = faults + 1
    /\ Forget
    /\ UNCHANGED <<userVars, resources, up, want, got, config, jobVars, dbVars,
                   statusVars>>

-----------------------------------------------------------------------------
Nova ==
    \/ NovaStart
    \/ NovaEnsureCell
    \/ NovaList
    \/ NovaDeleteJob
    \/ NovaDrop
    \/ NovaDeleted
    \/ NovaPatch

Workloads(c) ==
    \/ BackendReady(c)
    \/ CellDeploys(c)
    \/ MapStart(c)
    \/ MapDone(c)
    \/ DiscoverDone(c)
    \/ DeleteDone(c)

Next ==
    \/ \E c \in Cells : \/ AddCell(c)
                        \/ RemoveCell(c)
                        \/ Reconfigure(c)
                        \/ EditTemplates(c)
                        \/ Workloads(c)
                        \/ MapFails(c)
                        \/ JobExpires(c)
    \/ Nova
    \/ NovaCrash

Spec == Init /\ [][Next]_vars

(* Each change of a CR, a database, a bus or a job queues a reconcile of   *)
(* its owner, and pods that can start run.                                 *)
Fairness ==
    /\ WF_vars(Nova)
    /\ \A c \in Cells :
          /\ WF_vars(BackendReady(c)) /\ WF_vars(CellDeploys(c))
          /\ WF_vars(MapStart(c)) /\ WF_vars(MapDone(c))
          /\ WF_vars(DiscoverDone(c)) /\ WF_vars(DeleteDone(c))

FairSpec == Spec /\ Fairness

-----------------------------------------------------------------------------
Job == [state : JobState, hash : Version \cup Template, mounted : Version]
CR == [v : Version, t : Template]

(* Types, and what the webhook of the Nova CR guarantees: cell0 is always  *)
(* in the spec, without computes.                                          *)
TypeOK ==
    /\ spec \subseteq Cells /\ Cell0 \in spec
    /\ version \in [Cells -> Version] /\ templates \in [Cells -> Template]
    /\ templates[Cell0] = 0
    /\ resources \in [Cells -> SUBSET Resources] /\ up \in [Cells -> BOOLEAN]
    /\ want \in [Cells -> CR] /\ got \in [Cells -> CR]
    /\ config \in [Cells -> Version]
    /\ {mapJob, discoverJob, deleteJob} \subseteq [Cells -> Job]
    /\ row \in [Cells -> Version] /\ hosts \in [Cells -> Template]
    /\ registered \in [Cells -> Version] /\ discovered \in [Cells -> Template]
    /\ readyCells \subseteq Cells /\ deletionDone \in BOOLEAN
    /\ pc \in {"idle", "cells", "delete", "drop", "patch"}
    /\ next \in 1 .. Len(CellOrder) + 1
    /\ view \in [Cells -> CR] /\ usable \subseteq Cells
    /\ reg \in [Cells -> Version] /\ disc \in [Cells -> Template]
    /\ seenReady \subseteq Cells /\ cell0Ready \in BOOLEAN
    /\ doomed \subseteq Cells /\ blocked \in BOOLEAN
    /\ removals \in 0 .. MaxRemovals /\ faults \in 0 .. MaxFaults

(* The mapping that the top-level services follow never points at a        *)
(* configuration the NovaCell has not rolled out yet ("We wait for the     *)
(* cell to become Ready with this input before we map it"), although the   *)
(* job mounts its Secret some time after that was found out.  (As long as  *)
(* no cell is being deleted: that rewrites the Secret of the jobs of cell0 *)
(* without waiting for cell0.)                                             *)
RowNotAhead == \A c \in Cells : row[c] <= got[c].v

(* RegisteredCells ("cells that are registered in the nova_api database")  *)
(* tells the truth about a cell that counts as ready: its row is there and *)
(* has at least the recorded configuration, through job failures, failing  *)
(* calls and lost status patches.                                          *)
RegisteredIsMapped == \A c \in spec \cap readyCells : registered[c] <= row[c]

(* While a cell is mapped, what the mapping leads to exists: deletion does *)
(* not pull database, account or message bus away under the mapping, and   *)
(* no mapping outlives its NovaCell.                                       *)
RowHasCell ==
    \A c \in Cells : row[c] # 0 => Backend \subseteq resources[c] /\ want[c] # NoCR

(* The NovaCell CR is the last thing of a cell to go, however often the    *)
(* deletion was cut short ("otherwise we cannot retry the above cleanup"). *)
NovaCellGoesLast ==
    [][ \A c \in Cells : want[c] # NoCR /\ want'[c] = NoCR =>
           resources[c] = {} /\ row[c] = 0 /\ row'[c] = 0 ]_vars

(* Cells get mapped: once the user is quiet, every cell of the spec is     *)
(* registered and mapped with its current configuration, through failing   *)
(* calls, restarts and jobs that are cleaned up before they are seen,      *)
(* unless its mapping job failed, which nothing runs again.                *)
CellsMapped ==
    <>[](\A c \in spec : \/ mapJob[c].state = "failed"
                         \/ registered[c] = version[c] /\ row[c] = version[c])

(* A cell that was mapped when it left the spec is deleted, unless it is   *)
(* added again meanwhile or still has computes, through failing calls and  *)
(* restarts.                                                               *)
MappedCellsGo ==
    \A c \in Cells \ {Cell0} :
        c \notin spec /\ row[c] # 0 /\ deleteJob[c].state = "none"
            ~> c \in spec \/ want[c] = NoCR \/ hosts[c] # 0

=============================================================================
