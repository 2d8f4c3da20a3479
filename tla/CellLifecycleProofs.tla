--------------------------- MODULE CellLifecycleProofs ---------------------------
(***************************************************************************)
(* Proofs about CellLifecycle, for any number of cells, configurations,    *)
(* compute templates, removals and faults: its types; that the mapping of  *)
(* a cell lags behind what the cell runs with, and RegisteredCells behind  *)
(* the mapping, until a cell is removed; and that the deletion of a cell   *)
(* leaves no mapping to what it takes away, as long as the jobs of a cell  *)
(* and its place in the spec agree.                                        *)
(***************************************************************************)
EXTENDS CellLifecycle, TLAPS

-----------------------------------------------------------------------------
(* Types.                                                                  *)
LEMMA CellFacts ==
    /\ Cell0 \in Cells /\ Len(CellOrder) \in Nat /\ 1 \in DOMAIN CellOrder
    /\ \A i \in 1 .. Len(CellOrder) : CellOrder[i] \in Cells
    /\ \A c \in Cells : \A v \in 0 .. MaxVersion[c] : v \in Version
    /\ \A v \in Version : v \in Nat
    /\ 0 \in Version /\ 1 \in Version
    /\ 0 \in Template /\ \A t \in Template : t \in Nat
    /\ NoCR \in CR /\ NoJob \in Job
<1>1. /\ CellOrder \in Seq(Cells) /\ Len(CellOrder) >= 1
      /\ MaxVersion \in [Cells -> Nat \ {0}] /\ MaxTemplates \in Nat
  BY CellConstants
<1>2. /\ Len(CellOrder) \in Nat /\ DOMAIN CellOrder = 1 .. Len(CellOrder)
      /\ 1 \in DOMAIN CellOrder
      /\ \A i \in 1 .. Len(CellOrder) : CellOrder[i] \in Cells
  BY <1>1
<1>3. Cell0 \in Cells
  BY <1>2 DEF Cell0
<1>4. /\ \A c \in Cells : \A v \in 0 .. MaxVersion[c] : v \in Version
      /\ \A v \in Version : v \in Nat
  BY <1>1 DEF Version
<1>5. 0 \in 0 .. MaxVersion[Cell0] /\ 1 \in 0 .. MaxVersion[Cell0]
  BY <1>1, <1>3
<1>6. 0 \in Version /\ 1 \in Version /\ 0 \in Template /\ \A t \in Template : t \in Nat
  BY <1>1, <1>3, <1>4, <1>5 DEF Template
<1>7. NoCR \in CR /\ NoJob \in Job
  BY <1>6 DEF NoCR, NoJob, CR, Job, JobState
<1>. QED
  BY <1>2, <1>3, <1>4, <1>6, <1>7

LEMMA TypesInit == Init => TypeOK
<1> SUFFICES ASSUME Init PROVE TypeOK
  OBVIOUS
<1> USE CellFacts DEF Init, ForAll
<1>1. /\ spec \subseteq Cells /\ Cell0 \in spec /\ templates[Cell0] = 0
      /\ version \in [Cells -> Version] /\ templates \in [Cells -> Template]
  OBVIOUS
<1>2. /\ resources \in [Cells -> SUBSET Resources] /\ up \in [Cells -> BOOLEAN]
      /\ want \in [Cells -> CR] /\ got \in [Cells -> CR] /\ config \in [Cells -> Version]
  OBVIOUS
<1>3. {mapJob, discoverJob, deleteJob} \subseteq [Cells -> Job]
  OBVIOUS
<1>4. /\ row \in [Cells -> Version] /\ hosts \in [Cells -> Template]
      /\ registered \in [Cells -> Version] /\ discovered \in [Cells -> Template]
      /\ view \in [Cells -> CR] /\ reg \in [Cells -> Version] /\ disc \in [Cells -> Template]
  OBVIOUS
<1>5. next \in 1 .. Len(CellOrder) + 1 /\ removals \in 0 .. MaxRemovals /\ faults \in 0 .. MaxFaults
  BY CellConstants
<1>. QED
  BY <1>1, <1>2, <1>3, <1>4, <1>5 DEF TypeOK

(* What DoJob makes of a job.                                              *)
LEMMA DoJobFacts ==
  ASSUME NEW job \in Job, NEW hash \in Version \cup Template, NEW recorded
  PROVE  LET run == DoJob(job, hash, recorded) IN
         /\ run.job \in Job
         /\ run.job = job \/ (run.job.state = "created" /\ run.job.hash = hash
                              /\ run.job.mounted = 0 /\ run.result = "running"
                              /\ (job.state = "none" \/ job.hash # hash))
         /\ run.result = "done" => run.job = job /\ job.state = "done" /\ job.hash = hash
<1>1. CASE hash = recorded
  BY <1>1 DEF DoJob
<1>2. CASE hash # recorded /\ (job.state = "none" \/ job.hash # hash)
  BY <1>2, CellFacts DEF DoJob, Job, JobState
<1>3. CASE hash # recorded /\ ~(job.state = "none" \/ job.hash # hash)
  BY <1>3 DEF DoJob
<1>. QED
  BY <1>1, <1>2, <1>3

(* The types of each group of variables, for steps that leave the others   *)
(* alone.                                                                  *)
UserTypes ==
    /\ spec \subseteq Cells /\ Cell0 \in spec
    /\ version \in [Cells -> Version] /\ templates \in [Cells -> Template]
    /\ templates[Cell0] = 0
    /\ removals \in 0 .. MaxRemovals
CellTypes ==
    /\ resources \in [Cells -> SUBSET Resources] /\ up \in [Cells -> BOOLEAN]
    /\ want \in [Cells -> CR] /\ got \in [Cells -> CR]
JobTypes ==
    /\ config \in [Cells -> Version]
    /\ mapJob \in [Cells -> Job] /\ discoverJob \in [Cells -> Job]
    /\ deleteJob \in [Cells -> Job]
    /\ row \in [Cells -> Version] /\ hosts \in [Cells -> Template]
StatusTypes ==
    /\ registered \in [Cells -> Version] /\ discovered \in [Cells -> Template]
    /\ readyCells \subseteq Cells /\ deletionDone \in BOOLEAN
LoopTypes ==
    /\ next \in 1 .. Len(CellOrder) + 1
    /\ view \in [Cells -> CR] /\ usable \subseteq Cells
    /\ reg \in [Cells -> Version] /\ disc \in [Cells -> Template]
    /\ seenReady \subseteq Cells /\ cell0Ready \in BOOLEAN
WorkTypes ==
    /\ pc \in {"idle", "cells", "delete", "drop", "patch"}
    /\ doomed \subseteq Cells /\ blocked \in BOOLEAN
    /\ faults \in 0 .. MaxFaults

LEMMA GroupsKept ==
  /\ UserTypes /\ UNCHANGED userVars => UserTypes'
  /\ CellTypes /\ UNCHANGED <<resources, up, want, got>> => CellTypes'
  /\ JobTypes /\ UNCHANGED <<config, jobVars, dbVars>> => JobTypes'
  /\ StatusTypes /\ UNCHANGED statusVars => StatusTypes'
  /\ LoopTypes /\ UNCHANGED loopVars => LoopTypes'
  /\ WorkTypes /\ UNCHANGED <<pc, doomed, blocked, faults>> => WorkTypes'
  BY DEF UserTypes, CellTypes, JobTypes, StatusTypes, LoopTypes, WorkTypes,
     userVars, jobVars, dbVars, statusVars, loopVars

(* A round of the loop, for the cell it is at.                             *)
LEMMA LoopCell ==
  ASSUME LoopTypes, next <= Len(CellOrder)
  PROVE  CellOrder[next] \in Cells /\ next + 1 \in 1 .. Len(CellOrder) + 1
  BY CellFacts DEF LoopTypes

Typed ==
    UserTypes /\ CellTypes /\ JobTypes /\ StatusTypes /\ LoopTypes /\ WorkTypes

LEMMA TypedStep == Typed /\ [Next]_vars => Typed'
<1> SUFFICES ASSUME UserTypes, CellTypes, JobTypes, StatusTypes, LoopTypes, WorkTypes, [Next]_vars
             PROVE  UserTypes' /\ CellTypes' /\ JobTypes' /\ StatusTypes' /\ LoopTypes' /\ WorkTypes'
  BY DEF Typed
<1> USE CellFacts
<1>f. MaxFaults \in Nat /\ MaxRemovals \in Nat /\ MaxVersion \in [Cells -> Nat \ {0}]
  BY CellConstants
<1>g. faults < MaxFaults => faults + 1 \in 0 .. MaxFaults
  BY <1>f DEF WorkTypes
<1>1. ASSUME NEW c \in Cells, AddCell(c) \/ RemoveCell(c) \/ Reconfigure(c) \/ EditTemplates(c)
      PROVE  UserTypes' /\ CellTypes' /\ JobTypes' /\ StatusTypes' /\ LoopTypes' /\ WorkTypes'
  <2>1. UNCHANGED <<resources, up, want, got, config, jobVars, dbVars, statusVars, pc, localVars,
                    faults>>
    BY <1>1 DEF AddCell, RemoveCell, Reconfigure, EditTemplates
  <2>2. CellTypes' /\ JobTypes' /\ StatusTypes' /\ LoopTypes' /\ WorkTypes'
    BY <2>1, GroupsKept DEF localVars
  <2>v. version[c] \in Nat
    BY DEF UserTypes
  <2>3. CASE AddCell(c)
    <3>1. PICK v : /\ v \in {version[c], version[c] + 1} /\ v <= MaxVersion[c]
                   /\ version' = [version EXCEPT ![c] = v]
      BY <2>3 DEF AddCell
    <3>2. v \in Version
      <4>1. v \in 0 .. MaxVersion[c]
        BY <1>f, <2>v, <3>1
      <4>. QED
        BY <4>1
    <3>. QED
      BY <2>2, <2>3, <3>1, <3>2 DEF AddCell, UserTypes
  <2>4. CASE RemoveCell(c)
    <3>1. removals + 1 \in 0 .. MaxRemovals
      BY <1>f, <2>4 DEF RemoveCell, UserTypes
    <3>. QED
      BY <2>2, <2>4, <3>1 DEF RemoveCell, UserTypes
  <2>5. CASE Reconfigure(c)
    <3>1. version[c] + 1 \in Version
      <4>1. version[c] + 1 \in 0 .. MaxVersion[c]
        BY <1>f, <2>v, <2>5 DEF Reconfigure
      <4>. QED
        BY <4>1
    <3>. QED
      BY <2>2, <2>5, <3>1 DEF Reconfigure, UserTypes
  <2>6. CASE EditTemplates(c)
    BY <2>2, <2>6 DEF EditTemplates, UserTypes
  <2>. QED
    BY <1>1, <2>3, <2>4, <2>5, <2>6
<1>2. ASSUME NEW c \in Cells, BackendReady(c) \/ CellDeploys(c)
      PROVE  UserTypes' /\ CellTypes' /\ JobTypes' /\ StatusTypes' /\ LoopTypes' /\ WorkTypes'
  <2>1. UserTypes' /\ StatusTypes' /\ LoopTypes' /\ WorkTypes'
    BY <1>2, GroupsKept DEF BackendReady, CellDeploys, localVars
  <2>2. CellTypes'
    BY <1>2 DEF BackendReady, CellDeploys, CellTypes
  <2>3. JobTypes'
    BY <1>2 DEF BackendReady, CellDeploys, JobTypes, jobVars, dbVars
  <2>. QED
    BY <2>1, <2>2, <2>3
<1>3. ASSUME NEW c \in Cells,
             \/ MapStart(c) \/ MapDone(c) \/ DiscoverDone(c) \/ DeleteDone(c)
             \/ MapFails(c) \/ JobExpires(c)
      PROVE  UserTypes' /\ CellTypes' /\ JobTypes' /\ StatusTypes' /\ LoopTypes' /\ WorkTypes'
  <2>1. UserTypes' /\ CellTypes' /\ StatusTypes' /\ LoopTypes'
    BY <1>3, GroupsKept
    DEF MapStart, MapDone, DiscoverDone, DeleteDone, MapFails, JobExpires, localVars
  <2>2. WorkTypes'
    BY <1>3, <1>g
    DEF MapStart, MapDone, DiscoverDone, DeleteDone, MapFails, JobExpires, localVars, WorkTypes
  <2>j. \A j \in Job, s \in JobState, v \in Version :
           /\ j.mounted \in Version /\ [j EXCEPT !.state = s] \in Job
           /\ [j EXCEPT !.state = s, !.mounted = v] \in Job
    BY DEF Job
  <2>s. {"created", "started", "done", "failed"} \subseteq JobState
    BY DEF JobState
  <2>t. /\ mapJob[c] \in Job /\ discoverJob[c] \in Job /\ deleteJob[c] \in Job
        /\ config[c] \in Version /\ got[c].t \in Template
    BY DEF JobTypes, CellTypes, CR
  <2>m. CASE MapStart(c)
    <3>1. mapJob' = [mapJob EXCEPT ![c] = [mapJob[c] EXCEPT !.state = "started", !.mounted = config[c]]]
      BY <2>m DEF MapStart, JobTypes
    <3>. QED
      <4>1. mapJob' \in [Cells -> Job]
        BY <2>j, <2>s, <2>t, <3>1 DEF JobTypes
      <4>. QED
        BY <2>1, <2>2, <2>m, <4>1 DEF MapStart, JobTypes, dbVars
  <2>3. CASE MapDone(c) \/ MapFails(c)
    <3>1. PICK s \in JobState : mapJob' = [mapJob EXCEPT ![c] = [mapJob[c] EXCEPT !.state = s]]
      BY <2>3, <2>s DEF MapDone, MapFails, JobTypes
    <3>. QED
      <4>1. mapJob' \in [Cells -> Job]
        BY <2>j, <2>t, <3>1 DEF JobTypes
      <4>2. row' \in [Cells -> Version]
        BY <2>3, <2>j, <2>t DEF MapDone, MapFails, JobTypes, dbVars
      <4>. QED
        BY <2>1, <2>2, <2>3, <4>1, <4>2 DEF MapDone, MapFails, JobTypes, dbVars
  <2>4. CASE DiscoverDone(c)
    <3>1. discoverJob' = [discoverJob EXCEPT ![c] = [discoverJob[c] EXCEPT !.state = "done"]]
      BY <2>4 DEF DiscoverDone, JobTypes
    <3>. QED
      <4>1. discoverJob' \in [Cells -> Job]
        BY <2>j, <2>s, <2>t, <3>1 DEF JobTypes
      <4>2. hosts' \in [Cells -> Template]
        BY <2>4, <2>t DEF DiscoverDone, JobTypes
      <4>. QED
        BY <2>1, <2>2, <2>4, <4>1, <4>2 DEF DiscoverDone, JobTypes
  <2>d. CASE DeleteDone(c)
    <3>1. PICK s \in JobState : deleteJob' = [deleteJob EXCEPT ![c] = [deleteJob[c] EXCEPT !.state = s]]
      BY <2>d, <2>s DEF DeleteDone, JobTypes
    <3>. QED
      <4>1. deleteJob' \in [Cells -> Job]
        BY <2>j, <2>t, <3>1 DEF JobTypes
      <4>2. row' \in [Cells -> Version]
        BY <2>d DEF DeleteDone, JobTypes
      <4>. QED
        BY <2>1, <2>2, <2>d, <4>1, <4>2 DEF DeleteDone, JobTypes
  <2>5. CASE JobExpires(c)
    <3>1. /\ mapJob' \in {mapJob, [mapJob EXCEPT ![c] = NoJob]}
          /\ discoverJob' \in {discoverJob, [discoverJob EXCEPT ![c] = NoJob]}
          /\ deleteJob' \in {deleteJob, [deleteJob EXCEPT ![c] = NoJob]}
          /\ UNCHANGED <<config, dbVars>>
      BY <2>5 DEF JobExpires
    <3>2. mapJob' \in [Cells -> Job] /\ discoverJob' \in [Cells -> Job] /\ deleteJob' \in [Cells -> Job]
      BY <3>1 DEF JobTypes
    <3>. QED
      BY <2>1, <2>2, <3>1, <3>2 DEF JobTypes, dbVars
  <2>. QED
    BY <1>3, <2>1, <2>2, <2>m, <2>3, <2>4, <2>d, <2>5
<1>4. CASE NovaStart
  <2>1. UserTypes' /\ JobTypes' /\ StatusTypes'
    BY <1>4, GroupsKept DEF NovaStart
  <2>2. CellTypes'
    <3>1. Backend \subseteq Resources
      BY DEF Backend, Resources, Teardown
    <3>. QED
      BY <1>4, <3>1 DEF NovaStart, CellTypes
  <2>3. view' \in [Cells -> CR]
    BY <1>4 DEF NovaStart, UserTypes, CR
  <2>4. LoopTypes'
    <3>1. usable' \subseteq Cells /\ reg' = registered /\ disc' = discovered /\ seenReady' = {}
          /\ cell0Ready' = FALSE /\ next' = 1
      BY <1>4 DEF NovaStart, UserTypes
    <3>. QED
      <4>1. 1 \in 1 .. Len(CellOrder) + 1
        OBVIOUS
      <4>2. reg' \in [Cells -> Version] /\ disc' \in [Cells -> Template]
        BY <3>1 DEF StatusTypes
      <4>. QED
        BY <2>3, <3>1, <4>1, <4>2 DEF LoopTypes
  <2>5. WorkTypes'
    BY <1>4 DEF NovaStart, WorkTypes
  <2>. QED
    BY <2>1, <2>2, <2>4, <2>5
<1>5. CASE NovaEnsureCell
  <2> DEFINE c == CellOrder[next]
  <2>1. UserTypes' /\ StatusTypes'
    BY <1>5, GroupsKept DEF NovaEnsureCell
  <2>c. c \in Cells /\ next + 1 \in 1 .. Len(CellOrder) + 1
    BY <1>5, LoopCell DEF NovaEnsureCell
  <2>2. view[c].v \in Version /\ view[c].t \in Template /\ view[c] \in CR
    BY <2>c DEF LoopTypes, CR
  <2>3. Mapping(c).job \in Job /\ Discovery(c).job \in Job
    BY <2>c, <2>2, DoJobFacts DEF Mapping, Discovery, JobTypes
  <2>4. CellTypes'
    <3>1. "secret" \in Resources /\ "jobSecrets" \in Resources
      BY DEF Resources, Teardown
    <3>. QED
      BY <1>5, <2>c, <2>2, <3>1 DEF NovaEnsureCell, CellTypes
  <2>5. JobTypes' /\ LoopTypes'
    <3>1. CASE UNCHANGED <<config, mapJob, discoverJob, reg, disc, seenReady>>
      BY <1>5, <2>c, <3>1 DEF NovaEnsureCell, JobTypes, LoopTypes, dbVars
    <3>2. CASE MapAndDiscover(c)
      <4>1. JobTypes'
        BY <1>5, <2>c, <2>2, <2>3, <3>2 DEF MapAndDiscover, NovaEnsureCell, JobTypes, dbVars
      <4>2. reg' \in [Cells -> Version] /\ disc' \in [Cells -> Template] /\ seenReady' \subseteq Cells
        BY <2>c, <2>2, <3>2 DEF MapAndDiscover, LoopTypes
      <4>3. cell0Ready' \in BOOLEAN /\ next' \in 1 .. Len(CellOrder) + 1
            /\ UNCHANGED <<view, usable>>
        BY <1>5, <2>c DEF NovaEnsureCell, LoopTypes
      <4>. QED
        BY <4>1, <4>2, <4>3 DEF LoopTypes
    <3>. QED
      BY <1>5, <3>1, <3>2 DEF NovaEnsureCell
  <2>6. WorkTypes'
    BY <1>5, <1>g DEF NovaEnsureCell, WorkTypes
  <2>. QED
    BY <2>1, <2>4, <2>5, <2>6
<1>6. CASE NovaList \/ NovaDeleted
  <2>1. UserTypes' /\ CellTypes' /\ JobTypes' /\ StatusTypes' /\ LoopTypes'
    BY <1>6, GroupsKept DEF NovaList, NovaDeleted, localVars
  <2>2. WorkTypes'
    BY <1>6 DEF NovaList, NovaDeleted, WorkTypes, localVars
  <2>. QED
    BY <2>1, <2>2
<1>7. CASE NovaDeleteJob
  <2>1. UserTypes' /\ StatusTypes' /\ LoopTypes'
    BY <1>7, GroupsKept DEF NovaDeleteJob
  <2>2. PICK c \in doomed :
          \/ /\ resources' = [resources EXCEPT ![Cell0] = @ \cup {"jobSecrets"}]
             /\ config' = [config EXCEPT ![Cell0] = view[Cell0].v]
             /\ deleteJob' = [deleteJob EXCEPT ![c] =
                                DoJob(deleteJob[c], view[Cell0].v, 0).job]
          \/ UNCHANGED <<resources, config, deleteJob>>
    BY <1>7 DEF NovaDeleteJob
  <2>3. view[Cell0].v \in Version /\ c \in Cells
    BY DEF LoopTypes, CR, WorkTypes
  <2>4. CellTypes'
    <3>1. "jobSecrets" \in Resources
      BY DEF Resources, Teardown
    <3>. QED
      BY <1>7, <2>2, <3>1 DEF NovaDeleteJob, CellTypes
  <2>5. JobTypes'
    <3>1. DoJob(deleteJob[c], view[Cell0].v, 0).job \in Job
      BY <2>3, DoJobFacts DEF JobTypes
    <3>. QED
      BY <1>7, <2>2, <2>3, <3>1 DEF NovaDeleteJob, JobTypes, dbVars
  <2>6. WorkTypes'
    BY <1>7, <1>g DEF NovaDeleteJob, WorkTypes
  <2>. QED
    BY <2>1, <2>4, <2>5, <2>6
<1>8. CASE NovaDrop
  <2>1. UserTypes' /\ StatusTypes' /\ JobTypes'
    BY <1>8, GroupsKept DEF NovaDrop
  <2>2. PICK c \in doomed :
          /\ \/ \E r : resources' = [resources EXCEPT ![c] = @ \ {r}]
             \/ UNCHANGED resources
          /\ up' \in {up, [up EXCEPT ![c] = FALSE]}
          /\ want' \in {want, [want EXCEPT ![c] = NoCR]}
          /\ got' \in {got, [got EXCEPT ![c] = NoCR]}
          /\ reg' \in {reg, [reg EXCEPT ![c] = 0]}
    BY <1>8 DEF NovaDrop
  <2>3. c \in Cells
    BY DEF WorkTypes
  <2>4. CellTypes'
    <3>1. resources' \in [Cells -> SUBSET Resources]
      BY <2>2, <2>3 DEF CellTypes
    <3>2. up' \in [Cells -> BOOLEAN]
      BY <2>2, <2>3 DEF CellTypes
    <3>3. want' \in [Cells -> CR] /\ got' \in [Cells -> CR]
      BY <2>2, <2>3 DEF CellTypes
    <3>. QED
      BY <3>1, <3>2, <3>3 DEF CellTypes
  <2>5. LoopTypes'
    BY <1>8, <2>2, <2>3 DEF NovaDrop, LoopTypes
  <2>6. WorkTypes'
    BY <1>8, <1>g DEF NovaDrop, WorkTypes
  <2>. QED
    BY <2>1, <2>4, <2>5, <2>6
<1>9. CASE NovaPatch \/ NovaCrash
  <2>1. UserTypes' /\ CellTypes' /\ JobTypes'
    BY <1>9, GroupsKept DEF NovaPatch, NovaCrash
  <2>2. Forget
    BY <1>9 DEF NovaPatch, NovaCrash
  <2>3. LoopTypes'
    <3>1. /\ view' = [c \in Cells |-> NoCR] /\ reg' = [c \in Cells |-> 0]
          /\ disc' = [c \in Cells |-> 0] /\ next' = 1
          /\ usable' = {} /\ seenReady' = {} /\ cell0Ready' = FALSE
      BY <2>2 DEF Forget, ForAll
    <3>2. 1 \in 1 .. Len(CellOrder) + 1
      OBVIOUS
    <3>. QED
      BY <3>1, <3>2 DEF LoopTypes
  <2>4. WorkTypes' /\ StatusTypes'
    BY <1>9, <1>g, <2>2
    DEF Forget, NovaPatch, NovaCrash, WorkTypes, StatusTypes, LoopTypes, statusVars
  <2>. QED
    BY <2>1, <2>3, <2>4
<1>10. CASE UNCHANGED vars
  BY <1>10, GroupsKept DEF vars, localVars
<1>. QED
  BY <1>1, <1>2, <1>3, <1>4, <1>5, <1>6, <1>7, <1>8, <1>9, <1>10 DEF Next, Nova, Workloads

(* Every variable keeps its type, and cell0 stays in the spec, without     *)
(* computes.                                                               *)
THEOREM TypesCorrect == Spec => []TypeOK
<1>1. TypeOK <=> Typed
  BY DEF TypeOK, Typed, UserTypes, CellTypes, JobTypes, StatusTypes, LoopTypes, WorkTypes
<1>. QED
  BY TypesInit, TypedStep, <1>1, PTL DEF Spec

-----------------------------------------------------------------------------
(* Until a cell is removed.  A row follows the configuration through a     *)
(* chain of copies, each behind the one before: what the spec gives the    *)
(* cell, what the reconcile has read, the NovaCell CR, what the NovaCell   *)
(* runs with, the Secret of the jobs, the row, RegisteredCells.            *)

(* No reconcile has a NovaCell to delete, and no delete job exists.        *)
NoneDoomed ==
    /\ doomed = {} /\ pc # "drop"
    /\ \A c \in Cells : deleteJob[c].state = "none"

(* The NovaCell CR lags behind what the reconcile has read, and that       *)
(* behind the spec.                                                        *)
CRLags ==
    \A c \in Cells :
       /\ c \in spec => version[c] >= 1
       /\ want[c] # NoCR => c \in spec
       /\ want[c].v <= version[c]
       /\ pc # "idle" => (want[c] # NoCR => view[c] # NoCR)
       /\ view[c] # NoCR =>
             c \in spec /\ want[c].v <= view[c].v /\ view[c].v <= version[c]

(* The Secret of the jobs lags behind the NovaCell.                        *)
SecretLags ==
    \A c \in Cells :
       got[c].v <= want[c].v /\ config[c] <= got[c].v

(* What a mapping job has mounted lags behind the Secret, but not behind   *)
(* its hash or the row.                                                    *)
JobLags ==
    \A c \in Cells :
       /\ mapJob[c].hash <= config[c] /\ mapJob[c].mounted <= config[c]
       /\ mapJob[c].state = "started" =>
             mapJob[c].hash <= mapJob[c].mounted /\ row[c] <= mapJob[c].mounted
       /\ mapJob[c].state = "done" => mapJob[c].hash <= row[c]
       /\ row[c] <= config[c]

(* RegisteredCells lags behind the row, in the status and in the local     *)
(* copy of it.                                                             *)
RegisteredLags ==
    \A c \in Cells : registered[c] <= row[c] /\ reg[c] <= row[c]

DeployInv ==
    removals = 0 => NoneDoomed /\ CRLags /\ SecretLags /\ JobLags /\ RegisteredLags

(* The versions that are compared are numbers.                             *)
LEMMA CellNumbers ==
  ASSUME Typed, NEW c \in Cells
  PROVE  /\ version[c] \in Nat /\ templates[c] \in Nat /\ config[c] \in Nat
         /\ row[c] \in Nat /\ registered[c] \in Nat /\ reg[c] \in Nat
         /\ want[c] \in [v : Nat, t : Nat] /\ got[c] \in [v : Nat, t : Nat]
         /\ view[c] \in [v : Nat, t : Nat]
         /\ mapJob[c].hash \in Nat /\ mapJob[c].mounted \in Nat
         /\ mapJob[c] \in [state : JobState, hash : Nat, mounted : Nat]
         /\ deleteJob[c] \in [state : JobState, hash : Nat, mounted : Nat]
  BY CellFacts DEF Typed, UserTypes, CellTypes, JobTypes, StatusTypes, LoopTypes, CR, Job

LEMMA DeployInit == Init => DeployInv
  BY CellFacts DEF Init, DeployInv, ForAll, NoneDoomed, CRLags, SecretLags, JobLags, RegisteredLags,
     NoCR, NoJob

LEMMA DeployStep == Typed /\ DeployInv /\ [Next]_vars => DeployInv'
<1> SUFFICES ASSUME Typed, DeployInv, [Next]_vars, removals' = 0
             PROVE  (NoneDoomed /\ CRLags /\ SecretLags /\ JobLags /\ RegisteredLags)'
  BY DEF DeployInv
<1>t. /\ version \in [Cells -> Version] /\ mapJob \in [Cells -> Job]
      /\ want \in [Cells -> CR] /\ got \in [Cells -> CR] /\ config \in [Cells -> Version]
      /\ row \in [Cells -> Version] /\ view \in [Cells -> CR] /\ reg \in [Cells -> Version]
      /\ deleteJob \in [Cells -> Job]
  BY DEF Typed, UserTypes, CellTypes, JobTypes, LoopTypes
<1>r. removals = 0
  <2>1. removals' \in {removals, removals + 1}
    BY DEF Next, AddCell, RemoveCell, Reconfigure, EditTemplates, Workloads, BackendReady,
       CellDeploys, MapStart, MapDone, DiscoverDone, DeleteDone, MapFails, JobExpires, Nova,
       NovaStart, NovaEnsureCell, NovaList, NovaDeleteJob, NovaDrop, NovaDeleted, NovaPatch,
       NovaCrash, vars, userVars
  <2>. QED
    BY <2>1, CellConstants DEF Typed, UserTypes
<1>i. NoneDoomed /\ CRLags /\ SecretLags /\ JobLags /\ RegisteredLags
  BY <1>r DEF DeployInv
<1>1. ASSUME NEW c \in Cells, AddCell(c) \/ RemoveCell(c) \/ Reconfigure(c) \/ EditTemplates(c)
      PROVE  (NoneDoomed /\ CRLags /\ SecretLags /\ JobLags /\ RegisteredLags)'
  <2>1. CASE RemoveCell(c)
    BY <1>r, <2>1 DEF RemoveCell
  <2>2. CASE AddCell(c) \/ Reconfigure(c) \/ EditTemplates(c)
    <3>1. /\ spec' \subseteq spec \cup {c} /\ spec \subseteq spec'
          /\ \E v \in {version[c], version[c] + 1} :
                /\ version' = [version EXCEPT ![c] = v]
                /\ c \in spec' => v >= 1
          /\ UNCHANGED <<want, got, config, jobVars, dbVars, statusVars, pc, localVars>>
      BY <1>t, <1>i, <2>2, CellNumbers DEF AddCell, Reconfigure, EditTemplates, CRLags
    <3>2. NoneDoomed' /\ SecretLags' /\ JobLags' /\ RegisteredLags'
      BY <1>i, <3>1
      DEF NoneDoomed, SecretLags, JobLags, RegisteredLags, jobVars, dbVars, statusVars, localVars,
          loopVars
    <3>3. CRLags'
      <4> SUFFICES ASSUME NEW d \in Cells
                   PROVE  /\ d \in spec' => version'[d] >= 1
                          /\ want[d] # NoCR => d \in spec'
                          /\ want[d].v <= version'[d]
                          /\ pc # "idle" => (want[d] # NoCR => view[d] # NoCR)
                          /\ view[d] # NoCR => /\ d \in spec' /\ want[d].v <= view[d].v
                                               /\ view[d].v <= version'[d]
        BY <3>1 DEF CRLags, localVars, loopVars
      <4>1. version'[d] >= version[d] /\ version'[d] \in Nat
        BY <1>t, <3>1, CellNumbers
      <4>2. d \in spec' => version'[d] >= 1
        BY <1>t, <1>i, <3>1, <4>1, CellNumbers DEF CRLags
      <4>3. /\ want[d].v \in Nat /\ view[d].v \in Nat /\ version[d] \in Nat
        BY CellNumbers
      <4>. QED
        BY <1>i, <3>1, <4>1, <4>2, <4>3 DEF CRLags
    <3>. QED
      BY <3>2, <3>3
  <2>. QED
    BY <1>1, <2>1, <2>2
<1>2. ASSUME NEW c \in Cells, Workloads(c) \/ MapFails(c) \/ JobExpires(c)
      PROVE  (NoneDoomed /\ CRLags /\ SecretLags /\ JobLags /\ RegisteredLags)'
  <2>1. UNCHANGED <<spec, version, want, pc, localVars, registered, config>>
    BY <1>2 DEF Workloads, BackendReady, CellDeploys, MapStart, MapDone, DiscoverDone, DeleteDone,
       MapFails, JobExpires, userVars, statusVars
  <2>2. CRLags'
    BY <1>i, <2>1 DEF CRLags, localVars, loopVars
  <2>3. CASE BackendReady(c) \/ DiscoverDone(c)
    BY <1>i, <2>1, <2>2, <2>3
    DEF BackendReady, DiscoverDone, NoneDoomed, SecretLags, JobLags, RegisteredLags, jobVars, dbVars,
        localVars, loopVars
  <2>4. CASE CellDeploys(c)
    <3>1. NoneDoomed' /\ JobLags' /\ RegisteredLags'
      BY <1>i, <2>1, <2>4
      DEF CellDeploys, NoneDoomed, JobLags, RegisteredLags, jobVars, dbVars, localVars, loopVars
    <3>2. SecretLags'
      <4> SUFFICES ASSUME NEW d \in Cells
                   PROVE  got'[d].v <= want[d].v /\ config[d] <= got'[d].v
        BY <2>1 DEF SecretLags
      <4>1. got'[d] = IF d = c THEN want[d] ELSE got[d]
        BY <1>t, <2>4 DEF CellDeploys
      <4>2. want[d].v \in Nat /\ got[d].v \in Nat /\ config[d] \in Nat
        BY CellNumbers
      <4>. QED
        BY <1>i, <4>1, <4>2 DEF SecretLags
    <3>. QED
      BY <2>2, <3>1, <3>2
  <2>5. CASE MapStart(c) \/ MapDone(c) \/ MapFails(c)
    <3>1. NoneDoomed' /\ SecretLags'
      BY <1>i, <2>1, <2>5
      DEF MapStart, MapDone, MapFails, NoneDoomed, SecretLags, localVars
    <3>2. JobLags' /\ RegisteredLags'
      <4> SUFFICES ASSUME NEW d \in Cells
                   PROVE  /\ mapJob'[d].hash <= config[d] /\ mapJob'[d].mounted <= config[d]
                          /\ mapJob'[d].state = "started" =>
                                /\ mapJob'[d].hash <= mapJob'[d].mounted
                                /\ row'[d] <= mapJob'[d].mounted
                          /\ mapJob'[d].state = "done" => mapJob'[d].hash <= row'[d]
                          /\ row'[d] <= config[d]
                          /\ registered[d] <= row'[d] /\ reg[d] <= row'[d]
        BY <2>1 DEF JobLags, RegisteredLags, localVars, loopVars
      <4>1. /\ mapJob[d] \in [state : JobState, hash : Nat, mounted : Nat]
            /\ config[d] \in Nat /\ row[d] \in Nat /\ registered[d] \in Nat /\ reg[d] \in Nat
        BY CellNumbers
      <4>2. CASE d # c
        <5>1. mapJob'[d] = mapJob[d] /\ row'[d] = row[d]
          BY <1>t, <2>5, <4>2 DEF MapStart, MapDone, MapFails, dbVars
        <5>. QED
          BY <1>i, <5>1 DEF JobLags, RegisteredLags
      <4>3. CASE d = c /\ MapStart(c)
        <5>1. /\ mapJob'[d] = [mapJob[d] EXCEPT !.state = "started", !.mounted = config[d]]
              /\ row' = row
          BY <1>t, <4>3 DEF MapStart, dbVars
        <5>. QED
          BY <1>i, <4>1, <5>1 DEF JobLags, RegisteredLags
      <4>4. CASE d = c /\ MapDone(c)
        <5>1. /\ mapJob'[d] = [mapJob[d] EXCEPT !.state = "done"]
              /\ row'[d] = mapJob[d].mounted /\ mapJob[d].state = "started"
          BY <1>t, <4>4 DEF MapDone
        <5>. QED
          BY <1>i, <4>1, <5>1 DEF JobLags, RegisteredLags
      <4>5. CASE d = c /\ MapFails(c)
        <5>1. mapJob'[d] = [mapJob[d] EXCEPT !.state = "failed"] /\ row' = row
          BY <1>t, <4>5 DEF MapFails, dbVars
        <5>. QED
          BY <1>i, <4>1, <5>1 DEF JobLags, RegisteredLags
      <4>. QED
        BY <2>5, <4>2, <4>3, <4>4, <4>5
    <3>. QED
      BY <2>2, <3>1, <3>2
  <2>6. CASE DeleteDone(c)
    BY <1>i, <2>6 DEF DeleteDone, NoneDoomed
  <2>7. CASE JobExpires(c)
    <3>1. /\ mapJob' \in {mapJob, [mapJob EXCEPT ![c] = NoJob]}
          /\ deleteJob' = deleteJob /\ UNCHANGED <<got, row>>
      BY <1>i, <2>7 DEF JobExpires, dbVars, NoneDoomed
    <3>2. NoneDoomed' /\ SecretLags' /\ RegisteredLags'
      BY <1>i, <2>1, <3>1 DEF NoneDoomed, SecretLags, RegisteredLags, localVars, loopVars
    <3>3. JobLags'
      <4> SUFFICES ASSUME NEW d \in Cells, mapJob'[d] = NoJob
                   PROVE  /\ mapJob'[d].hash <= config[d] /\ mapJob'[d].mounted <= config[d]
                          /\ mapJob'[d].state \notin {"started", "done"}
        BY <1>i, <1>t, <2>1, <3>1 DEF JobLags
      <4>. QED
        BY CellNumbers DEF NoJob
    <3>. QED
      BY <2>2, <3>2, <3>3
  <2>. QED
    BY <1>2, <2>3, <2>4, <2>5, <2>6, <2>7 DEF Workloads
<1>3. CASE NovaStart
  <2>1. NoneDoomed' /\ SecretLags' /\ JobLags'
    BY <1>i, <1>3 DEF NovaStart, NoneDoomed, SecretLags, JobLags, userVars, jobVars, dbVars
  <2>2. RegisteredLags'
    BY <1>i, <1>3 DEF NovaStart, RegisteredLags, dbVars, statusVars
  <2>3. CRLags'
    <3> SUFFICES ASSUME NEW d \in Cells
                 PROVE  /\ d \in spec => version[d] >= 1
                        /\ want[d] # NoCR => d \in spec
                        /\ want[d].v <= version[d]
                        /\ want[d] # NoCR => view'[d] # NoCR
                        /\ view'[d] # NoCR => /\ d \in spec /\ want[d].v <= view'[d].v
                                              /\ view'[d].v <= version[d]
      BY <1>3 DEF NovaStart, CRLags, userVars
    <3>1. view'[d] = IF d \in spec THEN [v |-> version[d], t |-> templates[d]] ELSE NoCR
      BY <1>3 DEF NovaStart
    <3>2. version[d] \in Nat
      BY CellNumbers
    <3>. QED
      BY <1>i, <3>1, <3>2 DEF CRLags, NoCR
  <2>. QED
    BY <2>1, <2>2, <2>3
<1>4. CASE NovaEnsureCell
  <2> DEFINE c == CellOrder[next]
  <2>c. c \in Cells
    BY <1>4, LoopCell DEF NovaEnsureCell, Typed
  <2>1. UNCHANGED <<spec, version, got, row, registered, deleteJob, view, pc, doomed>>
    BY <1>4 DEF NovaEnsureCell, userVars, dbVars, statusVars
  <2>2. NoneDoomed'
    BY <1>i, <2>1 DEF NoneDoomed
  <2>w. want' = want \/ (want' = [want EXCEPT ![c] = view[c]] /\ view[c] # NoCR)
    BY <1>4 DEF NovaEnsureCell
  <2>v. \A d \in Cells : want'[d] = want[d] \/ (want'[d] = view[d] /\ view[d] # NoCR)
    BY <1>t, <2>w
  <2>3. CRLags'
    <3> SUFFICES ASSUME NEW d \in Cells, want'[d] = view[d], view[d] # NoCR
                 PROVE  d \in spec /\ want'[d].v <= version[d] /\ want'[d].v <= view[d].v
      BY <1>i, <2>1, <2>v DEF CRLags
    <3>1. pc # "idle" /\ view[d].v \in Nat /\ version[d] \in Nat
      BY <1>4, CellNumbers DEF NovaEnsureCell
    <3>. QED
      BY <1>i, <3>1 DEF CRLags
  <2>4. /\ config' = config \/ (got[c] = view[c] /\ config' = [config EXCEPT ![c] = view[c].v])
        /\ mapJob' = mapJob \/ ( /\ config' = [config EXCEPT ![c] = view[c].v]
                                 /\ mapJob' = [mapJob EXCEPT ![c] = Mapping(c).job] )
        /\ reg' = reg \/ ( /\ Mapping(c).result = "done"
                           /\ reg' = [reg EXCEPT ![c] = view[c].v] )
    BY <1>4 DEF NovaEnsureCell, CellApplied, MapAndDiscover, Record
  <2>n. \A d \in Cells :
           /\ got[d].v \in Nat /\ want[d].v \in Nat /\ view[d].v \in Nat /\ config[d] \in Nat
           /\ row[d] \in Nat /\ registered[d] \in Nat /\ reg[d] \in Nat
           /\ mapJob[d].hash \in Nat /\ mapJob[d].mounted \in Nat
    BY CellNumbers
  <2>g. \A d \in Cells : config[d] <= config'[d] /\ config'[d] <= got[d].v /\ config'[d] \in Nat
    BY <1>i, <1>t, <2>c, <2>4, <2>n DEF SecretLags
  <2>5. SecretLags'
    BY <1>i, <2>1, <2>v, <2>g, <2>n DEF SecretLags, CRLags
  <2>j. /\ mapJob[c] \in Job /\ view[c].v \in Version
        /\ Mapping(c).job = mapJob[c] \/ ( /\ Mapping(c).job.state = "created"
                                           /\ Mapping(c).job.hash = view[c].v
                                           /\ Mapping(c).job.mounted = 0 )
        /\ Mapping(c).result = "done" => mapJob[c].state = "done" /\ mapJob[c].hash = view[c].v
    <3>1. mapJob[c] \in Job /\ view[c].v \in Version
      BY <1>t, <2>c DEF CR
    <3>. QED
      BY <3>1, DoJobFacts DEF Mapping
  <2>6. JobLags'
    <3> SUFFICES ASSUME NEW d \in Cells
                 PROVE  /\ mapJob'[d].hash <= config'[d] /\ mapJob'[d].mounted <= config'[d]
                        /\ mapJob'[d].state = "started" =>
                              /\ mapJob'[d].hash <= mapJob'[d].mounted
                              /\ row[d] <= mapJob'[d].mounted
                        /\ mapJob'[d].state = "done" => mapJob'[d].hash <= row[d]
                        /\ row[d] <= config'[d]
      BY <2>1 DEF JobLags
    <3>1. CASE mapJob'[d] = mapJob[d]
      BY <1>i, <2>g, <2>n, <3>1 DEF JobLags
    <3>2. CASE mapJob'[d] # mapJob[d]
      <4>1. d = c /\ mapJob'[c] = Mapping(c).job /\ config'[c] = view[c].v
        BY <1>t, <2>c, <2>4, <3>2
      <4>2. row[d] <= config'[d]
        BY <1>i, <2>g, <2>n DEF JobLags
      <4>. QED
        BY <2>j, <2>n, <3>2, <4>1, <4>2
    <3>. QED
      BY <3>1, <3>2
  <2>7. RegisteredLags'
    <3> SUFFICES ASSUME NEW d \in Cells
                 PROVE  registered[d] <= row[d] /\ reg'[d] <= row[d]
      BY <2>1 DEF RegisteredLags
    <3>1. reg'[d] = reg[d] \/ (d = c /\ Mapping(c).result = "done" /\ reg'[d] = view[d].v)
      BY <1>t, <2>c, <2>4
    <3>. QED
      BY <1>i, <2>j, <3>1 DEF RegisteredLags, JobLags
  <2>. QED
    BY <2>2, <2>3, <2>5, <2>6, <2>7
<1>5. CASE NovaList \/ NovaDeleted
  <2>1. UNCHANGED <<spec, version, want, got, config, mapJob, deleteJob, row, registered, view, reg>>
        /\ pc # "idle" /\ pc' \in {"delete", "patch"}
    BY <1>5 DEF NovaList, NovaDeleted, userVars, jobVars, dbVars, statusVars, localVars, loopVars
  <2>2. doomed' = {}
    BY <1>5, <1>i, <2>1 DEF NovaList, NovaDeleted, localVars, NoneDoomed, CRLags
  <2>. QED
    BY <1>i, <2>1, <2>2 DEF NoneDoomed, CRLags, SecretLags, JobLags, RegisteredLags
<1>6. CASE NovaDeleteJob \/ NovaDrop
  BY <1>i, <1>6 DEF NovaDeleteJob, NovaDrop, NoneDoomed
<1>7. CASE NovaPatch \/ NovaCrash
  <2>1. UNCHANGED <<spec, version, want, got, config, mapJob, deleteJob, row>> /\ Forget
        /\ registered' \in {reg, registered}
    BY <1>7 DEF NovaPatch, NovaCrash, userVars, jobVars, dbVars, statusVars
  <2>2. NoneDoomed' /\ SecretLags' /\ JobLags'
    BY <1>i, <2>1 DEF Forget, NoneDoomed, SecretLags, JobLags
  <2>3. CRLags'
    BY <1>i, <2>1 DEF Forget, ForAll, CRLags
  <2>4. RegisteredLags'
    <3>1. \A d \in Cells : reg'[d] = 0 /\ row[d] \in Nat
      BY <2>1, CellNumbers DEF Forget, ForAll
    <3>. QED
      BY <1>i, <2>1, <3>1 DEF RegisteredLags
  <2>. QED
    BY <2>2, <2>3, <2>4
<1>8. CASE UNCHANGED vars
  BY <1>i, <1>8
  DEF vars, userVars, jobVars, dbVars, statusVars, localVars, loopVars, NoneDoomed, CRLags,
      SecretLags, JobLags, RegisteredLags
<1>. QED
  BY <1>1, <1>2, <1>3, <1>4, <1>5, <1>6, <1>7, <1>8 DEF Next, Nova, Workloads

(* As long as no cell has been removed, no row is ahead of the             *)
(* configuration that the NovaCell has rolled out, whatever credentials    *)
(* change, calls and jobs fail, and whenever the job mounts its Secret     *)
(* (ensureCell waits for the NovaCell and then runs ensureCellMapped).     *)
THEOREM MappingLags == Spec => [](removals = 0 => RowNotAhead)
<1>1. Init => Typed /\ DeployInv
  BY TypesInit, DeployInit
  DEF TypeOK, Typed, UserTypes, CellTypes, JobTypes, StatusTypes, LoopTypes, WorkTypes
<1>2. Typed /\ DeployInv => (removals = 0 => RowNotAhead)
  <2> SUFFICES ASSUME Typed, SecretLags, JobLags, NEW c \in Cells
               PROVE  row[c] <= got[c].v
    BY DEF DeployInv, RowNotAhead
  <2>1. row[c] \in Nat /\ config[c] \in Nat /\ got[c].v \in Nat
    BY CellNumbers
  <2>. QED
    BY <2>1 DEF SecretLags, JobLags
<1>. QED
  BY <1>1, <1>2, TypedStep, DeployStep, PTL DEF Spec

(* As long as no cell has been removed, a cell of the spec that counts as  *)
(* ready has a row with at least the configuration in RegisteredCells,     *)
(* whatever job or call fails or status write is lost.                     *)
THEOREM RegisteredLagsMapping == Spec => [](removals = 0 => RegisteredIsMapped)
<1>1. Init => Typed /\ DeployInv
  BY TypesInit, DeployInit
  DEF TypeOK, Typed, UserTypes, CellTypes, JobTypes, StatusTypes, LoopTypes, WorkTypes
<1>2. Typed /\ DeployInv => (removals = 0 => RegisteredIsMapped)
  BY DEF DeployInv, RegisteredLags, RegisteredIsMapped, Typed, UserTypes
<1>. QED
  BY <1>1, <1>2, TypedStep, DeployStep, PTL DEF Spec

-----------------------------------------------------------------------------
(* The removal of cells.                                                   *)

(* What ensureCellDeleted takes for granted when it finds the delete job   *)
(* of a cell done: no mapping job is still to run for a cell that has left *)
(* the spec, and no cell of the spec has a done delete job, of a former    *)
(* removal.                                                                *)
JobsMatchSpec ==
    \A c \in Cells \ {Cell0} :
       /\ c \notin spec => mapJob[c].state \notin {"created", "started"}
       /\ c \in spec => deleteJob[c].state # "done"

(* What a reconcile has read is a configuration the cell has had; cell0 is *)
(* always among it, and never deleted.                                     *)
ViewsReal ==
    /\ \A c \in Cells :
          /\ c \in spec => version[c] >= 1
          /\ view[c] # NoCR => 1 <= view[c].v /\ view[c].v <= version[c]
          /\ c \in doomed => view[c] = NoCR
    /\ pc # "idle" => view[Cell0] # NoCR
    /\ pc \in {"idle", "cells"} => doomed = {}

(* While the cells are looked at, those in the spec have their databases   *)
(* and buses.                                                              *)
BackendThere ==
    \A c \in Cells : pc = "cells" /\ view[c] # NoCR => Backend \subseteq resources[c]

MayMap(c) == mapJob[c].state \in {"created", "started"}

(* Whose delete job is done has no row.                                    *)
DeletedHasNoRow ==
    \A c \in Cells \ {Cell0} : deleteJob[c].state = "done" => row[c] = 0

(* A cell that is being taken apart has no row and nothing to write it,    *)
(* whatever becomes of its delete job and of its place in the spec.        *)
DroppedForGood ==
    \A c \in Cells : pc = "drop" /\ IsNextDoomed(c) => row[c] = 0 /\ ~MayMap(c)

(* Where a row is, or a job that may write it, the cell is still there.    *)
RowsServed ==
    \A c \in Cells :
       row[c] # 0 \/ MayMap(c) => Backend \subseteq resources[c] /\ want[c] # NoCR

RemovalInv ==
    /\ ViewsReal /\ BackendThere
    /\ DeletedHasNoRow /\ DroppedForGood /\ RowsServed

LEMMA RemovalInit == Init => RemovalInv
<1> SUFFICES ASSUME Init PROVE RemovalInv
  OBVIOUS
<1>1. \A c \in Cells : /\ version[c] = IF c = Cell0 THEN 1 ELSE 0
                       /\ view[c] = NoCR /\ mapJob[c] = NoJob /\ deleteJob[c] = NoJob /\ row[c] = 0
  BY DEF Init, ForAll
<1>2. spec = {Cell0} /\ doomed = {} /\ pc = "idle"
  BY DEF Init
<1>. QED
  BY <1>1, <1>2 DEF RemovalInv, ViewsReal, BackendThere, DeletedHasNoRow, DroppedForGood,
     RowsServed, MayMap, NoJob

(* The deletions are handled one cell at a time.                           *)
LEMMA OneNextDoomed ==
  ASSUME NEW c \in Cells, NEW d \in Cells, IsNextDoomed(c), IsNextDoomed(d)
  PROVE  c = d
<1>1. PICK i, j \in DOMAIN CellOrder : CellOrder[i] = c /\ CellOrder[j] = d
  BY DEF Cells
<1>2. c \in doomed /\ d \in doomed
  BY DEF IsNextDoomed
<1>3. i <= j /\ j <= i
  BY <1>1, <1>2 DEF IsNextDoomed
<1>4. i \in Nat /\ j \in Nat
  BY CellConstants
<1>. QED
  BY <1>1, <1>3, <1>4

(* A configuration is never taken back.                                    *)
LEMMA VersionGrows ==
  ASSUME Typed, [Next]_vars, NEW c \in Cells
  PROVE  version'[c] >= version[c] /\ version'[c] \in Nat
<1>1. version \in [Cells -> Version] /\ \A d \in Cells : version[d] \in Nat
  BY CellNumbers DEF Typed, UserTypes
<1>2. ASSUME NEW d \in Cells, AddCell(d) \/ Reconfigure(d)
      PROVE  version'[c] >= version[c] /\ version'[c] \in Nat
  <2>1. \E v \in {version[d], version[d] + 1} : version' = [version EXCEPT ![d] = v]
    BY <1>2 DEF AddCell, Reconfigure
  <2>. QED
    BY <1>1, <2>1
<1>3. CASE UNCHANGED version
  BY <1>1, <1>3
<1>4. \/ \E d \in Cells : AddCell(d) \/ Reconfigure(d)
      \/ UNCHANGED version
  BY DEF Next, RemoveCell, EditTemplates, Workloads, BackendReady,
     CellDeploys, MapStart, MapDone, DiscoverDone, DeleteDone, MapFails, JobExpires, Nova,
     NovaStart, NovaEnsureCell, NovaList, NovaDeleteJob, NovaDrop, NovaDeleted, NovaPatch,
     NovaCrash, vars, userVars
<1>. QED
  BY <1>2, <1>3, <1>4

LEMMA ViewsStep ==
  ASSUME Typed, ViewsReal, BackendThere, [Next]_vars
  PROVE  ViewsReal' /\ BackendThere'
<1>t. /\ version \in [Cells -> Version] /\ view \in [Cells -> CR]
      /\ resources \in [Cells -> SUBSET Resources] /\ Cell0 \in Cells /\ Cell0 \in spec
  BY CellFacts DEF Typed, UserTypes, CellTypes, LoopTypes
<1>n. \A c \in Cells : version[c] \in Nat /\ view[c].v \in Nat
  BY CellNumbers
<1>v. \A c \in Cells : version'[c] >= version[c] /\ version'[c] \in Nat
  BY VersionGrows
<1>1. ASSUME NEW c \in Cells, AddCell(c) \/ RemoveCell(c) \/ Reconfigure(c) \/ EditTemplates(c)
      PROVE  ViewsReal' /\ BackendThere'
  <2>1. UNCHANGED <<view, doomed, pc, resources>>
    BY <1>1 DEF AddCell, RemoveCell, Reconfigure, EditTemplates, localVars, loopVars
  <2>2. BackendThere'
    BY <2>1 DEF BackendThere
  <2>3. \A d \in Cells : d \in spec' => version'[d] >= 1
    <3> SUFFICES ASSUME NEW d \in Cells, d \in spec'
                 PROVE  version'[d] >= 1
      OBVIOUS
    <3>1. CASE d \in spec
      BY <1>n, <1>v, <3>1 DEF ViewsReal
    <3>2. CASE d \notin spec
      <4>1. AddCell(c) /\ d = c
        BY <1>1, <3>2 DEF AddCell, RemoveCell, Reconfigure, EditTemplates
      <4>2. version'[d] = version[d] + 1 \/ (version'[d] = version[d] /\ version[d] # 0)
        BY <1>t, <4>1 DEF AddCell
      <4>. QED
        BY <1>n, <4>2
    <3>. QED
      BY <3>1, <3>2
  <2>4. ViewsReal'
    BY <1>n, <1>v, <2>1, <2>3 DEF ViewsReal
  <2>. QED
    BY <2>2, <2>4
<1>2. ASSUME NEW c \in Cells, Workloads(c) \/ MapFails(c) \/ JobExpires(c)
      PROVE  ViewsReal' /\ BackendThere'
  <2>1. UNCHANGED <<spec, version, view, doomed, pc, resources>>
    BY <1>2 DEF Workloads, BackendReady, CellDeploys, MapStart, MapDone, DiscoverDone, DeleteDone,
       MapFails, JobExpires, userVars, localVars, loopVars
  <2>. QED
    BY <2>1 DEF ViewsReal, BackendThere
<1>3. CASE NovaStart
  <2>1. /\ \A d \in Cells : view'[d] = IF d \in spec THEN [v |-> version[d], t |-> templates[d]]
                                       ELSE NoCR
        /\ UNCHANGED <<spec, version, doomed>>
        /\ \A d \in Cells : resources'[d] = IF d \in spec THEN resources[d] \cup Backend
                                            ELSE resources[d]
    BY <1>3 DEF NovaStart, userVars
  <2>2. BackendThere'
    BY <2>1 DEF BackendThere
  <2>3. doomed = {}
    BY <1>3 DEF NovaStart, ViewsReal
  <2>4. ViewsReal'
    <3>1. \A d \in Cells : d \in spec => version[d] >= 1
      BY DEF ViewsReal
    <3>2. \A d \in Cells : d \in spec => view'[d].v = version[d]
      <4> SUFFICES ASSUME NEW d \in Cells, d \in spec
                   PROVE  view'[d].v = version[d]
        OBVIOUS
      <4>1. view'[d] = [v |-> version[d], t |-> templates[d]]
        BY <2>1
      <4>. QED
        BY <4>1
    <3>p. \A d \in Cells : d \notin spec => view'[d] = NoCR
      BY <2>1
    <3>3. \A d \in Cells : view'[d] # NoCR => 1 <= view'[d].v /\ view'[d].v <= version[d]
      <4> SUFFICES ASSUME NEW d \in Cells, view'[d] # NoCR
                   PROVE  1 <= view'[d].v /\ view'[d].v <= version[d]
        OBVIOUS
      <4>1. d \in spec
        BY <3>p
      <4>2. view'[d].v = version[d] /\ version[d] >= 1 /\ version[d] \in Nat
        BY <1>n, <3>1, <3>2, <4>1
      <4>. QED
        BY <4>2
    <3>4. view'[Cell0] # NoCR
      <4>1. view'[Cell0].v = version[Cell0] /\ version[Cell0] >= 1 /\ version[Cell0] \in Nat
        BY <1>n, <1>t, <3>1, <3>2
      <4>2. NoCR.v = 0
        BY DEF NoCR
      <4>. QED
        BY <4>1, <4>2
    <3>. QED
      BY <2>1, <2>3, <3>1, <3>3, <3>4 DEF ViewsReal
  <2>. QED
    BY <2>2, <2>4
<1>4. CASE NovaEnsureCell
  <2>1. /\ UNCHANGED <<spec, version, view, doomed, pc>>
        /\ \E r : resources' = [resources EXCEPT ![CellOrder[next]] = @ \cup r]
    <3>1. UNCHANGED <<spec, version, view, doomed, pc>>
      BY <1>4 DEF NovaEnsureCell, userVars
    <3>2. \/ resources' = resources
          \/ \E r \in {{"secret"}, {"secret", "jobSecrets"}} :
                resources' = [resources EXCEPT ![CellOrder[next]] = @ \cup r]
      BY <1>4 DEF NovaEnsureCell
    <3>3. resources = [resources EXCEPT ![CellOrder[next]] = @ \cup {}]
      BY <1>t
    <3>. QED
      BY <3>1, <3>2, <3>3
  <2>2. \A d \in Cells : resources[d] \subseteq resources'[d]
    BY <1>t, <2>1
  <2>. QED
    BY <2>1, <2>2 DEF ViewsReal, BackendThere
<1>5. CASE NovaList \/ NovaDeleted \/ NovaDeleteJob \/ NovaDrop
  <2>1. /\ UNCHANGED <<spec, version, view>>
        /\ pc # "idle" /\ pc' \in {"delete", "drop", "patch"}
    BY <1>5 DEF NovaList, NovaDeleted, NovaDeleteJob, NovaDrop, userVars, localVars, loopVars
  <2>2. \A d \in doomed' : d \in doomed \/ view[d] = NoCR
    BY <1>5 DEF NovaList, NovaDeleted, NovaDeleteJob, NovaDrop, localVars
  <2>. QED
    BY <2>1, <2>2 DEF ViewsReal, BackendThere
<1>6. CASE NovaPatch \/ NovaCrash
  <2>1. UNCHANGED <<spec, version>> /\ Forget
    BY <1>6 DEF NovaPatch, NovaCrash, userVars
  <2>. QED
    BY <2>1 DEF Forget, ForAll, ViewsReal, BackendThere
<1>7. CASE UNCHANGED vars
  BY <1>7 DEF vars, userVars, localVars, loopVars, ViewsReal, BackendThere
<1>. QED
  BY <1>1, <1>2, <1>3, <1>4, <1>5, <1>6, <1>7 DEF Next, Nova, Workloads

(* One step, with the jobs and the spec in agreement.                      *)
LEMMA RemovalStep ==
  ASSUME Typed, RemovalInv, JobsMatchSpec, [Next]_vars
  PROVE  (DeletedHasNoRow /\ DroppedForGood /\ RowsServed)'
<1>t. /\ view \in [Cells -> CR]
      /\ resources \in [Cells -> SUBSET Resources] /\ Cell0 \in Cells
      /\ mapJob \in [Cells -> Job] /\ deleteJob \in [Cells -> Job] /\ row \in [Cells -> Version]
      /\ want \in [Cells -> CR]
  BY CellFacts DEF Typed, CellTypes, LoopTypes, JobTypes
<1>i. ViewsReal /\ BackendThere /\ DeletedHasNoRow /\ DroppedForGood /\ RowsServed
  BY DEF RemovalInv
<1>1. CASE UNCHANGED <<mapJob, deleteJob, row, pc, doomed, resources, want>>
  BY <1>1, <1>i DEF DeletedHasNoRow, DroppedForGood, RowsServed, MayMap, IsNextDoomed
<1>2. ASSUME NEW c \in Cells,
             AddCell(c) \/ RemoveCell(c) \/ Reconfigure(c) \/ EditTemplates(c)
             \/ BackendReady(c) \/ CellDeploys(c) \/ DiscoverDone(c)
      PROVE  UNCHANGED <<mapJob, deleteJob, row, pc, doomed, resources, want>>
  BY <1>2 DEF AddCell, RemoveCell, Reconfigure, EditTemplates, BackendReady, CellDeploys,
     DiscoverDone, userVars, jobVars, dbVars, localVars
<1>3. ASSUME NEW c \in Cells, JobExpires(c)
      PROVE  (DeletedHasNoRow /\ DroppedForGood /\ RowsServed)'
  <2>1. UNCHANGED <<row, pc, doomed, resources, want>>
    BY <1>3 DEF JobExpires, dbVars, localVars
  <2>2. /\ \A d \in Cells : mapJob'[d] = mapJob[d] \/ mapJob'[d] = NoJob
        /\ \A d \in Cells : deleteJob'[d] = deleteJob[d] \/ deleteJob'[d] = NoJob
    BY <1>3, <1>t DEF JobExpires
  <2>3. NoJob.state = "none"
    BY DEF NoJob
  <2>. QED
    BY <1>i, <2>1, <2>2, <2>3
    DEF DeletedHasNoRow, DroppedForGood, RowsServed, MayMap, IsNextDoomed
<1>4. ASSUME NEW c \in Cells, MapStart(c) \/ MapDone(c) \/ MapFails(c)
      PROVE  (DeletedHasNoRow /\ DroppedForGood /\ RowsServed)'
  <2>1. UNCHANGED <<deleteJob, pc, doomed, resources, want>>
    BY <1>4 DEF MapStart, MapDone, MapFails, localVars
  <2>2. /\ \A d \in Cells : d # c => mapJob'[d] = mapJob[d] /\ row'[d] = row[d]
        /\ MayMap(c)
        /\ \/ mapJob'[c].state \in {"started", "failed"} /\ row' = row
           \/ mapJob'[c].state = "done"
    <3>1. CASE MapStart(c)
      <4>1. mapJob' = [mapJob EXCEPT ![c] = [mapJob[c] EXCEPT !.state = "started",
                                                             !.mounted = config[c]]]
        BY <1>t, <3>1 DEF MapStart
      <4>. QED
        BY <1>t, <3>1, <4>1 DEF MapStart, dbVars, Job, MayMap
    <3>2. CASE MapDone(c)
      <4>1. mapJob' = [mapJob EXCEPT ![c] = [mapJob[c] EXCEPT !.state = "done"]]
        BY <1>t, <3>2 DEF MapDone
      <4>. QED
        BY <1>t, <3>2, <4>1 DEF MapDone, Job, MayMap
    <3>3. CASE MapFails(c)
      <4>1. mapJob' = [mapJob EXCEPT ![c] = [mapJob[c] EXCEPT !.state = "failed"]]
        BY <1>t, <3>3 DEF MapFails
      <4>. QED
        BY <1>t, <3>3, <4>1 DEF MapFails, dbVars, Job, MayMap
    <3>. QED
      BY <1>4, <3>1, <3>2, <3>3
  <2>3. c # Cell0 => deleteJob[c].state # "done"
    BY <2>2 DEF JobsMatchSpec, MayMap
  <2>4. DeletedHasNoRow'
    BY <1>i, <2>1, <2>2, <2>3 DEF DeletedHasNoRow
  <2>5. DroppedForGood'
    BY <1>i, <2>1, <2>2 DEF DroppedForGood, IsNextDoomed, MayMap
  <2>6. RowsServed'
    BY <1>i, <2>1, <2>2 DEF RowsServed, MayMap
  <2>. QED
    BY <2>4, <2>5, <2>6
<1>5. ASSUME NEW c \in Cells, DeleteDone(c)
      PROVE  (DeletedHasNoRow /\ DroppedForGood /\ RowsServed)'
  <2>1. UNCHANGED <<mapJob, pc, doomed, resources, want>>
    BY <1>5 DEF DeleteDone, localVars
  <2>2. /\ \A d \in Cells : d # c => deleteJob'[d] = deleteJob[d]
        /\ \A d \in Cells : row'[d] \in {row[d], 0}
        /\ deleteJob'[c].state = "failed" \/ row'[c] = 0
    BY <1>5, <1>t DEF DeleteDone, Job
  <2>. QED
    BY <1>i, <2>1, <2>2 DEF DeletedHasNoRow, DroppedForGood, RowsServed, MayMap, IsNextDoomed
<1>6. CASE NovaStart
  <2>1. /\ UNCHANGED <<mapJob, deleteJob, row, want>> /\ pc' # "drop"
        /\ \A d \in Cells : resources[d] \subseteq resources'[d]
    BY <1>6, <1>t DEF NovaStart, jobVars, dbVars
  <2>. QED
    BY <1>i, <2>1 DEF DeletedHasNoRow, DroppedForGood, RowsServed, MayMap
<1>7. CASE NovaEnsureCell
  <2> DEFINE c == CellOrder[next]
  <2>c. c \in Cells
    BY <1>7, LoopCell DEF NovaEnsureCell, Typed
  <2>1. UNCHANGED <<deleteJob, row, pc, doomed>> /\ pc = "cells"
    BY <1>7 DEF NovaEnsureCell, dbVars
  <2>2. /\ \A d \in Cells : resources[d] \subseteq resources'[d]
        /\ \A d \in Cells : want'[d] = want[d] \/ (want'[d] = view[d] /\ view[d] # NoCR)
        /\ mapJob' = mapJob \/ ( /\ mapJob' = [mapJob EXCEPT ![c] = Mapping(c).job]
                                 /\ want'[c] = view[c] /\ view[c] # NoCR )
    BY <1>7, <1>t, <2>c DEF NovaEnsureCell, MapAndDiscover
  <2>3. ASSUME NEW d \in Cells, mapJob'[d] # mapJob[d]
        PROVE  want'[d] # NoCR /\ view[d] # NoCR
    BY <1>t, <2>c, <2>2, <2>3
  <2>4. RowsServed'
    BY <1>i, <2>1, <2>2, <2>3 DEF RowsServed, BackendThere, MayMap
  <2>. QED
    BY <1>i, <2>1, <2>4 DEF DeletedHasNoRow, DroppedForGood
<1>8. CASE NovaList \/ NovaDeleted
  <2>1. UNCHANGED <<mapJob, deleteJob, row, resources, want>> /\ pc' # "drop"
    BY <1>8 DEF NovaList, NovaDeleted, jobVars, dbVars
  <2>. QED
    BY <1>i, <2>1 DEF DeletedHasNoRow, DroppedForGood, RowsServed, MayMap
<1>9. CASE NovaDeleteJob
  <2>1. /\ UNCHANGED <<mapJob, row, want>> /\ pc = "delete"
        /\ \A d \in Cells : resources[d] \subseteq resources'[d]
    BY <1>9, <1>t DEF NovaDeleteJob, dbVars
  <2>2. PICK c \in doomed :
          /\ IsNextDoomed(c)
          /\ \/ /\ deleteJob' = [deleteJob EXCEPT ![c] = DoJob(deleteJob[c], view[Cell0].v, 0).job]
                /\ \/ /\ DoJob(deleteJob[c], view[Cell0].v, 0).result = "done"
                      /\ UNCHANGED doomed
                   \/ pc' # "drop"
             \/ UNCHANGED deleteJob /\ pc' # "drop"
    BY <1>9 DEF NovaDeleteJob, MayDrop
  <2>3. c \in Cells /\ c # Cell0
    BY <1>i, <2>1, <2>2 DEF Typed, WorkTypes, ViewsReal
  <2>4. LET run == DoJob(deleteJob[c], view[Cell0].v, 0) IN
        /\ run.job = deleteJob[c] \/ run.job.state = "created"
        /\ run.result = "done" => run.job = deleteJob[c] /\ deleteJob[c].state = "done"
    <3>1. deleteJob[c] \in Job /\ view[Cell0].v \in Version
      BY <1>t, <2>3 DEF CR
    <3>. QED
      BY <3>1, DoJobFacts
  <2>5. \A d \in Cells : deleteJob'[d].state = "done" => deleteJob[d].state = "done"
    BY <1>t, <2>2, <2>3, <2>4
  <2>6. ASSUME NEW d \in Cells, pc' = "drop", IsNextDoomed(d)'
        PROVE  row[d] = 0 /\ ~MayMap(d)
    <3>1. doomed' = doomed /\ deleteJob[c].state = "done"
      BY <2>2, <2>4, <2>6
    <3>2. IsNextDoomed(d)
      BY <2>6, <3>1 DEF IsNextDoomed
    <3>3. d = c
      BY <2>2, <2>3, <3>2, OneNextDoomed
    <3>4. row[c] = 0
      BY <1>i, <2>3, <3>1 DEF DeletedHasNoRow
    <3>5. ~MayMap(c)
      BY <2>3, <3>1 DEF JobsMatchSpec, MayMap
    <3>. QED
      BY <3>3, <3>4, <3>5
  <2>7. DeletedHasNoRow' /\ RowsServed'
    BY <1>i, <2>1, <2>5 DEF DeletedHasNoRow, RowsServed, MayMap
  <2>8. DroppedForGood'
    BY <2>1, <2>6 DEF DroppedForGood, MayMap
  <2>. QED
    BY <2>7, <2>8
<1>10. CASE NovaDrop
  <2>1. UNCHANGED <<mapJob, deleteJob, row>> /\ pc = "drop"
    BY <1>10 DEF NovaDrop, jobVars, dbVars
  <2>2. PICK c \in doomed :
          /\ IsNextDoomed(c)
          /\ (\E r : resources' = [resources EXCEPT ![c] = @ \ {r}]) \/ UNCHANGED resources
          /\ want' \in {want, [want EXCEPT ![c] = NoCR]}
          /\ UNCHANGED doomed \/ pc' = "delete"
    BY <1>10 DEF NovaDrop
  <2>3. c \in Cells
    BY <2>2 DEF Typed, WorkTypes
  <2>4. row[c] = 0 /\ ~MayMap(c)
    BY <1>i, <2>1, <2>2, <2>3 DEF DroppedForGood
  <2>5. DeletedHasNoRow' /\ DroppedForGood'
    BY <1>i, <2>1, <2>2 DEF DeletedHasNoRow, DroppedForGood, IsNextDoomed, MayMap
  <2>6. \A d \in Cells : d # c => resources'[d] = resources[d] /\ want'[d] = want[d]
    BY <1>t, <2>2
  <2>7. RowsServed'
    BY <1>i, <2>1, <2>3, <2>4, <2>6 DEF RowsServed, MayMap
  <2>. QED
    BY <2>5, <2>7
<1>11. CASE NovaPatch \/ NovaCrash
  <2>1. UNCHANGED <<mapJob, deleteJob, row, resources, want>> /\ pc' # "drop"
    BY <1>11 DEF NovaPatch, NovaCrash, Forget, jobVars, dbVars
  <2>. QED
    BY <1>i, <2>1 DEF DeletedHasNoRow, DroppedForGood, RowsServed, MayMap
<1>12. CASE UNCHANGED vars
  BY <1>1, <1>12 DEF vars, jobVars, dbVars, localVars
<1>. QED
  BY <1>1, <1>2, <1>3, <1>4, <1>5, <1>6, <1>7, <1>8, <1>9, <1>10, <1>11, <1>12
  DEF Next, Nova, Workloads

(* As long as the jobs of every cell and its place in the spec agree, what *)
(* a mapping leads to exists while the row does, however often cells are   *)
(* reconfigured, removed and added again, jobs are cleaned up, calls fail  *)
(* and the operator restarts: ensureCellDeleted takes database, account    *)
(* and bus away only after its delete job has deleted the row, and nothing *)
(* writes that row again.                                                  *)
THEOREM MappedCellsServed == Spec /\ []JobsMatchSpec => []RowHasCell
<1>1. Init => Typed /\ RemovalInv
  BY TypesInit, RemovalInit
  DEF TypeOK, Typed, UserTypes, CellTypes, JobTypes, StatusTypes, LoopTypes, WorkTypes
<1>2. Typed /\ RemovalInv /\ JobsMatchSpec /\ [Next]_vars => RemovalInv'
  BY ViewsStep, RemovalStep DEF RemovalInv
<1>3. RemovalInv => RowHasCell
  BY DEF RemovalInv, RowsServed, RowHasCell
<1>. QED
  BY <1>1, <1>2, <1>3, TypedStep, PTL DEF Spec

(* A NovaCell CR only goes when nothing else is left of its cell.          *)
LEMMA DropsLast ==
  ASSUME Typed, RemovalInv, [Next]_vars,
         NEW c \in Cells, want[c] # NoCR, want'[c] = NoCR
  PROVE  resources[c] = {} /\ row[c] = 0 /\ row'[c] = 0
<1>t. want \in [Cells -> CR] /\ view \in [Cells -> CR]
  BY DEF Typed, CellTypes, LoopTypes
<1>1. ~UNCHANGED want
  OBVIOUS
<1>2. ~NovaEnsureCell
  <2> SUFFICES ASSUME NovaEnsureCell PROVE FALSE
    OBVIOUS
  <2>1. want' = want \/ (want' = [want EXCEPT ![CellOrder[next]] = view[CellOrder[next]]]
                         /\ view[CellOrder[next]] # NoCR)
    BY DEF NovaEnsureCell
  <2>. QED
    BY <1>t, <2>1
<1>3. NovaDrop
  BY <1>1, <1>2 DEF Next, AddCell, RemoveCell, Reconfigure, EditTemplates, Workloads, BackendReady,
     CellDeploys, MapStart, MapDone, DiscoverDone, DeleteDone, MapFails, JobExpires, Nova,
     NovaStart, NovaList, NovaDeleteJob, NovaDeleted, NovaPatch, NovaCrash, vars
<1>4. PICK d \in doomed : /\ IsNextDoomed(d) /\ Remaining(d) = {}
                          /\ want' = [want EXCEPT ![d] = NoCR]
  BY <1>1, <1>3 DEF NovaDrop
<1>5. d = c
  BY <1>t, <1>4
<1>6. pc = "drop" /\ UNCHANGED row
  BY <1>3 DEF NovaDrop, dbVars
<1>. QED
  BY <1>4, <1>5, <1>6 DEF RemovalInv, DroppedForGood, Remaining

(* Under the same condition the NovaCell CR goes last, when neither its    *)
(* resources nor its row are left, however often calls failed and the      *)
(* operator restarted on the way, and when the cell is added again before  *)
(* its removal is over (the comment of ensureCellDeleted on why the CR has *)
(* to be deleted last).                                                    *)
THEOREM CellGoesLast == Spec /\ []JobsMatchSpec => NovaCellGoesLast
<1>1. Init => Typed /\ RemovalInv
  BY TypesInit, RemovalInit
  DEF TypeOK, Typed, UserTypes, CellTypes, JobTypes, StatusTypes, LoopTypes, WorkTypes
<1>2. Typed /\ RemovalInv /\ JobsMatchSpec /\ [Next]_vars => RemovalInv'
  BY ViewsStep, RemovalStep DEF RemovalInv
<1>3. Typed /\ RemovalInv /\ [Next]_vars
        => [\A c \in Cells : want[c] # NoCR /\ want'[c] = NoCR =>
               resources[c] = {} /\ row[c] = 0 /\ row'[c] = 0]_vars
  BY DropsLast
<1>. QED
  BY <1>1, <1>2, <1>3, TypedStep, PTL DEF Spec, NovaCellGoesLast

=============================================================================
