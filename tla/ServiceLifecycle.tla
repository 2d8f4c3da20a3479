---------------------------- MODULE ServiceLifecycle ----------------------------
(***************************************************************************)
(* The life of the CRs whose controllers run pods, from their first        *)
(* reconcile to the end of their deletion, with everything they hold or    *)
(* create on the way: the finalizer on the Memcached they use, the one on  *)
(* the Topology they refer to, their KeystoneEndpoint, their StatefulSet   *)
(* and the records its pods leave in the nova database.                    *)
(*                                                                         *)
(* A controller reconciles one CR at a time: Begin reads the CR and picks  *)
(* the steps of its kind (ServiceKinds), each step is an action, and Patch *)
(* is the deferred write of finalizers and status.  A reconcile is started *)
(* by an event of something the controller watches, or as a retry; one     *)
(* that only waits relies on the watches.  The user, the other operators   *)
(* and the pods act in between; a call may fail, a patch may be lost, and  *)
(* the operator may restart between any two steps.                         *)
(*                                                                         *)
(* Contents and hashes are left out: what a service runs with is modelled  *)
(* in SecretRotation, images in ImageUpgrade.                              *)
(***************************************************************************)
EXTENDS Naturals, ServiceKinds

CONSTANTS
    Services,     \* the CRs
    TopologyCRs,  \* the Topology CRs
    NoTopology,   \* no reference to a Topology
    HostsMatch,   \* <<s, t>>: the host names of t contain the cell name of s
    MaxReplicas,  \* bound: replicas of a service
    Faults,       \* the faults that may happen
    Deployments   \* what may be deployed: the kind of each CR, which of them are
                  \* there, and as bounds how many inputs are missing at first,
                  \* how many faults happen, and how many edits and deletions,
                  \* those missing inputs included

FaultKinds == {"call", "read", "cleanup", "patch", "restart"}

ASSUME ServiceConstants ==
    /\ NoTopology \notin TopologyCRs
    /\ HostsMatch \subseteq Services \X Services
    /\ MaxReplicas \in Nat \ {0}
    /\ Faults \subseteq FaultKinds
    /\ \A d \in Deployments :
          /\ d.kind \in [Services -> Kinds] /\ d.there \subseteq Services
          /\ {d.missing, d.edits, d.faults} \subseteq Nat /\ d.missing <= d.edits

Refs == TopologyCRs \cup {NoTopology}
Spec_ == [topo : Refs, replicas : 0 .. MaxReplicas]
NoPods == [topo |-> NoTopology, replicas |-> 0]
Life == {"live", "deleting", "gone"}

VARIABLES
    kind,       \* kind[s]: the kind of CR s
    cr,         \* cr[s]: [life, fin, spec], fin is its own finalizer
    status,     \* status[s]: [pending, topo, seen], as it was last patched:
                \* conditions that are not True, LastAppliedTopology, and
                \* whether ObservedGeneration is the generation
    todo,       \* todo[s]: the steps left of the reconcile of s, or none
    local,      \* local[s]: the copy of the CR that reconcile works on
    queue,      \* the CRs with a request in the work queue
    inputs,     \* the inputs that exist
    memcached,  \* [life, fins]: the kinds that have a finalizer on it
    topology,   \* topology[t]: [life, fins], the CRs with a finalizer on it
    endpoint,   \* endpoint[s]: KeystoneEndpoint [life, fin, ready]
    job,        \* job[s]: the DB sync job: "none", "running" or "done"
    sts,        \* sts[s]: the spec its StatefulSet was last given
    running,    \* running[s]: the spec its pods run
    records,    \* records[s]: indices of its pods with a service record
    ignored,    \* history: the CRs for which an error was dropped
    edits, faults  \* bounds: how many may still happen

crVars == <<kind, cr, status>>
workVars == <<todo, local, queue>>
heldVars == <<memcached, topology, endpoint>>
podVars == <<job, sts, running, records>>
boundVars == <<ignored, edits, faults>>
vars == <<crVars, workVars, inputs, heldVars, podVars, boundVars>>

Idle == [spec |-> NoPods, fin |-> FALSE, pending |-> {}, topo |-> NoTopology,
         observed |-> FALSE, fresh |-> FALSE]

Init ==
    \E d \in Deployments :
    /\ kind = d.kind
    /\ cr = [s \in Services |-> [life |-> IF s \in d.there THEN "live" ELSE "gone",
                                 fin |-> FALSE,
                                 spec |-> [topo |-> NoTopology, replicas |-> 1]]]
    /\ status = [s \in Services |-> [pending |-> {"Ready"}, topo |-> NoTopology,
                                     seen |-> FALSE]]
    /\ todo = [s \in Services |-> <<>>]
    /\ local = [s \in Services |-> Idle]
    /\ queue = d.there
    /\ \E missing \in SUBSET UNION { Needed(kind[s]) : s \in d.there } :
          /\ Cardinality(missing) <= d.missing
          /\ inputs = Inputs \ missing
          /\ edits = d.edits - Cardinality(missing)
    /\ memcached = [life |-> "live", fins |-> {}]
    /\ topology = [t \in TopologyCRs |-> [life |-> "live", fins |-> {}]]
    /\ endpoint = [s \in Services |-> [life |-> "gone", fin |-> FALSE, ready |-> FALSE]]
    /\ job = [s \in Services |-> "none"]
    /\ sts = [s \in Services |-> NoPods]
    /\ running = [s \in Services |-> NoPods]
    /\ records = [s \in Services |-> {}]
    /\ ignored = {}
    /\ faults = d.faults

-----------------------------------------------------------------------------
(* Parts that several actions share. *)

At(s, op) == todo[s] # <<>> /\ Head(todo[s]).op = op

GoOn(s) == todo' = [todo EXCEPT ![s] = Tail(@)]
(* A reconcile that ends early still runs the deferred patch.  *)
End(s) == todo' = [todo EXCEPT ![s] = Save]

MarkTrue(s, conds) == local' = [local EXCEPT ![s].pending = @ \ conds]
MarkFalse(s, cond) == local' = [local EXCEPT ![s].pending = @ \cup {cond}]

Retry(s) == queue' = queue \cup {s}
(* An event of an object that the controllers of these CRs watch. *)
Wake(S) == queue' = queue \cup { s \in S : cr[s].life # "gone" }
MemcachedWatchers == { s \in Services : HoldsMemcached(kind[s]) }

(* An object without finalizers goes as soon as it is deleted. *)
WithFins(obj, fins) ==
    [life |-> IF obj.life = "deleting" /\ fins = {} THEN "gone" ELSE obj.life,
     fins |-> fins]
Deleted(obj) == WithFins([obj EXCEPT !.life = "deleting"], obj.fins)

-----------------------------------------------------------------------------
(* The user, the other operators, and the pods. *)

(* A new spec is a new generation. *)
Edit(s) ==
    /\ cr[s].life = "live"
    /\ edits > 0
    /\ edits' = edits - 1
    /\ \/ \E t \in Refs \ {cr[s].spec.topo} : cr' = [cr EXCEPT ![s].spec.topo = t]
       \/ \E n \in 1 .. MaxReplicas \ {cr[s].spec.replicas} :
             cr' = [cr EXCEPT ![s].spec.replicas = n]
    /\ status' = [status EXCEPT ![s].seen = FALSE]
    /\ local' = [local EXCEPT ![s].fresh = FALSE]
    /\ Wake({s})
    /\ UNCHANGED <<kind, todo, inputs, heldVars, podVars, ignored, faults>>

(* The CR goes; its StatefulSet and its KeystoneEndpoint are deleted as    *)
(* its dependents.                                                         *)
Collect(s) ==
    /\ sts' = [sts EXCEPT ![s] = NoPods]
    /\ running' = [running EXCEPT ![s] = NoPods]
    /\ endpoint' = [endpoint EXCEPT ![s].life =
                       IF @ = "live" /\ endpoint[s].fin THEN "deleting" ELSE "gone"]

Delete(s) ==
    /\ cr[s].life = "live"
    /\ edits > 0
    /\ edits' = edits - 1
    /\ cr' = [cr EXCEPT ![s].life = IF cr[s].fin THEN "deleting" ELSE "gone"]
    /\ IF cr[s].fin THEN Wake({s}) /\ UNCHANGED <<sts, running, endpoint>>
       ELSE Collect(s) /\ UNCHANGED queue
    /\ UNCHANGED <<kind, status, todo, local, inputs, memcached, topology, job,
                   records, ignored, faults>>

DeleteMemcached ==
    /\ memcached.life = "live"
    /\ edits > 0
    /\ edits' = edits - 1
    /\ memcached' = Deleted(memcached)
    /\ Wake(MemcachedWatchers)
    /\ UNCHANGED <<crVars, todo, local, inputs, topology, endpoint, podVars, ignored, faults>>

DeleteTopology(t) ==
    /\ topology[t].life = "live"
    /\ edits > 0
    /\ edits' = edits - 1
    /\ topology' = [topology EXCEPT ![t] = Deleted(@)]
    /\ Wake({ s \in Services : cr[s].spec.topo = t })
    /\ UNCHANGED <<crVars, todo, local, inputs, memcached, endpoint, podVars, ignored, faults>>

(* A missing input appears.  Only those who watch it are told.             *)
Arrives(i) ==
    /\ i \notin inputs
    /\ inputs' = inputs \cup {i}
    /\ Wake({ s \in Services : \/ i \in Watches[kind[s]]
                               \/ i = "memcached" /\ s \in MemcachedWatchers })
    /\ UNCHANGED <<crVars, todo, local, heldVars, podVars, boundVars>>

(* Pods start once everything they mount is there, and register.           *)
RollOut(s) ==
    /\ running[s] # sts[s]
    /\ Mounts[kind[s]] \subseteq inputs
    /\ running' = [running EXCEPT ![s] = sts[s]]
    /\ records' = IF Registers(kind[s])
                  THEN [records EXCEPT ![s] = @ \cup 0 .. (sts[s].replicas - 1)]
                  ELSE records
    /\ Wake({s})
    /\ UNCHANGED <<crVars, todo, local, inputs, heldVars, job, sts, boundVars>>

JobDone(s) ==
    /\ job[s] = "running"
    /\ job' = [job EXCEPT ![s] = "done"]
    /\ Wake({s})
    /\ UNCHANGED <<crVars, todo, local, inputs, heldVars, sts, running, records,
                   boundVars>>

EndpointReady(s) ==
    /\ endpoint[s].life = "live"
    /\ ~endpoint[s].ready
    /\ endpoint' = [endpoint EXCEPT ![s].ready = TRUE]
    /\ Wake({s})
    /\ UNCHANGED <<crVars, todo, local, inputs, memcached, topology, podVars, boundVars>>

-----------------------------------------------------------------------------
(* The frame of every Reconcile. *)

(* The finalizer of its own that a reconcile adds first; the reconcile     *)
(* ends there, so that the finalizer is stored before anything else.       *)
AddsFinalizer(s) ==
    /\ cr[s].life = "live"
    /\ OwnsFinalizer(kind[s])
    /\ ~cr[s].fin

(* Without the early return of AddsFinalizer. *)
ProgramGoesOn(s) ==
    IF cr[s].life = "deleting" THEN Deletion[kind[s]] \o Save
    ELSE Steps[kind[s]] \o Save

Program(s) ==
    IF cr[s].life = "deleting" THEN Deletion[kind[s]] \o Save
    ELSE IF AddsFinalizer(s) THEN Save
    ELSE Steps[kind[s]] \o Save

(* One reconcile at a time for each kind.  All conditions start anew, and  *)
(* what the reconcile writes in the end starts as what it has read.        *)
Begin(s) ==
    /\ s \in queue
    /\ \A t \in Services : kind[t] = kind[s] => todo[t] = <<>>
    /\ queue' = queue \ {s}
    /\ IF cr[s].life = "gone"
       THEN UNCHANGED <<todo, local>>
       ELSE /\ todo' = [todo EXCEPT ![s] = Program(s)]
            /\ local' = [local EXCEPT ![s] =
                  [spec |-> cr[s].spec,
                   fin |-> cr[s].fin \/ AddsFinalizer(s),
                   pending |-> InitConditions[kind[s]] \cup
                       (IF cr[s].spec.topo = NoTopology THEN {} ELSE {"Topology"}),
                   topo |-> status[s].topo,
                   observed |-> kind[s] \notin CyborgKinds,
                   fresh |-> TRUE]]
    /\ UNCHANGED <<crVars, inputs, heldVars, podVars, boundVars>>

(* The generation noted when the status is written, not when it is read.   *)
OutcomeOfNow(s) ==
    [pending |-> local[s].pending, topo |-> local[s].topo, seen |-> TRUE]

(* The status as the deferred function writes it. *)
Outcome(s) ==
    [pending |-> local[s].pending, topo |-> local[s].topo,
     seen |-> IF local[s].observed THEN local[s].fresh ELSE status[s].seen]

(* PatchInstance.  A change of its own CR is an event like any other; a CR *)
(* in deletion goes with its last finalizer.                               *)
Patch(s) ==
    /\ At(s, "patch")
    /\ todo' = [todo EXCEPT ![s] = <<>>]
    /\ local' = [local EXCEPT ![s] = Idle]
    /\ IF cr[s].life = "gone"
       THEN UNCHANGED <<cr, status, queue, sts, running, endpoint>>
       ELSE /\ status' = [status EXCEPT ![s] = Outcome(s)]
            /\ IF cr[s].life = "deleting" /\ ~local[s].fin
               THEN /\ cr' = [cr EXCEPT ![s].life = "gone", ![s].fin = FALSE]
                    /\ Collect(s)
                    /\ UNCHANGED queue
               ELSE /\ cr' = [cr EXCEPT ![s].fin = local[s].fin]
                    /\ IF cr[s].fin # local[s].fin \/ status[s] # Outcome(s)
                       THEN Wake({s}) ELSE UNCHANGED queue
                    /\ UNCHANGED <<sts, running, endpoint>>
    /\ UNCHANGED <<kind, inputs, memcached, topology, job, records, boundVars>>

-----------------------------------------------------------------------------
(* The steps. *)

NeedInput(s) ==
    /\ At(s, "need")
    /\ LET step == Head(todo[s]) IN
       IF step.input \in inputs
       THEN GoOn(s) /\ MarkTrue(s, step.then) /\ UNCHANGED queue
       ELSE /\ End(s)
            /\ MarkFalse(s, step.cond)
            /\ IF step.miss = "retry" THEN Retry(s) ELSE UNCHANGED queue
    /\ UNCHANGED <<crVars, inputs, heldVars, podVars, boundVars>>

MakeObject(s) ==
    /\ At(s, "make")
    /\ GoOn(s)
    /\ MarkTrue(s, Head(todo[s]).then)
    /\ UNCHANGED <<crVars, queue, inputs, heldVars, podVars, boundVars>>

(* ensureMemcached: a Memcached in deletion is still Ready.                *)
EnsureMemcached(s) ==
    /\ At(s, "memcached")
    /\ IF "memcached" \in inputs /\ memcached.life # "gone"
       THEN GoOn(s) /\ MarkTrue(s, {"Memcached"}) /\ UNCHANGED queue
       ELSE End(s) /\ MarkFalse(s, "Memcached") /\ Retry(s)
    /\ UNCHANGED <<crVars, inputs, heldVars, podVars, boundVars>>

(* The finalizer is named after the kind.  Nothing can be added to an      *)
(* object in deletion.                                                     *)
HoldIt(s) ==
    /\ At(s, "holdMemcached")
    /\ IF kind[s] \in memcached.fins
       THEN GoOn(s) /\ UNCHANGED <<queue, local, memcached>>
       ELSE IF memcached.life = "live"
       THEN /\ memcached' = [memcached EXCEPT !.fins = @ \cup {kind[s]}]
            /\ Wake(MemcachedWatchers)
            /\ GoOn(s)
            /\ UNCHANGED local
       ELSE End(s) /\ MarkFalse(s, "Memcached") /\ Retry(s) /\ UNCHANGED memcached
    /\ UNCHANGED <<crVars, inputs, topology, endpoint, podVars, boundVars>>

(* EnsureTopology, first half: let go of the Topology that was applied     *)
(* last, when the CR refers to another one or to none now.                 *)
LeaveTopology(s) ==
    /\ At(s, "leaveTopology")
    /\ GoOn(s)
    /\ LET last == local[s].topo IN
       IF last # NoTopology /\ last # local[s].spec.topo
       THEN topology' = [topology EXCEPT ![last] = WithFins(@, @.fins \ {s})]
       ELSE UNCHANGED topology
    /\ UNCHANGED <<crVars, local, queue, inputs, memcached, endpoint, podVars, boundVars>>

(* Second half: hold the one it refers to, and note it as applied.         *)
TakeTopology(s) ==
    /\ At(s, "takeTopology")
    /\ LET t == local[s].spec.topo IN
       IF t = NoTopology
       THEN /\ GoOn(s)
            /\ local' = [local EXCEPT ![s].topo = NoTopology]
            /\ UNCHANGED <<topology, queue>>
       ELSE IF topology[t].life = "live" \/ s \in topology[t].fins
       THEN /\ GoOn(s)
            /\ topology' = [topology EXCEPT ![t].fins = @ \cup {s}]
            /\ local' = [local EXCEPT ![s].topo = t, ![s].pending = @ \ {"Topology"}]
            /\ UNCHANGED queue
       ELSE End(s) /\ MarkFalse(s, "Topology") /\ Retry(s) /\ UNCHANGED topology
    /\ UNCHANGED <<crVars, inputs, memcached, endpoint, podVars, boundVars>>

SyncDB(s) ==
    /\ At(s, "dbSync")
    /\ IF job[s] = "done"
       THEN GoOn(s) /\ MarkTrue(s, {"DBSync"}) /\ UNCHANGED <<queue, job>>
       ELSE /\ job' = [job EXCEPT ![s] = "running"]
            /\ End(s) /\ Retry(s) /\ UNCHANGED local
    /\ UNCHANGED <<crVars, inputs, heldVars, sts, running, records, boundVars>>

(* A StatefulSet whose owner is gone does not live.                        *)
EnsureStatefulSet(s) ==
    /\ At(s, "statefulSet")
    /\ GoOn(s)
    /\ IF cr[s].life # "gone" /\ sts[s] # local[s].spec
       THEN sts' = [sts EXCEPT ![s] = local[s].spec] /\ Wake({s})
       ELSE UNCHANGED <<sts, queue>>
    /\ UNCHANGED <<crVars, local, inputs, heldVars, job, running, records, boundVars>>

(* IsReadyForInput, read from the API server and not from the cache.       *)
RolledOut(s) ==
    /\ At(s, "rolledOut")
    /\ GoOn(s)
    /\ IF running[s] = sts[s]
       THEN MarkTrue(s, {"Deployment", "NetworkAttachments"})
       ELSE UNCHANGED local
    /\ UNCHANGED <<crVars, queue, inputs, heldVars, podVars, boundVars>>

(* What follows does not wait for the pods. *)
DeployedOrNot(s) ==
    /\ At(s, "whenDeployed")
    /\ GoOn(s)
    /\ UNCHANGED <<crVars, local, queue, inputs, heldVars, podVars, boundVars>>

WhenDeployed(s) ==
    /\ At(s, "whenDeployed")
    /\ IF "Deployment" \in local[s].pending THEN End(s) ELSE GoOn(s)
    /\ UNCHANGED <<crVars, local, queue, inputs, heldVars, podVars, boundVars>>

(* CyborgAPI leaves out the exposure, but observes its generation.         *)
IfDeployed(s) ==
    /\ At(s, "ifDeployed")
    /\ IF "Deployment" \in local[s].pending
       THEN todo' = [todo EXCEPT ![s] = <<Do("observe")>> \o Save]
       ELSE GoOn(s)
    /\ UNCHANGED <<crVars, local, queue, inputs, heldVars, podVars, boundVars>>

Observe(s) ==
    /\ At(s, "observe")
    /\ GoOn(s)
    /\ local' = [local EXCEPT ![s].observed = TRUE]
    /\ UNCHANGED <<crVars, queue, inputs, heldVars, podVars, boundVars>>

(* ensureKeystoneEndpoint: created with the finalizer of the controller.   *)
EnsureEndpoint(s) ==
    /\ At(s, "endpoint")
    /\ IF endpoint[s].life = "live" /\ endpoint[s].ready
       THEN /\ endpoint' = [endpoint EXCEPT ![s].fin = TRUE]
            /\ GoOn(s) /\ MarkTrue(s, {"KeystoneEndpoint"}) /\ UNCHANGED queue
       ELSE /\ endpoint' = [endpoint EXCEPT ![s].life = "live", ![s].fin = TRUE]
            /\ End(s)
            /\ UNCHANGED local
            /\ IF kind[s] \in CyborgKinds THEN Retry(s) ELSE UNCHANGED queue
    /\ UNCHANGED <<crVars, inputs, memcached, topology, podVars, boundVars>>

(* Off by one: index 1 is taken for valid with one replica. *)
CleanRecordsButOne(s) ==
    /\ At(s, "cleanRecords")
    /\ GoOn(s)
    /\ records' = [t \in Services |->
          IF kind[t] = kind[s] /\ <<s, t>> \in HostsMatch
          THEN { i \in records[t] : i <= local[s].spec.replicas } ELSE records[t]]
    /\ UNCHANGED <<crVars, local, queue, inputs, heldVars, job, sts, running, boundVars>>

(* cleanNovaServiceFromNovaDb: the records of pods beyond the replicas, of *)
(* every service of this kind whose host name contains the cell name.      *)
CleanRecords(s) ==
    /\ At(s, "cleanRecords")
    /\ GoOn(s)
    /\ records' = [t \in Services |->
          IF kind[t] = kind[s] /\ <<s, t>> \in HostsMatch
          THEN { i \in records[t] : i < local[s].spec.replicas } ELSE records[t]]
    /\ UNCHANGED <<crVars, local, queue, inputs, heldVars, job, sts, running, boundVars>>

-----------------------------------------------------------------------------
(* The steps of reconcileDelete. *)

DropEndpoint(s) ==
    /\ At(s, "dropEndpoint")
    /\ GoOn(s)
    /\ endpoint' = [endpoint EXCEPT ![s].fin = FALSE]
    /\ UNCHANGED <<crVars, local, queue, inputs, memcached, topology, podVars, boundVars>>

(* A Memcached that is gone taken for an error. *)
ReleaseExistingMemcached(s) ==
    /\ At(s, "dropMemcached") \/ At(s, "tryDropMemcached")
    /\ IF memcached.life = "gone" THEN End(s) /\ Retry(s) /\ UNCHANGED memcached
       ELSE /\ GoOn(s)
            /\ memcached' = WithFins(memcached, memcached.fins \ {kind[s]})
            /\ Wake(MemcachedWatchers)
    /\ UNCHANGED <<crVars, local, inputs, topology, endpoint, podVars, boundVars>>

ReleaseMemcached(s) ==
    /\ At(s, "dropMemcached") \/ At(s, "tryDropMemcached")
    /\ GoOn(s)
    /\ IF kind[s] \in memcached.fins
       THEN /\ memcached' = WithFins(memcached, memcached.fins \ {kind[s]})
            /\ Wake(MemcachedWatchers)
       ELSE UNCHANGED <<memcached, queue>>
    /\ UNCHANGED <<crVars, local, inputs, topology, endpoint, podVars, boundVars>>

DropTopology(s) ==
    /\ At(s, "dropTopology")
    /\ GoOn(s)
    /\ topology' = IF local[s].topo = NoTopology THEN topology
                   ELSE [topology EXCEPT ![local[s].topo] = WithFins(@, @.fins \ {s})]
    /\ UNCHANGED <<crVars, local, queue, inputs, memcached, endpoint, podVars, boundVars>>

DropFinalizer(s) ==
    /\ At(s, "dropFinalizer")
    /\ GoOn(s)
    /\ local' = [local EXCEPT ![s].fin = FALSE]
    /\ UNCHANGED <<crVars, queue, inputs, heldVars, podVars, boundVars>>

-----------------------------------------------------------------------------
(* Faults. *)

May(fault) == fault \in Faults /\ faults > 0 /\ faults' = faults - 1

(* A call that writes fails: the reconcile returns the error.  (A read that *)
(* fails ends it like a missing input does.)                               *)
Writes == {"make", "holdMemcached", "leaveTopology", "takeTopology", "dbSync",
           "statefulSet", "endpoint", "dropEndpoint", "dropMemcached",
           "tryDropMemcached", "dropTopology"}
CallFails(s) ==
    /\ todo[s] # <<>>
    /\ Head(todo[s]).op \in Writes
    /\ May("call")
    /\ End(s)
    /\ Retry(s)
    /\ UNCHANGED <<crVars, local, inputs, heldVars, podVars, ignored, edits>>

(* Two errors do not end the reconcile: reading the Memcached in some of   *)
(* the deletions, and cleaning up the service records.                     *)
ErrorIgnored(s) ==
    /\ \/ At(s, "tryDropMemcached") /\ May("read")
       \/ At(s, "cleanRecords") /\ May("cleanup")
    /\ ignored' = ignored \cup {s}
    /\ GoOn(s)
    /\ UNCHANGED <<crVars, local, queue, inputs, heldVars, podVars, edits>>

PatchFails(s) ==
    /\ At(s, "patch")
    /\ May("patch")
    /\ todo' = [todo EXCEPT ![s] = <<>>]
    /\ local' = [local EXCEPT ![s] = Idle]
    /\ Retry(s)
    /\ UNCHANGED <<crVars, inputs, heldVars, podVars, ignored, edits>>

(* The operator restarts: nothing is patched, every CR is reconciled anew. *)
Restart ==
    /\ \E s \in Services : todo[s] # <<>>
    /\ May("restart")
    /\ todo' = [s \in Services |-> <<>>]
    /\ local' = [s \in Services |-> Idle]
    /\ Wake(Services)
    /\ UNCHANGED <<crVars, inputs, heldVars, podVars, ignored, edits>>

-----------------------------------------------------------------------------
Reconcile(s) ==
    \/ Begin(s) \/ NeedInput(s) \/ MakeObject(s) \/ EnsureMemcached(s) \/ HoldIt(s)
    \/ LeaveTopology(s) \/ TakeTopology(s) \/ SyncDB(s) \/ EnsureStatefulSet(s)
    \/ RolledOut(s) \/ WhenDeployed(s) \/ IfDeployed(s) \/ Observe(s)
    \/ EnsureEndpoint(s) \/ CleanRecords(s) \/ DropEndpoint(s) \/ ReleaseMemcached(s)
    \/ DropTopology(s) \/ DropFinalizer(s) \/ Patch(s)

User ==
    \/ \E s \in Services : Edit(s) \/ Delete(s)
    \/ DeleteMemcached
    \/ \E t \in TopologyCRs : DeleteTopology(t)

Fault ==
    \/ \E s \in Services : CallFails(s) \/ ErrorIgnored(s) \/ PatchFails(s)
    \/ Restart

Next ==
    \/ User
    \/ Fault
    \/ \E i \in Inputs : Arrives(i)
    \/ \E s \in Services : RollOut(s) \/ JobDone(s) \/ EndpointReady(s) \/ Reconcile(s)

Spec == Init /\ [][Next]_vars

(* The work queue is served, missing inputs are provided, and jobs, pods   *)
(* and the keystone operator make progress.  The user may do nothing.      *)
Fairness ==
    /\ \A s \in Services :
          WF_vars(Reconcile(s)) /\ WF_vars(RollOut(s) \/ JobDone(s) \/ EndpointReady(s))
    /\ WF_vars(\E i \in Inputs : Arrives(i))

FairSpec == Spec /\ Fairness

-----------------------------------------------------------------------------
TypeOK ==
    /\ kind \in [Services -> Kinds]
    /\ \A s \in Services :
          /\ cr[s].life \in Life /\ cr[s].fin \in BOOLEAN /\ cr[s].spec \in Spec_
          /\ status[s].topo \in Refs /\ status[s].seen \in BOOLEAN
          /\ records[s] \subseteq 0 .. (MaxReplicas - 1)
          /\ {sts[s], running[s]} \subseteq Spec_
    /\ queue \subseteq Services
    /\ inputs \subseteq Inputs
    /\ memcached.life \in Life /\ memcached.fins \subseteq Kinds
    /\ \A t \in TopologyCRs : /\ topology[t].life \in Life
                              /\ topology[t].fins \subseteq Services
    /\ \A t \in TopologyCRs : topology[t].life = "gone" => topology[t].fins = {}

(* What the parent CR and the user go by: Ready, of the current generation. *)
Ready(s) == status[s].pending = {} /\ status[s].seen

(* A CR that is Ready has everything it stands on held and in place,       *)
(* whatever failed before: the Topology it refers to and the Memcached     *)
(* carry its finalizer, its endpoint can not go without its consent, and   *)
(* its StatefulSet has its spec.  The finalizer on the Memcached is shared *)
(* by the CRs of its kind, and the deletion of one takes it from the       *)
(* others: then, and only then, it may be missing, and the CR has a        *)
(* request or a reconcile under way that sees it.                          *)
SharedReleased(s) ==
    /\ \E t \in Services \ {s} : kind[t] = kind[s] /\ cr[t].life # "live"
    /\ s \in queue \/ todo[s] # <<>>
ReadyMeansHeld ==
    \A s \in Services : Ready(s) /\ cr[s].life = "live" =>
        /\ sts[s] = cr[s].spec
        /\ cr[s].spec.topo # NoTopology => s \in topology[cr[s].spec.topo].fins
        /\ HoldsMemcached(kind[s]) => kind[s] \in memcached.fins \/ SharedReleased(s)
        /\ HasEndpoint(kind[s]) => endpoint[s].fin

ServiceInv == TypeOK /\ ReadyMeansHeld

(* A CR never goes before its KeystoneEndpoint has been released: an       *)
(* endpoint with the finalizer of a controller that has forgotten it could *)
(* never be deleted.                                                       *)
EndpointFollowsCR ==
    \A s \in Services : cr[s].life = "gone" => ~endpoint[s].fin

(* Nor before the Memcached has been released by the last CR of the kind,  *)
(* unless the error of reading it was dropped.                             *)
MemcachedFollowsCR ==
    \A k \in memcached.fins :
        \E s \in Services : kind[s] = k /\ (cr[s].life # "gone" \/ s \in ignored)

(* Nor before the Topology that its status names has been released, where  *)
(* the controller has a finalizer of its own and removes it last.          *)
ReleasedTopology(s) ==
    cr[s].life = "gone" /\ status[s].topo # NoTopology
        => s \notin topology[status[s].topo].fins
TopologyFollowsCR ==
    \A s \in Services :
        kind[s] \notin {"NovaCompute", "NovaConductor"} => ReleasedTopology(s)

(* The service record of a pod that runs is never deleted.                 *)
LiveRecordKept ==
    \A s \in Services : Registers(kind[s]) /\ cr[s].life = "live" =>
        \A i \in 0 .. (running[s].replicas - 1) : i \in records[s]

(* No CR waits for ever for something that has arrived: as long as what it *)
(* refers to is not deleted, it becomes Ready with pods of its spec, and   *)
(* the Memcached carries its finalizer, though another CR of its kind may  *)
(* have taken it.  Every input that a reconcile waits for without a retry  *)
(* has to be watched.                                                      *)
Served(s) ==
    /\ HoldsMemcached(kind[s]) => memcached.life = "live"
    /\ cr[s].spec.topo # NoTopology => topology[cr[s].spec.topo].life = "live"
BecomesReady ==
    \A s \in Services :
        []<>(cr[s].life = "live" /\ Served(s) =>
                /\ Ready(s) /\ running[s] = cr[s].spec
                /\ HoldsMemcached(kind[s]) => kind[s] \in memcached.fins)

(* A deletion ends, whatever failed on the way: no CR is in deletion for    *)
(* ever, and it leaves that state only when it goes.                       *)
DeletionCompletes ==
    \A s \in Services : []<>(cr[s].life # "deleting")

(* After a scale-down the records of the pods that are gone are deleted,   *)
(* unless the error of a cleanup was dropped.                              *)
StaleRecordsGo ==
    \A s \in Services :
        []<>(cr[s].life = "live" /\ Served(s) /\ s \notin ignored
                => \A i \in records[s] : i < cr[s].spec.replicas)
=============================================================================
