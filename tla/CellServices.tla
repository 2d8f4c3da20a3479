------------------------------ MODULE CellServices ------------------------------
(***************************************************************************)
(* The NovaCell controller: the CRs of the services of one cell, those of  *)
(* them that can be switched off, the NovaComputes that come and go with   *)
(* their templates, and the compute config Secret, which nova-compute uses *)
(* outside the cluster.                                                    *)
(*                                                                         *)
(* It is about what the other models take for granted: that a service that *)
(* is switched off goes and one that is switched on again comes back, that *)
(* nothing is touched that a user created under the same name, that the    *)
(* computes get the URL of a noVNC proxy that serves it, and that Ready    *)
(* says all that.  The controllers of the services are those of            *)
(* ServiceLifecycle, two actions here.                                     *)
(***************************************************************************)
EXTENDS Naturals, Sequences, FiniteSets, ReconcileSteps

CONSTANTS
    Cell0,       \* may the cell be cell0? {TRUE}, {FALSE} or both
    Optional,    \* the services that users switch on and off
    Computes,    \* names of compute templates
    MaxURL,      \* bound: public URLs of the noVNC proxy; 0 stands for none
    MaxSecret,   \* bound: contents of the input Secret
    MaxUsers,    \* bound: CRs that users have created before the cell
    MaxEdits,    \* bound: what users do, and what Nova does to the Secret
    Faults,      \* the faults that may happen
    MaxFaults,   \* bound: how many of them
    NewEvents    \* bound: edits and faults together when the cell is new

Services == {"NovaConductor", "NovaMetadata", "NovaNoVNCProxy"}
Names == Services \cup Computes
Nobody == "nobody"
FaultKinds == {"call", "compute", "delete", "patch", "restart"}

ASSUME CellServicesConstants ==
    /\ Cell0 \subseteq BOOLEAN
    /\ Optional \subseteq {"NovaMetadata", "NovaNoVNCProxy"}
    /\ Computes \cap Services = {} /\ Nobody \notin Computes
    /\ {MaxURL, MaxSecret} \subseteq Nat \ {0}
    /\ {MaxUsers, MaxEdits, MaxFaults, NewEvents} \subseteq Nat
    /\ Faults \subseteq FaultKinds

NoURL == 0
URLs == 1 .. MaxURL
NoSecret == 0
Secrets == 1 .. MaxSecret

(* What is read of the spec: which optional services are enabled, the URL  *)
(* in the override of the proxy, and the compute templates.                *)
Specs == [enabled : SUBSET Optional, url : URLs, templates : SUBSET Computes]
Wanted(spec) == {"NovaConductor"} \cup spec.enabled
VNC(spec) == "NovaNoVNCProxy" \in spec.enabled
URLOf(spec) == IF VNC(spec) THEN spec.url ELSE NoURL

Conditions == Services \cup {"Input", "NovaComputeServiceConfig", "AllComputes"}

(* The order of Reconcile. *)
CellSteps ==
    <<Do("readSecret"), Do("NovaConductor"), Do("NovaMetadata"), Do("NovaNoVNCProxy"),
      Do("forget"), Do("computes"), Do("computeConfig")>>

-----------------------------------------------------------------------------
VARIABLES
    isCell0,
    cr,        \* the spec of the NovaCell
    status,    \* last patched: [pending, applied, entries, hash, seen]: the
               \* conditions that are not True, AppliedInputSecretHash,
               \* NovaComputesStatus, the templates of the discovery hash, is
               \* ObservedGeneration the generation
    todo,      \* the steps left of a reconcile, or none
    local,     \* the copy of the CR that it works on, and what it has read
    queued,    \* is there a request in the work queue?
    secret,    \* the content of the input Secret
    child,     \* child[n]: the CR of that name
    config,    \* the compute config Secret: [secret, url]
    lost,      \* CRs that a fault made the cell lose sight of
    taken,     \* history: names under which a user has created a CR after the
               \* reconcile looked at the name and before it writes there, or
               \* had when the cell wrote: the CR is the cell's since then
    edits, faults  \* bounds: how many may still happen

cellVars == <<isCell0, cr, status>>
workVars == <<todo, local, queued>>
boundVars == <<edits, faults>>
vars == <<cellVars, workVars, secret, child, config, lost, taken, boundVars>>

(* A CR of a service.  spec and runs: the URL it is given and the one that *)
(* its pods work with; seen: is ObservedGeneration the generation; config  *)
(* and applied: the content of the Secret in its StatefulSet, and the one  *)
(* in AppliedInputSecretHash.                                              *)
NoChild ==
    [owner |-> "none", going |-> FALSE, spec |-> NoURL, seen |-> FALSE, ready |-> FALSE,
     config |-> NoSecret, applied |-> NoSecret, runs |-> NoURL]
Children ==
    [owner : {"none", "cell", "user"}, going : BOOLEAN, spec : URLs \cup {NoURL},
     seen : BOOLEAN, ready : BOOLEAN, config : Secrets \cup {NoSecret},
     applied : Secrets \cup {NoSecret}, runs : URLs \cup {NoURL}]
NewChild(url) == [NoChild EXCEPT !.owner = "cell", !.spec = url]
UsersOwn == [NoChild EXCEPT !.owner = "user"]

(* An entry of NovaComputesStatus: none, or Deployed, or Errors, or neither.*)
Entries == {"none", "waiting", "deployed", "failed"}
NoEntries == [a \in Computes |-> "none"]
Known(entries) == { a \in Computes : entries[a] # "none" }

NoConfig == [secret |-> NoSecret, url |-> NoURL]
(* A reconcile looks at a CR in one call and writes it in another; turn is *)
(* the name that it has looked at.                                         *)
Idle ==
    [spec |-> [enabled |-> {}, url |-> 1, templates |-> {}], pending |-> {},
     applied |-> NoSecret, entries |-> NoEntries, hash |-> {}, fresh |-> FALSE,
     secret |-> NoSecret, lagging |-> {}, url |-> NoURL, visited |-> {},
     turn |-> Nobody]

(* cell0 has a conductor only: its webhook sees to that. *)
Allowed(spec) == isCell0 => spec.templates = {} /\ spec.enabled = {}

(* Everything is enabled that may be. *)
FullSpec ==
    [enabled |-> IF isCell0 THEN {} ELSE Optional,
     url |-> 1, templates |-> IF isCell0 THEN {} ELSE Computes]

(* A NovaCell that was just created; a user's CR may be there before it.   *)
New ==
    /\ status = [pending |-> Conditions, applied |-> NoSecret, entries |-> NoEntries,
                 hash |-> {}, seen |-> FALSE]
    /\ queued = TRUE
    /\ \E n \in 0 .. NewEvents : edits = n /\ faults = NewEvents - n
    /\ \E users \in SUBSET (Optional \cup Computes) :
          /\ Cardinality(users) <= MaxUsers
          /\ child = [n \in Names |-> IF n \in users THEN UsersOwn ELSE NoChild]
    /\ config = NoConfig

(* What becomes of it when nothing else happens.                           *)
Deployed ==
    /\ status = [pending |-> {}, applied |-> 1,
                 entries |-> [a \in Computes |-> IF isCell0 THEN "none" ELSE "deployed"],
                 hash |-> cr.templates, seen |-> TRUE]
    /\ queued = FALSE
    /\ edits = MaxEdits /\ faults = MaxFaults
    /\ child = [n \in Names |->
         IF n \notin Wanted(cr) \cup cr.templates THEN NoChild
         ELSE LET url == IF n \in Services \ {"NovaNoVNCProxy"} THEN NoURL ELSE URLOf(cr) IN
              [owner |-> "cell", going |-> FALSE, spec |-> url, seen |-> TRUE,
               ready |-> TRUE, config |-> 1, applied |-> 1, runs |-> url]]
    /\ config = IF isCell0 THEN NoConfig ELSE [secret |-> 1, url |-> URLOf(cr)]

Init ==
    /\ isCell0 \in Cell0
    /\ cr = FullSpec
    /\ todo = <<>> /\ local = Idle
    /\ secret = 1
    /\ lost = {} /\ taken = {}
    /\ New \/ Deployed

-----------------------------------------------------------------------------
At(op) == todo # <<>> /\ Head(todo).op = op
GoOn == todo' = Tail(todo)
End == todo' = Save
(* A request after an error, and one after a watched event. *)
Retry == queued' = TRUE
Wake == queued' = TRUE

(* When the write is over, or will not come, those that are the cell's.    *)
KeepTaken == taken' = { n \in taken : child'[n].owner = "cell" }

(* Owns: an event of a CR wakes the cell that controls it, and no other.   *)
EventOf(n) == queued' = (queued \/ child[n].owner = "cell" \/ child'[n].owner = "cell")

-----------------------------------------------------------------------------
(* Users, the Nova controller, and the controllers of the services. *)

MayEdit == edits > 0 /\ edits' = edits - 1

EditSpec ==
    /\ MayEdit
    /\ \/ \E s \in Optional :
             cr' = [cr EXCEPT !.enabled = IF s \in @ THEN @ \ {s} ELSE @ \cup {s}]
       \/ \E a \in Computes :
             cr' = [cr EXCEPT !.templates = IF a \in @ THEN @ \ {a} ELSE @ \cup {a}]
       \/ cr.url < MaxURL /\ cr' = [cr EXCEPT !.url = @ + 1]
    /\ Allowed(cr')
    /\ status' = [status EXCEPT !.seen = FALSE]
    /\ local' = [local EXCEPT !.fresh = FALSE]
    /\ Wake
    /\ UNCHANGED <<isCell0, todo, secret, child, config, lost, taken, faults>>

(* Nova puts other credentials in the input Secret of the cell. *)
EditSecret ==
    /\ MayEdit
    /\ secret < MaxSecret
    /\ secret' = secret + 1
    /\ Wake
    /\ UNCHANGED <<cellVars, todo, local, child, config, lost, taken, faults>>

(* A user creates a CR under a name that the cell would use, and removes   *)
(* it.  A reconcile that is under way does not see it, when it has just    *)
(* looked at that name.                                                    *)
UserCreates(n) ==
    /\ MayEdit
    /\ n \in Optional \cup Computes
    /\ child[n] = NoChild
    /\ child' = [child EXCEPT ![n] = UsersOwn]
    /\ taken' = IF local.turn = n THEN taken \cup {n} ELSE taken
    /\ EventOf(n)
    /\ UNCHANGED <<cellVars, todo, local, secret, config, lost, faults>>

UserDeletes(n) ==
    /\ child[n].owner = "user"
    /\ child' = [child EXCEPT ![n] = NoChild]
    /\ taken' = taken \ {n}
    /\ EventOf(n)
    /\ UNCHANGED <<cellVars, todo, local, secret, config, lost, boundVars>>

(* The controller of a service finds a new spec or Secret and starts to    *)
(* roll it out; its pods have followed; its finalizer is gone.             *)
ServiceStarts(n) ==
    LET c == child[n] IN
    /\ c.owner = "cell" /\ ~c.going
    /\ ~c.seen \/ c.config # secret
    /\ child' = [child EXCEPT ![n] =
                   [c EXCEPT !.seen = TRUE, !.config = secret,
                             !.ready = c.ready /\ c.config = secret /\ c.runs = c.spec]]
    /\ EventOf(n)
    /\ UNCHANGED <<cellVars, todo, local, secret, config, lost, taken, boundVars>>

ServiceReady(n) ==
    LET c == child[n] IN
    /\ c.owner = "cell" /\ ~c.going
    /\ c.seen /\ c.config = secret /\ ~c.ready
    /\ child' = [child EXCEPT ![n] =
                   [c EXCEPT !.ready = TRUE, !.applied = c.config, !.runs = c.spec]]
    /\ EventOf(n)
    /\ UNCHANGED <<cellVars, todo, local, secret, config, lost, taken, boundVars>>

ServiceGone(n) ==
    /\ child[n].going
    /\ child' = [child EXCEPT ![n] = NoChild]
    /\ taken' = taken \ {n}
    /\ EventOf(n)
    /\ UNCHANGED <<cellVars, todo, local, secret, config, lost, boundVars>>

-----------------------------------------------------------------------------
(* The frame of Reconcile. *)

Begin ==
    /\ queued /\ todo = <<>>
    /\ queued' = FALSE
    /\ todo' = CellSteps \o Save
    /\ local' = [Idle EXCEPT !.spec = cr, !.pending = Conditions, !.applied = status.applied,
                             !.entries = status.entries, !.hash = status.hash, !.fresh = TRUE]
    /\ UNCHANGED <<cellVars, secret, child, config, lost, taken, boundVars>>

Outcome ==
    [pending |-> local.pending, applied |-> local.applied, entries |-> local.entries,
     hash |-> local.hash, seen |-> local.fresh]

(* The deferred patch; a change of the status is an event for the cell.    *)
Patch ==
    /\ At("patch")
    /\ todo' = <<>> /\ local' = Idle
    /\ status' = Outcome
    /\ IF status' # status THEN Wake ELSE UNCHANGED queued
    /\ UNCHANGED <<isCell0, cr, secret, child, config, lost, taken, boundVars>>

-----------------------------------------------------------------------------
(* The steps. *)

(* EnsureSecret: the content that this reconcile goes by. *)
ReadSecret ==
    /\ At("readSecret")
    /\ GoOn
    /\ local' = [local EXCEPT !.secret = secret, !.pending = @ \ {"Input"}]
    /\ UNCHANGED <<cellVars, queued, secret, child, config, lost, taken, boundVars>>

(* What a service is given of the URL: the proxy all, the others nothing.  *)
GivenTo(s) == IF s = "NovaNoVNCProxy" THEN local.spec.url ELSE NoURL

(* CreateOrPatch; a change of the spec is a new generation.  It takes a CR *)
(* as it finds it: one of a user becomes the cell's.                       *)
Written(c, url) ==
    IF c.owner = "none" THEN NewChild(url)
    ELSE [c EXCEPT !.owner = "cell", !.spec = url, !.seen = @ /\ c.spec = url]

(* The condition of a service is mirrored when it has seen its generation. *)
(* (ReadyAlone: as if Ready were enough.)                                  *)
ReadyAlone(c) == c.ready
Mirrored(c) == c.seen /\ c.ready
InputApplied(c) == c.ready /\ c.applied = local.secret

(* ensureMetadata, ensureNoVNCProxy: the CR is not there, or it is ours; or *)
(* it is to be deleted, and ours.  (LookAnyway: as if OwnedBy were not     *)
(* asked.)                                                                 *)
LookAnyway(s) ==
    /\ At(s) /\ s # "NovaConductor" /\ local.turn = Nobody
    /\ s \in Wanted(local.spec) \/ child[s].owner # "none"
    /\ local' = [local EXCEPT !.turn = s]
    /\ UNCHANGED <<cellVars, todo, queued, secret, child, config, lost, taken, boundVars>>
LookAt(s) ==
    /\ At(s) /\ s # "NovaConductor" /\ local.turn = Nobody
    /\ IF s \in Wanted(local.spec) THEN child[s].owner # "user" ELSE child[s].owner = "cell"
    /\ local' = [local EXCEPT !.turn = s]
    /\ UNCHANGED <<cellVars, todo, queued, secret, child, config, lost, taken, boundVars>>

(* It is not ours: an error, and a retry until the user takes it away.     *)
(* (RefuseQuietly: as if it were no error.)                                *)
RefuseQuietly(s) ==
    /\ At(s) /\ local.turn = Nobody
    /\ s \in Wanted(local.spec)
    /\ child[s].owner = "user"
    /\ End
    /\ UNCHANGED <<cellVars, local, queued, secret, child, config, lost, taken, boundVars>>
RefuseService(s) ==
    /\ At(s) /\ local.turn = Nobody
    /\ s \in Wanted(local.spec)
    /\ child[s].owner = "user"
    /\ End /\ Retry
    /\ UNCHANGED <<cellVars, local, secret, child, config, lost, taken, boundVars>>

(* It is switched off, and not there or not ours. *)
SkipService(s) ==
    /\ At(s) /\ local.turn = Nobody
    /\ s \notin Wanted(local.spec)
    /\ child[s].owner # "cell"
    /\ GoOn
    /\ local' = [local EXCEPT !.pending = @ \ {s}]
    /\ UNCHANGED <<cellVars, queued, secret, child, config, lost, taken, boundVars>>

(* The write that follows the look, whatever has happened in between.  The *)
(* conductor is not looked at; the users of the model do not create one.   *)
EnsureService(s) ==
    /\ At(s) /\ (local.turn = s \/ s = "NovaConductor")
    /\ s \in Wanted(local.spec)
    /\ GoOn
    /\ child' = [child EXCEPT ![s] = Written(@, GivenTo(s))]
    /\ local' = [local EXCEPT
          !.turn = Nobody,
          !.pending = IF Mirrored(child'[s]) THEN @ \ {s} ELSE @,
          !.lagging = IF InputApplied(child'[s]) THEN @ ELSE @ \cup {s}]
    /\ lost' = IF InputApplied(child'[s]) THEN lost \ {s} ELSE lost
    /\ KeepTaken
    /\ IF child' # child THEN Wake ELSE UNCHANGED queued
    /\ UNCHANGED <<cellVars, secret, config, boundVars>>

(* ensureMetadataDeleted, ensureNoVNCProxyDeleted: Delete goes by the name.*)
(* Deletion is a new generation, too.                                      *)
DropService(s) ==
    /\ At(s) /\ local.turn = s
    /\ s \notin Wanted(local.spec)
    /\ GoOn
    /\ child' = IF child[s].owner # "none"
                THEN [child EXCEPT ![s].going = TRUE, ![s].seen = FALSE] ELSE child
    /\ local' = [local EXCEPT !.turn = Nobody, !.pending = @ \ {s}]
    /\ KeepTaken
    /\ IF child' # child THEN Wake ELSE UNCHANGED queued
    /\ UNCHANGED <<cellVars, secret, config, lost, boundVars>>

(* Computes that are in the status but no longer in the spec, one by one.  *)
Obsolete == Known(local.entries) \ local.spec.templates

(* ensureNovaComputeDeleted.  The entry goes in any case, also when the CR *)
(* is gone or not the cell's.                                              *)
LookAtObsolete(a) ==
    /\ At("forget") /\ local.turn = Nobody
    /\ a \in Obsolete
    /\ local' = IF child[a].owner = "cell" THEN [local EXCEPT !.turn = a]
                ELSE [local EXCEPT !.entries[a] = "none"]
    /\ UNCHANGED <<cellVars, todo, queued, secret, child, config, lost, taken, boundVars>>

(* It has no finalizer, so it goes at once.                                *)
ForgetCompute(a) ==
    /\ At("forget") /\ local.turn = a
    /\ child' = [child EXCEPT ![a] = NoChild]
    /\ local' = [local EXCEPT !.turn = Nobody, !.entries[a] = "none"]
    /\ KeepTaken
    /\ IF child' # child THEN Wake ELSE UNCHANGED queued
    /\ UNCHANGED <<cellVars, todo, secret, config, lost, boundVars>>

(* When there are none left: computes are not configured before the proxy  *)
(* is Ready, the reconcile ends and waits for an event.  Without a proxy   *)
(* there is no URL.                                                        *)
ProxyURL ==
    /\ At("forget")
    /\ Obsolete = {}
    /\ IF VNC(local.spec) /\ "NovaNoVNCProxy" \in local.pending
       THEN End /\ UNCHANGED local
       ELSE /\ GoOn
            /\ local' = [local EXCEPT !.url = URLOf(local.spec)]
    /\ UNCHANGED <<cellVars, queued, secret, child, config, lost, taken, boundVars>>

(* Deployed: ready, of its generation, and with this input.                *)
(* (EntryWhenReady: as if the input did not matter.)                       *)
EntryWhenReady(c) == IF Mirrored(c) THEN "deployed" ELSE "waiting"
EntryOf(c) == IF Mirrored(c) /\ InputApplied(c) THEN "deployed" ELSE "waiting"
(* What comes of it is noted.  (VisitDeployed: only what is deployed.)     *)
VisitDeployed(a, entry) ==
    local' = [local EXCEPT !.entries[a] = IF entry = "deployed" THEN entry ELSE @,
                           !.visited = @ \cup {a}, !.turn = Nobody]
Visit(a, entry) ==
    local' = [local EXCEPT !.entries[a] = entry, !.visited = @ \cup {a}, !.turn = Nobody]

(* ensureNovaCompute, in whatever order the map of templates has.  An error*)
(* is an entry in the status, and does not end the reconcile.              *)
LookAtCompute(a) ==
    /\ At("computes") /\ local.turn = Nobody
    /\ a \in local.spec.templates \ local.visited
    /\ IF child[a].owner = "user" THEN Visit(a, "failed") /\ lost' = lost \ {a}
       ELSE local' = [local EXCEPT !.turn = a] /\ UNCHANGED lost
    /\ UNCHANGED <<cellVars, todo, queued, secret, child, config, taken, boundVars>>

EnsureCompute(a) ==
    /\ At("computes") /\ local.turn = a
    /\ child' = [child EXCEPT ![a] = Written(@, local.url)]
    /\ Visit(a, EntryOf(child'[a]))
    /\ lost' = lost \ {a}
    /\ KeepTaken
    /\ IF child' # child THEN Wake ELSE UNCHANGED queued
    /\ UNCHANGED <<cellVars, todo, secret, config, boundVars>>

(* All are visited: their condition, the discovery hash, and whether the   *)
(* input has been applied by everybody.                                    *)
AllDeployed == \A a \in local.spec.templates : local.entries[a] = "deployed"
Judge ==
    /\ At("computes")
    /\ local.spec.templates \subseteq local.visited
    /\ GoOn
    /\ local' = [local EXCEPT
          !.pending = IF AllDeployed THEN @ \ {"AllComputes"} ELSE @,
          !.hash = local.spec.templates,
          !.applied = IF AllDeployed /\ local.lagging = {} THEN local.secret ELSE @]
    /\ UNCHANGED <<cellVars, queued, secret, child, config, lost, taken, boundVars>>

(* ensureComputeConfig. *)
EnsureComputeConfig ==
    /\ At("computeConfig")
    /\ GoOn
    /\ config' = IF isCell0 THEN config ELSE [secret |-> local.secret, url |-> local.url]
    /\ local' = [local EXCEPT !.pending = @ \ {"NovaComputeServiceConfig"}]
    /\ IF config' # config THEN Wake ELSE UNCHANGED queued
    /\ UNCHANGED <<cellVars, secret, child, lost, taken, boundVars>>

-----------------------------------------------------------------------------
(* Faults. *)

May(fault) == fault \in Faults /\ faults > 0 /\ faults' = faults - 1

(* A call fails whose error is returned: all of them, except for deletions.*)
Calls == {"readSecret", "forget", "computeConfig"} \cup Services
CallFails ==
    /\ todo # <<>>
    /\ Head(todo).op \in Calls
    /\ local.turn \in {Nobody} \cup Wanted(local.spec)
    /\ May("call")
    /\ End /\ Retry
    /\ local' = [local EXCEPT !.turn = Nobody]
    /\ UNCHANGED <<cellVars, secret, child, config, lost, edits>>
    /\ KeepTaken

(* A NovaCompute cannot be read or written: noted, and not returned.       *)
ComputeFails(a) ==
    /\ At("computes")
    /\ a \in local.spec.templates \ local.visited
    /\ local.turn \in {Nobody, a}
    /\ May("compute")
    /\ Visit(a, "failed")
    /\ UNCHANGED <<cellVars, todo, queued, secret, child, config, lost, edits>>
    /\ KeepTaken

(* The deletion of a service fails: the error is dropped, and the rest of  *)
(* the reconcile takes it for gone.                                        *)
DropFails(s) ==
    /\ At(s) /\ local.turn = s
    /\ s \notin Wanted(local.spec)
    /\ May("delete")
    /\ GoOn
    /\ local' = [local EXCEPT !.turn = Nobody, !.pending = @ \ {s}]
    /\ lost' = IF child[s].owner = "cell" THEN lost \cup {s} ELSE lost
    /\ UNCHANGED <<cellVars, queued, secret, child, config, edits>>
    /\ KeepTaken

(* The deletion of a compute fails: taken for done, as only NotFound is    *)
(* returned; its entry goes, and with it all that the cell knows of it.    *)
ForgetFails(a) ==
    /\ At("forget") /\ local.turn = a
    /\ May("delete")
    /\ local' = [local EXCEPT !.turn = Nobody, !.entries[a] = "none"]
    /\ lost' = IF child[a].owner = "cell" THEN lost \cup {a} ELSE lost
    /\ UNCHANGED <<cellVars, todo, queued, secret, child, config, edits>>
    /\ KeepTaken

(* What a reconcile created is in no status when its patch is lost.        *)
Unsaved == { a \in Known(local.entries) \ Known(status.entries) : child[a].owner = "cell" }

PatchFails ==
    /\ At("patch")
    /\ May("patch")
    /\ todo' = <<>> /\ local' = Idle
    /\ lost' = lost \cup Unsaved
    /\ Retry
    /\ UNCHANGED <<cellVars, secret, child, config, edits>>
    /\ KeepTaken

Restart ==
    /\ todo # <<>>
    /\ May("restart")
    /\ todo' = <<>> /\ local' = Idle
    /\ lost' = lost \cup Unsaved
    /\ Retry
    /\ UNCHANGED <<cellVars, secret, child, config, edits>>
    /\ KeepTaken

-----------------------------------------------------------------------------
Reconcile ==
    \/ Begin \/ ReadSecret
    \/ \E s \in Services : \/ LookAt(s) \/ RefuseService(s) \/ SkipService(s)
                          \/ EnsureService(s) \/ DropService(s)
    \/ \E a \in Computes : \/ LookAtObsolete(a) \/ ForgetCompute(a)
                          \/ LookAtCompute(a) \/ EnsureCompute(a)
    \/ ProxyURL \/ Judge \/ EnsureComputeConfig \/ Patch

(* What goes on without users, and without anything going wrong.           *)
Progress == \E n \in Names : ServiceStarts(n) \/ ServiceReady(n) \/ ServiceGone(n)

Fault ==
    \/ CallFails \/ PatchFails \/ Restart
    \/ \E s \in Services : DropFails(s)
    \/ \E a \in Computes : ComputeFails(a) \/ ForgetFails(a)

Next ==
    \/ EditSpec \/ EditSecret
    \/ \E n \in Names : UserCreates(n) \/ UserDeletes(n)
    \/ Reconcile \/ Progress \/ Fault

Spec == Init /\ [][Next]_vars

(* The work queue of the controller is served, and the controllers of the  *)
(* services get on.  Nothing makes a user act.                             *)
Fairness == WF_vars(Reconcile) /\ WF_vars(Progress)

FairSpec == Spec /\ Fairness

-----------------------------------------------------------------------------
(* Types.  Computes go at once, nobody else creates conductors, and cell0  *)
(* has no compute config Secret.                                           *)
TypeOK ==
    /\ cr \in Specs /\ Allowed(cr)
    /\ status.pending \subseteq Conditions /\ status.hash \subseteq Computes
    /\ status.applied \in Secrets \cup {NoSecret}
    /\ status.entries \in [Computes -> Entries]
    /\ child \in [Names -> Children]
    /\ \A a \in Computes : ~child[a].going
    /\ child["NovaConductor"].owner # "user"
    /\ config.secret \in Secrets \cup {NoSecret} /\ config.url \in URLs \cup {NoURL}
    /\ isCell0 => config = NoConfig
    /\ lost \subseteq Names /\ taken \subseteq Names

(* A Ready NovaCell of the current generation that has applied the current *)
(* Secret, which is what Nova maps a cell and revokes credentials by: all  *)
(* of its services and computes run with that Secret and the right URL, the*)
(* compute config Secret has both, and the discovery hash is that of these *)
(* computes.  Except for a service that has outlived a failed deletion: it *)
(* was not asked when the cell took that Secret for applied.               *)
Runs(n, url) ==
    /\ child[n].owner = "cell" /\ ~child[n].going
    /\ child[n].runs = url
    /\ child[n].config = secret /\ child[n].applied = secret
InPlace(except) ==
    /\ \A s \in Wanted(cr) \ except : Runs(s, IF s = "NovaNoVNCProxy" THEN cr.url ELSE NoURL)
    /\ \A a \in cr.templates : Runs(a, URLOf(cr))
    /\ ~isCell0 => config = [secret |-> secret, url |-> URLOf(cr)]
    /\ status.hash = cr.templates
Ready == status.pending = {} /\ status.seen
CellReadyTellsTruth == Ready /\ status.applied = secret => InPlace(lost)

(* Nobody is given the URL of a proxy before the proxy has rolled it out:  *)
(* "a rolling out NoVNCProxy is not considered Ready".                     *)
ProxyServes(url) == child["NovaNoVNCProxy"].seen /\ child["NovaNoVNCProxy"].runs = url
URLsGiven == {config.url} \cup { child[a].spec : a \in Computes }
ProxyFirst == [][\A url \in (URLsGiven' \ URLsGiven) \ {NoURL} : ProxyServes(url)]_vars

(* A reconcile never adopts, changes or deletes what a user has created    *)
(* under a name of the cell, "if it is not created by us, we don't touch    *)
(* it"; except a CR that was not there yet when the same reconcile looked.  *)
UsersOwnKept ==
    [][\A n \in Names \ taken : child[n].owner = "user" /\ child'[n] # child[n] =>
           UNCHANGED <<todo, local>>]_vars

(* The cell knows of every NovaCompute it has created until it is gone, as *)
(* nothing else would ever delete it; except the ones it loses to a failed *)
(* deletion, or to a lost status patch or a restart before the first patch.*)
ComputesKnown ==
    \A a \in Computes : child[a].owner = "cell" =>
        a \in Known(status.entries) \cup Known(local.entries) \cup lost

CellInv == TypeOK /\ ComputesKnown

(* In the end the cell is Ready as its spec says, and what was switched off*)
(* or taken out is gone; except while a user's CR is in the way or has been*)
(* made the cell's, the pods of which may not start with the labels of the *)
(* cell, and when the last thing noted of a compute is an error, which is  *)
(* not retried.                                                            *)
Blocked ==
    \/ \E n \in Wanted(cr) \cup cr.templates : child[n].owner = "user" \/ n \in taken
    \/ \E a \in cr.templates : status.entries[a] = "failed"
SwitchedOff ==
    /\ \A s \in Services \ Wanted(cr) : child[s].owner # "cell"
    /\ \A a \in Computes \ cr.templates : child[a].owner # "cell" \/ a \in lost
Settled == Blocked \/ (Ready /\ status.applied = secret /\ InPlace({}) /\ SwitchedOff)
CellSettles == []<>Settled
=============================================================================
