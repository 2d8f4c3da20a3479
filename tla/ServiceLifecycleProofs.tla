-------------------------- MODULE ServiceLifecycleProofs --------------------------
(***************************************************************************)
(* Proofs about ServiceLifecycle, for any CRs of any of the nine kinds and *)
(* any number of edits, deletions and faults: its types; that a CR that is *)
(* Ready holds what it stands on; that a CR that goes has let go of its    *)
(* KeystoneEndpoint, of the Memcached and of its Topology; and that the    *)
(* records of the pods that run are kept.                                  *)
(*                                                                         *)
(* As in PeerOperatorsProofs, a reconcile is known by the steps that are   *)
(* ahead of it, and the plans of the kinds by the steps they have and by   *)
(* what comes first.                                                       *)
(***************************************************************************)
EXTENDS ServiceLifecycle, SequenceTheorems, TLAPS

-----------------------------------------------------------------------------
(* The plans.                                                              *)
Ops(t) == { t[i].op : i \in DOMAIN t }
Ahead(s, op) == op \in Ops(todo[s])
Busy(s) == todo[s] # <<>>

Holders == {"NovaAPI", "NovaScheduler", "NovaConductor", "NovaMetadata", "NovaNoVNCProxy"}
Exposed == {"NovaAPI", "PlacementAPI", "CyborgAPI"}
Deployers == Exposed \cup {"NovaScheduler", "NovaConductor"}
Makers == {"NovaConductor", "NovaMetadata", "NovaCompute", "PlacementAPI"} \cup CyborgKinds

MainOps(k) ==
    {"need", "leaveTopology", "takeTopology", "statefulSet", "rolledOut"}
    \cup (IF k \in Holders THEN {"memcached", "holdMemcached"} ELSE {})
    \cup (IF k \in Exposed THEN {"endpoint"} ELSE {})
    \cup (IF k \in Deployers \ CyborgKinds THEN {"whenDeployed"} ELSE {})
    \cup (IF k = "CyborgAPI" THEN {"ifDeployed"} ELSE {})
    \cup (IF k \in CyborgKinds THEN {"observe"} ELSE {})
    \cup (IF k \in {"NovaConductor", "PlacementAPI"} THEN {"dbSync"} ELSE {})
    \cup (IF k \in {"NovaConductor", "NovaScheduler"} THEN {"cleanRecords"} ELSE {})
    \cup (IF k \in Makers THEN {"make"} ELSE {})
DropOps(k) ==
    {"dropTopology"}
    \cup (IF k # "NovaCompute" THEN {"dropFinalizer"} ELSE {})
    \cup (IF k \in Exposed THEN {"dropEndpoint"} ELSE {})
    \cup (IF k = "NovaAPI" THEN {"dropMemcached"} ELSE {})
    \cup (IF k \in Holders \ {"NovaAPI"} THEN {"tryDropMemcached"} ELSE {})
AllOps == {"need", "make", "memcached", "holdMemcached", "leaveTopology", "takeTopology",
    "statefulSet", "rolledOut", "whenDeployed", "ifDeployed", "observe", "endpoint", "dbSync",
    "cleanRecords", "dropTopology", "dropFinalizer", "dropEndpoint", "dropMemcached",
    "tryDropMemcached", "patch"}

(* <<a, b>>: step a never comes at step b or after it.                     *)
Precedes(k) ==
    {"statefulSet", "holdMemcached"} \X {"rolledOut"}
    \cup {"whenDeployed"} \X {"cleanRecords"}
    \cup {"dropEndpoint", "dropMemcached", "tryDropMemcached"} \X {"dropFinalizer"}
    \cup (IF k = "NovaConductor" THEN {} ELSE {"dropTopology"} \X {"dropFinalizer"})

InOrder(t, k) ==
    \A i, j \in DOMAIN t : i <= j => <<t[j].op, t[i].op>> \notin Precedes(k)

Conditions == {"Input", "ServiceConfig", "Deployment", "CreateService", "KeystoneEndpoint",
    "NetworkAttachments", "TLSInput", "Memcached", "DBSync", "CronJob", "ComputeServiceConfig",
    "DB", "KeystoneService", "Topology", "Ready"}

(* Only the steps they are named for make these conditions True.           *)
Earned == {"Deployment", "Topology", "KeystoneEndpoint"}
StepType ==
    { x \in [op : AllOps, input : Inputs \cup {"none"}, cond : Conditions \cup {"none"},
             miss : {"wait", "retry"}, then : SUBSET (Conditions \ Earned)] :
        x.op = "need" => x.cond \in Conditions }

PlanInv(s) ==
    /\ todo[s] \in Seq(StepType)
    /\ InOrder(todo[s], kind[s])
    /\ \/ Ops(todo[s]) \subseteq MainOps(kind[s]) \cup {"patch"}
       \/ Ops(todo[s]) \subseteq DropOps(kind[s]) \cup {"patch"}

-----------------------------------------------------------------------------
(* Types.                                                                  *)
CRType == [life : Life, fin : BOOLEAN, spec : Spec_]
StatusType == [pending : SUBSET Conditions, topo : Refs, seen : BOOLEAN]
LocalType == [spec : Spec_, fin : BOOLEAN, pending : SUBSET Conditions, topo : Refs,
              observed : BOOLEAN, fresh : BOOLEAN]

CRTypes ==
    /\ kind \in [Services -> Kinds]
    /\ cr \in [Services -> CRType]
    /\ status \in [Services -> StatusType]
WorkTypes ==
    /\ local \in [Services -> LocalType]
    /\ todo \in [Services -> Seq(StepType)]
    /\ \A s \in Services : PlanInv(s)
    /\ queue \subseteq Services
HeldTypes ==
    /\ inputs \subseteq Inputs
    /\ memcached \in [life : Life, fins : SUBSET Kinds]
    /\ topology \in [TopologyCRs -> [life : Life, fins : SUBSET Services]]
    /\ \A t \in TopologyCRs : topology[t].life = "gone" => topology[t].fins = {}
    /\ endpoint \in [Services -> [life : Life, fin : BOOLEAN, ready : BOOLEAN]]
PodTypes ==
    /\ sts \in [Services -> Spec_] /\ running \in [Services -> Spec_]
    /\ records \in [Services -> SUBSET (0 .. (MaxReplicas - 1))]
    /\ ignored \subseteq Services
Types == CRTypes /\ WorkTypes /\ HeldTypes /\ PodTypes

-----------------------------------------------------------------------------
(* What holds of each CR.                                                  *)

(* The copy of the CR is the CR, unless there has been an edit.            *)
CopyBehind(s) ==
    Busy(s) => /\ local[s].fresh => local[s].spec = cr[s].spec
               /\ status[s].seen => local[s].fresh

(* Nothing is held for a CR that has no finalizer yet, and no step that    *)
(* takes hold of something comes before it has one.                        *)
FinalizerFirst(s) ==
    /\ cr[s].life = "deleting" => cr[s].fin
    /\ cr[s].life = "gone" => ~cr[s].fin /\ ~endpoint[s].fin
    /\ endpoint[s].fin => kind[s] \in Exposed
    /\ kind[s] # "NovaCompute" /\ ~cr[s].fin => Ops(todo[s]) \subseteq {"patch"}
    /\ kind[s] # "NovaCompute" /\ ~cr[s].fin /\ cr[s].life = "live" =>
          /\ ~endpoint[s].fin
          /\ status[s].topo = NoTopology
          /\ Busy(s) => local[s].topo = NoTopology
    /\ kind[s] = "NovaCompute" => ~cr[s].fin /\ ~local[s].fin

(* Only what is deleted lets go of anything.                               *)
DropsDeleted(s) == \A op \in DropOps(kind[s]) : Ahead(s, op) => cr[s].life = "deleting"

Lets(s, t) == t = NoTopology \/ s \notin topology[t].fins
LetsGo(s, k) == k \notin memcached.fins \/ s \in ignored

(* What reconcileDelete has behind it is released.                         *)
Leaving(s) == Ahead(s, "dropFinalizer") \/ (Busy(s) /\ ~local[s].fin /\ kind[s] # "NovaCompute")
Dropped(s) ==
    Leaving(s) =>
        /\ cr[s].life = "deleting"
        /\ Ops(todo[s]) \subseteq DropOps(kind[s]) \cup {"patch"}
        /\ ~local[s].fin => \A a \in Ops(todo[s]) : <<a, "dropFinalizer">> \notin Precedes(kind[s])
        /\ Ahead(s, "dropEndpoint") \/ ~endpoint[s].fin
        /\ kind[s] \in Holders =>
              Ahead(s, "dropMemcached") \/ Ahead(s, "tryDropMemcached") \/ LetsGo(s, kind[s])
        /\ kind[s] # "NovaConductor" => Ahead(s, "dropTopology") \/ Lets(s, local[s].topo)

(* What a step behind has made or held, once its condition is True.        *)
Deployed(s) == Busy(s) /\ "Deployment" \notin local[s].pending
Holds(s, spec) == spec.topo # NoTopology => s \in topology[spec.topo].fins
StepsHeld(s) ==
    cr[s].life = "live" /\ Busy(s) =>
        /\ Ahead(s, "rolledOut") => Ahead(s, "statefulSet") \/ sts[s] = local[s].spec
        /\ Deployed(s) => /\ sts[s] = local[s].spec /\ running[s] = local[s].spec
                          /\ ~Ahead(s, "statefulSet")
        /\ "Topology" \notin local[s].pending => Holds(s, local[s].spec)
        /\ kind[s] \in Exposed /\ "KeystoneEndpoint" \notin local[s].pending => endpoint[s].fin
        /\ Ahead(s, "cleanRecords") => Ahead(s, "whenDeployed") \/ Deployed(s)

ReadyHeld(s) ==
    Ready(s) /\ cr[s].life = "live" =>
        /\ sts[s] = cr[s].spec
        /\ Holds(s, cr[s].spec)
        /\ kind[s] \in Exposed => endpoint[s].fin

TopologyReleased(s) ==
    kind[s] \notin {"NovaCompute", "NovaConductor"} => ReleasedTopology(s)

OneInv(s) ==
    /\ CopyBehind(s) /\ FinalizerFirst(s) /\ DropsDeleted(s) /\ Dropped(s)
    /\ StepsHeld(s) /\ ReadyHeld(s) /\ TopologyReleased(s)

-----------------------------------------------------------------------------
(* What holds of several.                                                  *)

(* The CRs of one kind are reconciled one by one.                          *)
OneByOne ==
    \A s, t \in Services : kind[s] = kind[t] /\ Busy(s) /\ Busy(t) => s = t

(* The Memcached is held for a CR that has its finalizer, or had when the  *)
(* error of reading the Memcached was dropped.                             *)
MemcachedHeldFor ==
    \A k \in memcached.fins :
        k \in Holders /\ \E s \in Services : kind[s] = k /\ (cr[s].fin \/ s \in ignored)

ServiceProofInv == Types /\ (\A s \in Services : OneInv(s)) /\ OneByOne /\ MemcachedHeldFor

-----------------------------------------------------------------------------
(* Steps and sequences of them.                                            *)
IsPlan(t, k, ops) ==
    t \in Seq(StepType) /\ InOrder(t, k) /\ Ops(t) = ops
IsStep(x, op) == x \in StepType /\ x.op = op
InTurn(A, B, k) == \A a \in A, b \in B : <<b, a>> \notin Precedes(k)

LEMMA DoIsStep == \A op \in AllOps \ {"need"} : IsStep(Do(op), op)
<1> SUFFICES ASSUME NEW op \in AllOps \ {"need"} PROVE IsStep(Do(op), op)
  OBVIOUS
<1>1. Do(op) = [op |-> op, input |-> "none", cond |-> "none", miss |-> "retry", then |-> {}]
  BY DEF Do, Step
<1>2. Do(op).op = op
  BY <1>1
<1>. QED
  BY <1>1, <1>2 DEF StepType, IsStep

LEMMA MakeIsStep == \A cond \in Conditions \ Earned : IsStep(Make(cond), "make")
<1> SUFFICES ASSUME NEW cond \in Conditions \ Earned PROVE IsStep(Make(cond), "make")
  OBVIOUS
<1>1. Make(cond) = [op |-> "make", input |-> "none", cond |-> cond, miss |-> "retry",
                    then |-> {cond}]
  BY DEF Make, Step
<1>2. Make(cond).op = "make" /\ "make" \in AllOps
  BY <1>1 DEF AllOps
<1>. QED
  BY <1>1, <1>2 DEF StepType, IsStep

LEMMA NeedIsStep ==
  \A input \in Inputs, cond \in Conditions, miss \in {"wait", "retry"},
     then \in SUBSET (Conditions \ Earned) : IsStep(Need(input, cond, miss, then), "need")
<1> SUFFICES ASSUME NEW input \in Inputs, NEW cond \in Conditions,
                    NEW miss \in {"wait", "retry"}, NEW then \in SUBSET (Conditions \ Earned)
             PROVE  IsStep(Need(input, cond, miss, then), "need")
  OBVIOUS
<1>1. Need(input, cond, miss, then)
        = [op |-> "need", input |-> input, cond |-> cond, miss |-> miss, then |-> then]
  BY DEF Need, Step
<1>2. "need" \in AllOps
  BY DEF AllOps
<1>. QED
  BY <1>1, <1>2 DEF StepType, IsStep

LEMMA PrecedesItself == \A k, a : <<a, a>> \notin Precedes(k)
  BY DEF Precedes

LEMMA OneStep ==
  ASSUME NEW k, NEW a, NEW x, IsStep(a, x)
  PROVE  IsPlan(<<a>>, k, {x})
  BY PrecedesItself DEF IsPlan, InOrder, Ops, IsStep

LEMMA TwoSteps ==
  ASSUME NEW k, NEW a, NEW b, NEW x, NEW y, IsStep(a, x), IsStep(b, y),
         <<y, x>> \notin Precedes(k)
  PROVE  IsPlan(<<a, b>>, k, {x, y})
  BY PrecedesItself DEF IsPlan, InOrder, Ops, IsStep

LEMMA ThreeSteps ==
  ASSUME NEW k, NEW a, NEW b, NEW c, NEW x, NEW y, NEW z, IsStep(a, x), IsStep(b, y),
          IsStep(c, z),
         <<y, x>> \notin Precedes(k), <<z, x>> \notin Precedes(k), <<z, y>> \notin Precedes(k)
  PROVE  IsPlan(<<a, b, c>>, k, {x, y, z})
  BY PrecedesItself DEF IsPlan, InOrder, Ops, IsStep

LEMMA FourSteps ==
  ASSUME NEW k, NEW a, NEW b, NEW c, NEW d, NEW x, NEW y, NEW z, NEW u,
         IsStep(a, x), IsStep(b, y), IsStep(c, z), IsStep(d, u),
         <<y, x>> \notin Precedes(k), <<z, x>> \notin Precedes(k), <<u, x>> \notin Precedes(k),
         <<z, y>> \notin Precedes(k), <<u, y>> \notin Precedes(k), <<u, z>> \notin Precedes(k)
  PROVE  IsPlan(<<a, b, c, d>>, k, {x, y, z, u})
  BY PrecedesItself DEF IsPlan, InOrder, Ops, IsStep

LEMMA PlanConcat ==
  ASSUME NEW k, NEW s, NEW t, NEW A, NEW B, NEW C,
         IsPlan(s, k, A), IsPlan(t, k, B), InTurn(A, B, k), C = A \cup B
  PROVE  IsPlan(s \o t, k, C)
<1> DEFINE st == s \o t
<1>1. s \in Seq(StepType) /\ t \in Seq(StepType)
  BY DEF IsPlan
<1>2. /\ st \in Seq(StepType)
      /\ Len(st) = Len(s) + Len(t)
      /\ \A i \in 1 .. Len(s) + Len(t) : st[i] = IF i <= Len(s) THEN s[i] ELSE t[i - Len(s)]
  BY <1>1, ConcatProperties, Zenon
<1>3. /\ Len(s) \in Nat /\ Len(t) \in Nat /\ DOMAIN s = 1 .. Len(s) /\ DOMAIN t = 1 .. Len(t)
      /\ DOMAIN st = 1 .. Len(s) + Len(t)
  BY <1>1, <1>2, LenProperties
<1>4. \A i \in DOMAIN st : \/ i \in DOMAIN s /\ st[i] = s[i]
                           \/ i \notin DOMAIN s /\ i - Len(s) \in DOMAIN t /\ st[i]
                                   = t[i - Len(s)]
  BY <1>2, <1>3
<1>5. /\ \A i \in DOMAIN s : i \in DOMAIN st /\ st[i] = s[i]
      /\ \A i \in DOMAIN t : i + Len(s) \in DOMAIN st /\ st[i + Len(s)] = t[i]
  BY <1>2, <1>3
<1>6. Ops(st) = Ops(s) \cup Ops(t)
  <2>1. Ops(st) \subseteq Ops(s) \cup Ops(t)
    <3> SUFFICES ASSUME NEW i \in DOMAIN st PROVE st[i].op \in Ops(s) \cup Ops(t)
      BY DEF Ops
    <3>. QED
      BY <1>4 DEF Ops
  <2>2. Ops(s) \subseteq Ops(st)
    BY <1>5 DEF Ops
  <2>3. Ops(t) \subseteq Ops(st)
    <3> SUFFICES ASSUME NEW i \in DOMAIN t PROVE t[i].op \in Ops(st)
      BY DEF Ops
    <3>. QED
      BY <1>5 DEF Ops
  <2>. QED
    BY <2>1, <2>2, <2>3
<1>7. InOrder(st, k)
  <2> SUFFICES ASSUME NEW i \in DOMAIN st, NEW j \in DOMAIN st, i <= j
               PROVE  <<st[j].op, st[i].op>> \notin Precedes(k)
    BY DEF InOrder
  <2>1. CASE i \in DOMAIN s /\ j \in DOMAIN s
    BY <1>5, <2>1 DEF IsPlan, InOrder
  <2>2. CASE i \in DOMAIN s /\ j \notin DOMAIN s
    <3>1. st[i].op \in Ops(s) /\ st[j].op \in Ops(t)
      BY <1>4, <1>5, <2>2 DEF Ops
    <3>. QED
      BY <3>1 DEF IsPlan, InTurn
  <2>3. CASE i \notin DOMAIN s
    <3>1. j \notin DOMAIN s
      BY <1>3, <2>3
    <3>2. /\ i - Len(s) \in DOMAIN t /\ j - Len(s) \in DOMAIN t /\ i - Len(s) <= j - Len(s)
          /\ st[i] = t[i - Len(s)] /\ st[j] = t[j - Len(s)]
      BY <1>3, <1>4, <2>3, <3>1
    <3>. QED
      BY <3>2 DEF IsPlan, InOrder
  <2>. QED
    BY <2>1, <2>2, <2>3
<1>. QED
  BY <1>2, <1>6, <1>7 DEF IsPlan


LEMMA Needs ==
  /\ IsStep(Need("address", "CreateService", "wait", {"CreateService"}), "need")
  /\ IsStep(Need("account", "ServiceConfig", "retry", {}), "need")
  /\ IsStep(Need("secret", "Input", "retry", {"Input"}), "need")
  /\ IsStep(Need("ca", "TLSInput", "wait", {}), "need")
  /\ IsStep(Need("cert", "TLSInput", "wait", {"TLSInput", "ServiceConfig"}), "need")
  /\ IsStep(Need("nad", "NetworkAttachments", "retry", {}), "need")
  /\ IsStep(Need("account", "ServiceConfig", "retry", {"ServiceConfig"}), "need")
  /\ IsStep(Need("ca", "TLSInput", "wait", {"TLSInput"}), "need")
  /\ IsStep(Need("cert", "TLSInput", "wait", {"TLSInput"}), "need")
  /\ IsStep(Need("cert", "TLSInput", "wait", {}), "need")
  /\ IsStep(Need("vencrypt", "TLSInput", "wait", {"TLSInput"}), "need")
  /\ IsStep(Need("account", "DB", "retry", {"DB"}), "need")
<1>1. IsStep(Need("address", "CreateService", "wait", {"CreateService"}), "need")
  <2>1. "address" \in Inputs /\ "CreateService" \in Conditions
      /\ {"CreateService"} \in SUBSET (Conditions \ Earned)
    BY DEF Inputs, Conditions, Earned
  <2>. QED
    BY <2>1, NeedIsStep
<1>2. IsStep(Need("account", "ServiceConfig", "retry", {}), "need")
  <2>1. "account" \in Inputs /\ "ServiceConfig" \in Conditions
      /\ {} \in SUBSET (Conditions \ Earned)
    BY DEF Inputs, Conditions, Earned
  <2>. QED
    BY <2>1, NeedIsStep
<1>3. IsStep(Need("secret", "Input", "retry", {"Input"}), "need")
  <2>1. "secret" \in Inputs /\ "Input" \in Conditions
      /\ {"Input"} \in SUBSET (Conditions \ Earned)
    BY DEF Inputs, Conditions, Earned
  <2>. QED
    BY <2>1, NeedIsStep
<1>4. IsStep(Need("ca", "TLSInput", "wait", {}), "need")
  <2>1. "ca" \in Inputs /\ "TLSInput" \in Conditions
      /\ {} \in SUBSET (Conditions \ Earned)
    BY DEF Inputs, Conditions, Earned
  <2>. QED
    BY <2>1, NeedIsStep
<1>5. IsStep(Need("cert", "TLSInput", "wait", {"TLSInput", "ServiceConfig"}), "need")
  <2>1. "cert" \in Inputs /\ "TLSInput" \in Conditions
      /\ {"TLSInput", "ServiceConfig"} \in SUBSET (Conditions \ Earned)
    BY DEF Inputs, Conditions, Earned
  <2>. QED
    BY <2>1, NeedIsStep
<1>6. IsStep(Need("nad", "NetworkAttachments", "retry", {}), "need")
  <2>1. "nad" \in Inputs /\ "NetworkAttachments" \in Conditions
      /\ {} \in SUBSET (Conditions \ Earned)
    BY DEF Inputs, Conditions, Earned
  <2>. QED
    BY <2>1, NeedIsStep
<1>7. IsStep(Need("account", "ServiceConfig", "retry", {"ServiceConfig"}), "need")
  <2>1. "account" \in Inputs /\ "ServiceConfig" \in Conditions
      /\ {"ServiceConfig"} \in SUBSET (Conditions \ Earned)
    BY DEF Inputs, Conditions, Earned
  <2>. QED
    BY <2>1, NeedIsStep
<1>8. IsStep(Need("ca", "TLSInput", "wait", {"TLSInput"}), "need")
  <2>1. "ca" \in Inputs /\ "TLSInput" \in Conditions
      /\ {"TLSInput"} \in SUBSET (Conditions \ Earned)
    BY DEF Inputs, Conditions, Earned
  <2>. QED
    BY <2>1, NeedIsStep
<1>9. IsStep(Need("cert", "TLSInput", "wait", {"TLSInput"}), "need")
  <2>1. "cert" \in Inputs /\ "TLSInput" \in Conditions
      /\ {"TLSInput"} \in SUBSET (Conditions \ Earned)
    BY DEF Inputs, Conditions, Earned
  <2>. QED
    BY <2>1, NeedIsStep
<1>10. IsStep(Need("cert", "TLSInput", "wait", {}), "need")
  <2>1. "cert" \in Inputs /\ "TLSInput" \in Conditions
      /\ {} \in SUBSET (Conditions \ Earned)
    BY DEF Inputs, Conditions, Earned
  <2>. QED
    BY <2>1, NeedIsStep
<1>11. IsStep(Need("vencrypt", "TLSInput", "wait", {"TLSInput"}), "need")
  <2>1. "vencrypt" \in Inputs /\ "TLSInput" \in Conditions
      /\ {"TLSInput"} \in SUBSET (Conditions \ Earned)
    BY DEF Inputs, Conditions, Earned
  <2>. QED
    BY <2>1, NeedIsStep
<1>12. IsStep(Need("account", "DB", "retry", {"DB"}), "need")
  <2>1. "account" \in Inputs /\ "DB" \in Conditions
      /\ {"DB"} \in SUBSET (Conditions \ Earned)
    BY DEF Inputs, Conditions, Earned
  <2>. QED
    BY <2>1, NeedIsStep
<1>. QED
  BY <1>1, <1>2, <1>3, <1>4, <1>5, <1>6, <1>7, <1>8, <1>9, <1>10, <1>11, <1>12

LEMMA Makes ==
  /\ IsStep(Make("CronJob"), "make")
  /\ IsStep(Make("ComputeServiceConfig"), "make")
  /\ IsStep(Make("ServiceConfig"), "make")
  /\ IsStep(Make("KeystoneService"), "make")
  /\ IsStep(Step("make", "none", "ServiceConfig", "retry", {}), "make")
<1>1. {"CronJob", "ComputeServiceConfig", "ServiceConfig",
        "KeystoneService"} \subseteq Conditions \ Earned
  BY DEF Conditions, Earned
<1>2. Step("make", "none", "ServiceConfig", "retry", {})
        = [op |-> "make", input |-> "none", cond |-> "ServiceConfig", miss |-> "retry",
                then |-> {}]
  BY DEF Step
<1>3. "make" \in AllOps
  BY DEF AllOps
<1>4. IsStep(Step("make", "none", "ServiceConfig", "retry", {}), "make")
  BY <1>1, <1>2, <1>3 DEF StepType, IsStep
<1>. QED
  BY <1>1, <1>4, MakeIsStep

LEMMA Dos ==
  /\ IsStep(Do("leaveTopology"), "leaveTopology")
  /\ IsStep(Do("takeTopology"), "takeTopology")
  /\ IsStep(Do("statefulSet"), "statefulSet")
  /\ IsStep(Do("rolledOut"), "rolledOut")
  /\ IsStep(Do("memcached"), "memcached")
  /\ IsStep(Do("holdMemcached"), "holdMemcached")
  /\ IsStep(Do("endpoint"), "endpoint")
  /\ IsStep(Do("whenDeployed"), "whenDeployed")
  /\ IsStep(Do("ifDeployed"), "ifDeployed")
  /\ IsStep(Do("observe"), "observe")
  /\ IsStep(Do("dbSync"), "dbSync")
  /\ IsStep(Do("cleanRecords"), "cleanRecords")
  /\ IsStep(Do("dropTopology"), "dropTopology")
  /\ IsStep(Do("dropFinalizer"), "dropFinalizer")
  /\ IsStep(Do("dropEndpoint"), "dropEndpoint")
  /\ IsStep(Do("dropMemcached"), "dropMemcached")
  /\ IsStep(Do("tryDropMemcached"), "tryDropMemcached")
  /\ IsStep(Do("patch"), "patch")
  BY DoIsStep DEF AllOps

LEMMA SavePlan == \A k : IsPlan(Save, k, {"patch"})
  BY Dos, OneStep DEF Save

(* What the plans share.                                                   *)
LEMMA Parts ==
  ASSUME NEW k
  PROVE  /\ IsPlan(HoldMemcached, k, {"memcached", "holdMemcached"})
         /\ IsPlan(Deploy, k, {"leaveTopology", "takeTopology", "statefulSet", "rolledOut"})
         /\ IsPlan(Expose, k, {"need"})
         /\ IsPlan(LeaveAndGo, k, {"dropTopology", "dropFinalizer"})
         /\ IsPlan(DropMemcached, k, {"dropMemcached"})
         /\ IsPlan(TryDropMemcached, k, {"tryDropMemcached"})
<1>1. IsPlan(HoldMemcached, k, {"memcached", "holdMemcached"})
  BY Dos, TwoSteps DEF Precedes, HoldMemcached
<1>2. IsPlan(Topologies, k, {"leaveTopology", "takeTopology"})
  BY Dos, TwoSteps DEF Precedes, Topologies
<1>3. IsPlan(<<Do("statefulSet"), Do("rolledOut")>>, k, {"statefulSet", "rolledOut"})
  BY Dos, TwoSteps DEF Precedes
<1>4. IsPlan(Deploy, k, {"leaveTopology", "takeTopology", "statefulSet", "rolledOut"})
  <2>1. /\ InTurn({"leaveTopology", "takeTopology"}, {"statefulSet", "rolledOut"}, k)
        /\ {"leaveTopology", "takeTopology", "statefulSet", "rolledOut"}
             = {"leaveTopology", "takeTopology"} \cup {"statefulSet", "rolledOut"}
    BY DEF InTurn, Precedes
  <2>. QED
    BY <1>2, <1>3, <2>1, PlanConcat DEF Deploy
<1>5. IsPlan(Expose, k, {"need"})
  BY Needs, OneStep DEF Expose
<1>6. IsPlan(LeaveAndGo, k, {"dropTopology", "dropFinalizer"})
  BY Dos, TwoSteps DEF Precedes, LeaveAndGo
<1>7. IsPlan(DropMemcached, k, {"dropMemcached"}) /\ IsPlan(TryDropMemcached, k,
        {"tryDropMemcached"})
  BY Dos, OneStep DEF DropMemcached, TryDropMemcached
<1>. QED
  BY <1>1, <1>4, <1>5, <1>6, <1>7

LEMMA APIStepsPlan ==
  IsPlan(APISteps, "NovaAPI", MainOps("NovaAPI"))
<1> DEFINE k == "NovaAPI"
<1>1. IsPlan(<<Need("secret", "Input", "retry", {"Input"})>>, k, {"need"})
  BY Needs, OneStep
<1>2. IsPlan(<<Need("account", "ServiceConfig", "retry", {})>>, k, {"need"})
  BY Needs, OneStep
<1>3. IsPlan(APIConfig, k, {"need"})
  BY <1>2 DEF APIConfig
<1>4. IsPlan(<<Need("ca", "TLSInput", "wait", {}), Need("cert", "TLSInput", "wait",
        {"TLSInput", "ServiceConfig"})>>, k, {"need"})
  <2>1. IsPlan(<<Need("ca", "TLSInput", "wait", {}), Need("cert", "TLSInput", "wait",
          {"TLSInput", "ServiceConfig"})>>, k, {"need", "need"})
    BY Needs, Needs, TwoSteps DEF Precedes
  <2>2. {"need", "need"} = {"need"}
    OBVIOUS
  <2>. QED
    BY <2>1, <2>2
<1>5. IsPlan(<<Need("secret", "Input", "retry", {"Input"})>> \o HoldMemcached, k, {"need",
        "memcached", "holdMemcached"})
  <2>1. /\ InTurn({"need"}, {"memcached", "holdMemcached"}, k)
        /\ {"need", "memcached", "holdMemcached"} = {"need"} \cup {"memcached", "holdMemcached"}
    BY DEF InTurn, Precedes
  <2>. QED
    BY <1>1, Parts, <2>1, PlanConcat
<1>6. IsPlan(<<Need("secret", "Input", "retry", {"Input"})>> \o HoldMemcached \o APIConfig, k,
        {"need", "memcached", "holdMemcached"})
  <2>1. /\ InTurn({"need", "memcached", "holdMemcached"}, {"need"}, k)
        /\ {"need", "memcached", "holdMemcached"} = {"need", "memcached",
                "holdMemcached"} \cup {"need"}
    BY DEF InTurn, Precedes
  <2>. QED
    BY <1>5, <1>3, <2>1, PlanConcat
<1>7. IsPlan(<<Need("secret", "Input", "retry", {"Input"})>> \o HoldMemcached \o APIConfig
        \o <<Need("ca", "TLSInput", "wait", {}), Need("cert", "TLSInput", "wait", {"TLSInput",
        "ServiceConfig"})>>, k, {"need", "memcached", "holdMemcached"})
  <2>1. /\ InTurn({"need", "memcached", "holdMemcached"}, {"need"}, k)
        /\ {"need", "memcached", "holdMemcached"} = {"need", "memcached",
                "holdMemcached"} \cup {"need"}
    BY DEF InTurn, Precedes
  <2>. QED
    BY <1>6, <1>4, <2>1, PlanConcat
<1>8. IsPlan(APIInputs, k, {"need", "memcached", "holdMemcached"})
  BY <1>7 DEF APIInputs
<1>9. IsPlan(<<Need("nad", "NetworkAttachments", "retry", {})>>, k, {"need"})
  BY Needs, OneStep
<1>10. IsPlan(APIDeployment, k, {"leaveTopology", "takeTopology", "statefulSet", "rolledOut"})
  BY Parts DEF APIDeployment
<1>11. IsPlan(<<Do("whenDeployed")>>, k, {"whenDeployed"})
  BY Dos, OneStep
<1>12. IsPlan(APIExposure, k, {"need"})
  BY Parts DEF APIExposure
<1>13. IsPlan(<<Do("endpoint")>>, k, {"endpoint"})
  BY Dos, OneStep
<1>14. IsPlan(APIEndpoint, k, {"endpoint"})
  BY <1>13 DEF APIEndpoint
<1>15. IsPlan(APIInputs \o <<Need("nad", "NetworkAttachments", "retry", {})>>, k, {"need",
        "memcached", "holdMemcached"})
  <2>1. /\ InTurn({"need", "memcached", "holdMemcached"}, {"need"}, k)
        /\ {"need", "memcached", "holdMemcached"} = {"need", "memcached",
                "holdMemcached"} \cup {"need"}
    BY DEF InTurn, Precedes
  <2>. QED
    BY <1>8, <1>9, <2>1, PlanConcat
<1>16. IsPlan(APIInputs \o <<Need("nad", "NetworkAttachments", "retry", {})>>
        \o APIDeployment, k, {"need", "memcached", "holdMemcached", "leaveTopology",
        "takeTopology", "statefulSet", "rolledOut"})
  <2>1. /\ InTurn({"need", "memcached", "holdMemcached"}, {"leaveTopology", "takeTopology",
          "statefulSet", "rolledOut"}, k)
        /\ {"need", "memcached", "holdMemcached", "leaveTopology", "takeTopology",
                "statefulSet", "rolledOut"} = {"need", "memcached", "holdMemcached"}
                \cup {"leaveTopology", "takeTopology", "statefulSet", "rolledOut"}
    BY DEF InTurn, Precedes
  <2>. QED
    BY <1>15, <1>10, <2>1, PlanConcat
<1>17. IsPlan(APIInputs \o <<Need("nad", "NetworkAttachments", "retry", {})>>
        \o APIDeployment \o <<Do("whenDeployed")>>, k, {"need", "memcached", "holdMemcached",
        "leaveTopology", "takeTopology", "statefulSet", "rolledOut", "whenDeployed"})
  <2>1. /\ InTurn({"need", "memcached", "holdMemcached", "leaveTopology", "takeTopology",
          "statefulSet", "rolledOut"}, {"whenDeployed"}, k)
        /\ {"need", "memcached", "holdMemcached", "leaveTopology", "takeTopology",
                "statefulSet", "rolledOut", "whenDeployed"} = {"need", "memcached",
                "holdMemcached", "leaveTopology", "takeTopology", "statefulSet",
                "rolledOut"} \cup {"whenDeployed"}
    BY DEF InTurn, Precedes
  <2>. QED
    BY <1>16, <1>11, <2>1, PlanConcat
<1>18. IsPlan(APIInputs \o <<Need("nad", "NetworkAttachments", "retry", {})>>
        \o APIDeployment \o <<Do("whenDeployed")>> \o APIExposure, k, {"need", "memcached",
        "holdMemcached", "leaveTopology", "takeTopology", "statefulSet", "rolledOut",
        "whenDeployed"})
  <2>1. /\ InTurn({"need", "memcached", "holdMemcached", "leaveTopology", "takeTopology",
          "statefulSet", "rolledOut", "whenDeployed"}, {"need"}, k)
        /\ {"need", "memcached", "holdMemcached", "leaveTopology", "takeTopology",
                "statefulSet", "rolledOut", "whenDeployed"} = {"need", "memcached",
                "holdMemcached", "leaveTopology", "takeTopology", "statefulSet", "rolledOut",
                "whenDeployed"} \cup {"need"}
    BY DEF InTurn, Precedes
  <2>. QED
    BY <1>17, <1>12, <2>1, PlanConcat
<1>19. IsPlan(APIInputs \o <<Need("nad", "NetworkAttachments", "retry", {})>>
        \o APIDeployment \o <<Do("whenDeployed")>> \o APIExposure \o APIEndpoint, k, {"need",
        "memcached", "holdMemcached", "leaveTopology", "takeTopology", "statefulSet",
        "rolledOut", "whenDeployed", "endpoint"})
  <2>1. /\ InTurn({"need", "memcached", "holdMemcached", "leaveTopology", "takeTopology",
          "statefulSet", "rolledOut", "whenDeployed"}, {"endpoint"}, k)
        /\ {"need", "memcached", "holdMemcached", "leaveTopology", "takeTopology",
                "statefulSet", "rolledOut", "whenDeployed", "endpoint"} = {"need",
                "memcached", "holdMemcached", "leaveTopology", "takeTopology", "statefulSet",
                "rolledOut", "whenDeployed"} \cup {"endpoint"}
    BY DEF InTurn, Precedes
  <2>. QED
    BY <1>18, <1>14, <2>1, PlanConcat
<1>20. IsPlan(APISteps, k, {"need", "memcached", "holdMemcached", "leaveTopology",
        "takeTopology", "statefulSet", "rolledOut", "whenDeployed", "endpoint"})
  BY <1>19 DEF APISteps
<1>. QED
  BY <1>20 DEF MainOps, Holders, Exposed, Deployers, Makers, CyborgKinds

LEMMA APIDeletionPlan ==
  IsPlan(APIDeletion, "NovaAPI", DropOps("NovaAPI"))
<1> DEFINE k == "NovaAPI"
<1>1. IsPlan(<<Do("dropEndpoint")>>, k, {"dropEndpoint"})
  BY Dos, OneStep
<1>2. IsPlan(<<Do("dropEndpoint")>> \o DropMemcached, k, {"dropEndpoint", "dropMemcached"})
  <2>1. /\ InTurn({"dropEndpoint"}, {"dropMemcached"}, k)
        /\ {"dropEndpoint", "dropMemcached"} = {"dropEndpoint"} \cup {"dropMemcached"}
    BY DEF InTurn, Precedes
  <2>. QED
    BY <1>1, Parts, <2>1, PlanConcat
<1>3. IsPlan(<<Do("dropEndpoint")>> \o DropMemcached \o LeaveAndGo, k, {"dropEndpoint",
        "dropMemcached", "dropTopology", "dropFinalizer"})
  <2>1. /\ InTurn({"dropEndpoint", "dropMemcached"}, {"dropTopology", "dropFinalizer"}, k)
        /\ {"dropEndpoint", "dropMemcached", "dropTopology", "dropFinalizer"}
                = {"dropEndpoint", "dropMemcached"} \cup {"dropTopology", "dropFinalizer"}
    BY DEF InTurn, Precedes
  <2>. QED
    BY <1>2, Parts, <2>1, PlanConcat
<1>4. IsPlan(APIDeletion, k, {"dropEndpoint", "dropMemcached", "dropTopology", "dropFinalizer"})
  BY <1>3 DEF APIDeletion
<1>. QED
  BY <1>4 DEF DropOps, Holders, Exposed, Deployers, Makers, CyborgKinds

LEMMA SchedulerStepsPlan ==
  IsPlan(SchedulerSteps, "NovaScheduler", MainOps("NovaScheduler"))
<1> DEFINE k == "NovaScheduler"
<1>1. IsPlan(<<Need("secret", "Input", "retry", {"Input"}), Need("ca", "TLSInput", "wait",
        {"TLSInput"})>>, k, {"need"})
  <2>1. IsPlan(<<Need("secret", "Input", "retry", {"Input"}), Need("ca", "TLSInput", "wait",
          {"TLSInput"})>>, k, {"need", "need"})
    BY Needs, Needs, TwoSteps DEF Precedes
  <2>2. {"need", "need"} = {"need"}
    OBVIOUS
  <2>. QED
    BY <2>1, <2>2
<1>2. IsPlan(<<Need("account", "ServiceConfig", "retry", {"ServiceConfig"})>>, k, {"need"})
  BY Needs, OneStep
<1>3. IsPlan(SchedulerConfig, k, {"need"})
  BY <1>2 DEF SchedulerConfig
<1>4. IsPlan(<<Need("secret", "Input", "retry", {"Input"}), Need("ca", "TLSInput", "wait",
        {"TLSInput"})>> \o HoldMemcached, k, {"need", "memcached", "holdMemcached"})
  <2>1. /\ InTurn({"need"}, {"memcached", "holdMemcached"}, k)
        /\ {"need", "memcached", "holdMemcached"} = {"need"} \cup {"memcached", "holdMemcached"}
    BY DEF InTurn, Precedes
  <2>. QED
    BY <1>1, Parts, <2>1, PlanConcat
<1>5. IsPlan(<<Need("secret", "Input", "retry", {"Input"}), Need("ca", "TLSInput", "wait",
        {"TLSInput"})>> \o HoldMemcached \o SchedulerConfig, k, {"need", "memcached",
        "holdMemcached"})
  <2>1. /\ InTurn({"need", "memcached", "holdMemcached"}, {"need"}, k)
        /\ {"need", "memcached", "holdMemcached"} = {"need", "memcached",
                "holdMemcached"} \cup {"need"}
    BY DEF InTurn, Precedes
  <2>. QED
    BY <1>4, <1>3, <2>1, PlanConcat
<1>6. IsPlan(SchedulerInputs, k, {"need", "memcached", "holdMemcached"})
  BY <1>5 DEF SchedulerInputs
<1>7. IsPlan(<<Need("nad", "NetworkAttachments", "retry", {})>>, k, {"need"})
  BY Needs, OneStep
<1>8. IsPlan(SchedulerDeployment, k, {"leaveTopology", "takeTopology", "statefulSet",
        "rolledOut"})
  BY Parts DEF SchedulerDeployment
<1>9. IsPlan(<<Do("whenDeployed")>>, k, {"whenDeployed"})
  BY Dos, OneStep
<1>10. IsPlan(<<Do("cleanRecords")>>, k, {"cleanRecords"})
  BY Dos, OneStep
<1>11. IsPlan(SchedulerCleanup, k, {"cleanRecords"})
  BY <1>10 DEF SchedulerCleanup
<1>12. IsPlan(SchedulerInputs \o <<Need("nad", "NetworkAttachments", "retry", {})>>, k,
        {"need", "memcached", "holdMemcached"})
  <2>1. /\ InTurn({"need", "memcached", "holdMemcached"}, {"need"}, k)
        /\ {"need", "memcached", "holdMemcached"} = {"need", "memcached",
                "holdMemcached"} \cup {"need"}
    BY DEF InTurn, Precedes
  <2>. QED
    BY <1>6, <1>7, <2>1, PlanConcat
<1>13. IsPlan(SchedulerInputs \o <<Need("nad", "NetworkAttachments", "retry", {})>>
        \o SchedulerDeployment, k, {"need", "memcached", "holdMemcached", "leaveTopology",
        "takeTopology", "statefulSet", "rolledOut"})
  <2>1. /\ InTurn({"need", "memcached", "holdMemcached"}, {"leaveTopology", "takeTopology",
          "statefulSet", "rolledOut"}, k)
        /\ {"need", "memcached", "holdMemcached", "leaveTopology", "takeTopology",
                "statefulSet", "rolledOut"} = {"need", "memcached", "holdMemcached"}
                \cup {"leaveTopology", "takeTopology", "statefulSet", "rolledOut"}
    BY DEF InTurn, Precedes
  <2>. QED
    BY <1>12, <1>8, <2>1, PlanConcat
<1>14. IsPlan(SchedulerInputs \o <<Need("nad", "NetworkAttachments", "retry", {})>>
        \o SchedulerDeployment \o <<Do("whenDeployed")>>, k, {"need", "memcached",
        "holdMemcached", "leaveTopology", "takeTopology", "statefulSet", "rolledOut",
        "whenDeployed"})
  <2>1. /\ InTurn({"need", "memcached", "holdMemcached", "leaveTopology", "takeTopology",
          "statefulSet", "rolledOut"}, {"whenDeployed"}, k)
        /\ {"need", "memcached", "holdMemcached", "leaveTopology", "takeTopology",
                "statefulSet", "rolledOut", "whenDeployed"} = {"need", "memcached",
                "holdMemcached", "leaveTopology", "takeTopology", "statefulSet",
                "rolledOut"} \cup {"whenDeployed"}
    BY DEF InTurn, Precedes
  <2>. QED
    BY <1>13, <1>9, <2>1, PlanConcat
<1>15. IsPlan(SchedulerInputs \o <<Need("nad", "NetworkAttachments", "retry", {})>>
        \o SchedulerDeployment \o <<Do("whenDeployed")>> \o SchedulerCleanup, k, {"need",
        "memcached", "holdMemcached", "leaveTopology", "takeTopology", "statefulSet",
        "rolledOut", "whenDeployed", "cleanRecords"})
  <2>1. /\ InTurn({"need", "memcached", "holdMemcached", "leaveTopology", "takeTopology",
          "statefulSet", "rolledOut", "whenDeployed"}, {"cleanRecords"}, k)
        /\ {"need", "memcached", "holdMemcached", "leaveTopology", "takeTopology",
                "statefulSet", "rolledOut", "whenDeployed", "cleanRecords"} = {"need",
                "memcached", "holdMemcached", "leaveTopology", "takeTopology", "statefulSet",
                "rolledOut", "whenDeployed"} \cup {"cleanRecords"}
    BY DEF InTurn, Precedes
  <2>. QED
    BY <1>14, <1>11, <2>1, PlanConcat
<1>16. IsPlan(SchedulerSteps, k, {"need", "memcached", "holdMemcached", "leaveTopology",
        "takeTopology", "statefulSet", "rolledOut", "whenDeployed", "cleanRecords"})
  BY <1>15 DEF SchedulerSteps
<1>. QED
  BY <1>16 DEF MainOps, Holders, Exposed, Deployers, Makers, CyborgKinds

LEMMA SchedulerDeletionPlan ==
  IsPlan(SchedulerDeletion, "NovaScheduler", DropOps("NovaScheduler"))
<1> DEFINE k == "NovaScheduler"
<1>1. IsPlan(TryDropMemcached \o LeaveAndGo, k, {"tryDropMemcached", "dropTopology",
        "dropFinalizer"})
  <2>1. /\ InTurn({"tryDropMemcached"}, {"dropTopology", "dropFinalizer"}, k)
        /\ {"tryDropMemcached", "dropTopology", "dropFinalizer"} = {"tryDropMemcached"}
                \cup {"dropTopology", "dropFinalizer"}
    BY DEF InTurn, Precedes
  <2>. QED
    BY Parts, Parts, <2>1, PlanConcat
<1>2. IsPlan(SchedulerDeletion, k, {"tryDropMemcached", "dropTopology", "dropFinalizer"})
  BY <1>1 DEF SchedulerDeletion
<1>. QED
  BY <1>2 DEF DropOps, Holders, Exposed, Deployers, Makers, CyborgKinds

LEMMA ConductorStepsPlan ==
  IsPlan(ConductorSteps, "NovaConductor", MainOps("NovaConductor"))
<1> DEFINE k == "NovaConductor"
<1>1. IsPlan(<<Need("secret", "Input", "retry", {"Input"}), Need("ca", "TLSInput", "wait",
        {"TLSInput"})>>, k, {"need"})
  <2>1. IsPlan(<<Need("secret", "Input", "retry", {"Input"}), Need("ca", "TLSInput", "wait",
          {"TLSInput"})>>, k, {"need", "need"})
    BY Needs, Needs, TwoSteps DEF Precedes
  <2>2. {"need", "need"} = {"need"}
    OBVIOUS
  <2>. QED
    BY <2>1, <2>2
<1>2. IsPlan(<<Need("account", "ServiceConfig", "retry", {"ServiceConfig"})>>, k, {"need"})
  BY Needs, OneStep
<1>3. IsPlan(ConductorConfig, k, {"need"})
  BY <1>2 DEF ConductorConfig
<1>4. IsPlan(<<Need("nad", "NetworkAttachments", "retry", {})>>, k, {"need"})
  BY Needs, OneStep
<1>5. IsPlan(<<Need("secret", "Input", "retry", {"Input"}), Need("ca", "TLSInput", "wait",
        {"TLSInput"})>> \o HoldMemcached, k, {"need", "memcached", "holdMemcached"})
  <2>1. /\ InTurn({"need"}, {"memcached", "holdMemcached"}, k)
        /\ {"need", "memcached", "holdMemcached"} = {"need"} \cup {"memcached", "holdMemcached"}
    BY DEF InTurn, Precedes
  <2>. QED
    BY <1>1, Parts, <2>1, PlanConcat
<1>6. IsPlan(<<Need("secret", "Input", "retry", {"Input"}), Need("ca", "TLSInput", "wait",
        {"TLSInput"})>> \o HoldMemcached \o ConductorConfig, k, {"need", "memcached",
        "holdMemcached"})
  <2>1. /\ InTurn({"need", "memcached", "holdMemcached"}, {"need"}, k)
        /\ {"need", "memcached", "holdMemcached"} = {"need", "memcached",
                "holdMemcached"} \cup {"need"}
    BY DEF InTurn, Precedes
  <2>. QED
    BY <1>5, <1>3, <2>1, PlanConcat
<1>7. IsPlan(<<Need("secret", "Input", "retry", {"Input"}), Need("ca", "TLSInput", "wait",
        {"TLSInput"})>> \o HoldMemcached \o ConductorConfig \o <<Need("nad",
        "NetworkAttachments", "retry", {})>>, k, {"need", "memcached", "holdMemcached"})
  <2>1. /\ InTurn({"need", "memcached", "holdMemcached"}, {"need"}, k)
        /\ {"need", "memcached", "holdMemcached"} = {"need", "memcached",
                "holdMemcached"} \cup {"need"}
    BY DEF InTurn, Precedes
  <2>. QED
    BY <1>6, <1>4, <2>1, PlanConcat
<1>8. IsPlan(ConductorInputs, k, {"need", "memcached", "holdMemcached"})
  BY <1>7 DEF ConductorInputs
<1>9. IsPlan(<<Do("dbSync")>>, k, {"dbSync"})
  BY Dos, OneStep
<1>10. IsPlan(ConductorDBSync, k, {"dbSync"})
  BY <1>9 DEF ConductorDBSync
<1>11. IsPlan(ConductorDeployment, k, {"leaveTopology", "takeTopology", "statefulSet",
        "rolledOut"})
  BY Parts DEF ConductorDeployment
<1>12. IsPlan(<<Make("CronJob")>>, k, {"make"})
  BY Makes, OneStep
<1>13. IsPlan(ConductorPurge, k, {"make"})
  BY <1>12 DEF ConductorPurge
<1>14. IsPlan(<<Do("whenDeployed")>>, k, {"whenDeployed"})
  BY Dos, OneStep
<1>15. IsPlan(<<Do("cleanRecords")>>, k, {"cleanRecords"})
  BY Dos, OneStep
<1>16. IsPlan(ConductorCleanup, k, {"cleanRecords"})
  BY <1>15 DEF ConductorCleanup
<1>17. IsPlan(ConductorInputs \o ConductorDBSync, k, {"need", "memcached", "holdMemcached",
        "dbSync"})
  <2>1. /\ InTurn({"need", "memcached", "holdMemcached"}, {"dbSync"}, k)
        /\ {"need", "memcached", "holdMemcached", "dbSync"} = {"need", "memcached",
                "holdMemcached"} \cup {"dbSync"}
    BY DEF InTurn, Precedes
  <2>. QED
    BY <1>8, <1>10, <2>1, PlanConcat
<1>18. IsPlan(ConductorInputs \o ConductorDBSync \o ConductorDeployment, k, {"need",
        "memcached", "holdMemcached", "dbSync", "leaveTopology", "takeTopology",
        "statefulSet", "rolledOut"})
  <2>1. /\ InTurn({"need", "memcached", "holdMemcached", "dbSync"}, {"leaveTopology",
          "takeTopology", "statefulSet", "rolledOut"}, k)
        /\ {"need", "memcached", "holdMemcached", "dbSync", "leaveTopology", "takeTopology",
                "statefulSet", "rolledOut"} = {"need", "memcached", "holdMemcached",
                "dbSync"} \cup {"leaveTopology", "takeTopology", "statefulSet", "rolledOut"}
    BY DEF InTurn, Precedes
  <2>. QED
    BY <1>17, <1>11, <2>1, PlanConcat
<1>19. IsPlan(ConductorInputs \o ConductorDBSync \o ConductorDeployment \o ConductorPurge, k,
        {"need", "memcached", "holdMemcached", "dbSync", "leaveTopology", "takeTopology",
        "statefulSet", "rolledOut", "make"})
  <2>1. /\ InTurn({"need", "memcached", "holdMemcached", "dbSync", "leaveTopology",
          "takeTopology", "statefulSet", "rolledOut"}, {"make"}, k)
        /\ {"need", "memcached", "holdMemcached", "dbSync", "leaveTopology", "takeTopology",
                "statefulSet", "rolledOut", "make"} = {"need", "memcached", "holdMemcached",
                "dbSync", "leaveTopology", "takeTopology", "statefulSet", "rolledOut"}
                \cup {"make"}
    BY DEF InTurn, Precedes
  <2>. QED
    BY <1>18, <1>13, <2>1, PlanConcat
<1>20. IsPlan(ConductorInputs \o ConductorDBSync \o ConductorDeployment \o ConductorPurge
        \o <<Do("whenDeployed")>>, k, {"need", "memcached", "holdMemcached", "dbSync",
        "leaveTopology", "takeTopology", "statefulSet", "rolledOut", "make", "whenDeployed"})
  <2>1. /\ InTurn({"need", "memcached", "holdMemcached", "dbSync", "leaveTopology",
          "takeTopology", "statefulSet", "rolledOut", "make"}, {"whenDeployed"}, k)
        /\ {"need", "memcached", "holdMemcached", "dbSync", "leaveTopology", "takeTopology",
                "statefulSet", "rolledOut", "make", "whenDeployed"} = {"need", "memcached",
                "holdMemcached", "dbSync", "leaveTopology", "takeTopology", "statefulSet",
                "rolledOut", "make"} \cup {"whenDeployed"}
    BY DEF InTurn, Precedes
  <2>. QED
    BY <1>19, <1>14, <2>1, PlanConcat
<1>21. IsPlan(ConductorInputs \o ConductorDBSync \o ConductorDeployment \o ConductorPurge
        \o <<Do("whenDeployed")>> \o ConductorCleanup, k, {"need", "memcached",
        "holdMemcached", "dbSync", "leaveTopology", "takeTopology", "statefulSet",
        "rolledOut", "make", "whenDeployed", "cleanRecords"})
  <2>1. /\ InTurn({"need", "memcached", "holdMemcached", "dbSync", "leaveTopology",
          "takeTopology", "statefulSet", "rolledOut", "make", "whenDeployed"},
          {"cleanRecords"}, k)
        /\ {"need", "memcached", "holdMemcached", "dbSync", "leaveTopology", "takeTopology",
                "statefulSet", "rolledOut", "make", "whenDeployed", "cleanRecords"} = {"need",
                "memcached", "holdMemcached", "dbSync", "leaveTopology", "takeTopology",
                "statefulSet", "rolledOut", "make", "whenDeployed"} \cup {"cleanRecords"}
    BY DEF InTurn, Precedes
  <2>. QED
    BY <1>20, <1>16, <2>1, PlanConcat
<1>22. IsPlan(ConductorSteps, k, {"need", "memcached", "holdMemcached", "dbSync",
        "leaveTopology", "takeTopology", "statefulSet", "rolledOut", "make", "whenDeployed",
        "cleanRecords"})
  BY <1>21 DEF ConductorSteps
<1>. QED
  BY <1>22 DEF MainOps, Holders, Exposed, Deployers, Makers, CyborgKinds

LEMMA ConductorDeletionPlan ==
  IsPlan(ConductorDeletion, "NovaConductor", DropOps("NovaConductor"))
<1> DEFINE k == "NovaConductor"
<1>1. IsPlan(<<Do("dropFinalizer"), Do("dropTopology")>>, k, {"dropFinalizer", "dropTopology"})
  BY Dos, Dos, TwoSteps DEF Precedes
<1>2. IsPlan(TryDropMemcached \o <<Do("dropFinalizer"), Do("dropTopology")>>, k,
        {"tryDropMemcached", "dropFinalizer", "dropTopology"})
  <2>1. /\ InTurn({"tryDropMemcached"}, {"dropFinalizer", "dropTopology"}, k)
        /\ {"tryDropMemcached", "dropFinalizer", "dropTopology"} = {"tryDropMemcached"}
                \cup {"dropFinalizer", "dropTopology"}
    BY DEF InTurn, Precedes
  <2>. QED
    BY Parts, <1>1, <2>1, PlanConcat
<1>3. IsPlan(ConductorDeletion, k, {"tryDropMemcached", "dropFinalizer", "dropTopology"})
  BY <1>2 DEF ConductorDeletion
<1>. QED
  BY <1>3 DEF DropOps, Holders, Exposed, Deployers, Makers, CyborgKinds

LEMMA MetadataStepsPlan ==
  IsPlan(MetadataSteps, "NovaMetadata", MainOps("NovaMetadata"))
<1> DEFINE k == "NovaMetadata"
<1>1. IsPlan(<<Need("secret", "Input", "retry", {"Input"})>>, k, {"need"})
  BY Needs, OneStep
<1>2. IsPlan(<<Need("ca", "TLSInput", "wait", {}), Need("cert", "TLSInput", "wait",
        {"TLSInput"})>>, k, {"need"})
  <2>1. IsPlan(<<Need("ca", "TLSInput", "wait", {}), Need("cert", "TLSInput", "wait",
          {"TLSInput"})>>, k, {"need", "need"})
    BY Needs, Needs, TwoSteps DEF Precedes
  <2>2. {"need", "need"} = {"need"}
    OBVIOUS
  <2>. QED
    BY <2>1, <2>2
<1>3. IsPlan(<<Need("account", "ServiceConfig", "retry", {"ServiceConfig"})>>, k, {"need"})
  BY Needs, OneStep
<1>4. IsPlan(MetadataConfig, k, {"need"})
  BY <1>3 DEF MetadataConfig
<1>5. IsPlan(<<Need("secret", "Input", "retry", {"Input"})>> \o HoldMemcached, k, {"need",
        "memcached", "holdMemcached"})
  <2>1. /\ InTurn({"need"}, {"memcached", "holdMemcached"}, k)
        /\ {"need", "memcached", "holdMemcached"} = {"need"} \cup {"memcached", "holdMemcached"}
    BY DEF InTurn, Precedes
  <2>. QED
    BY <1>1, Parts, <2>1, PlanConcat
<1>6. IsPlan(<<Need("secret", "Input", "retry", {"Input"})>> \o HoldMemcached \o <<Need("ca",
        "TLSInput", "wait", {}), Need("cert", "TLSInput", "wait", {"TLSInput"})>>, k, {"need",
        "memcached", "holdMemcached"})
  <2>1. /\ InTurn({"need", "memcached", "holdMemcached"}, {"need"}, k)
        /\ {"need", "memcached", "holdMemcached"} = {"need", "memcached",
                "holdMemcached"} \cup {"need"}
    BY DEF InTurn, Precedes
  <2>. QED
    BY <1>5, <1>2, <2>1, PlanConcat
<1>7. IsPlan(<<Need("secret", "Input", "retry", {"Input"})>> \o HoldMemcached \o <<Need("ca",
        "TLSInput", "wait", {}), Need("cert", "TLSInput", "wait", {"TLSInput"})>>
        \o MetadataConfig, k, {"need", "memcached", "holdMemcached"})
  <2>1. /\ InTurn({"need", "memcached", "holdMemcached"}, {"need"}, k)
        /\ {"need", "memcached", "holdMemcached"} = {"need", "memcached",
                "holdMemcached"} \cup {"need"}
    BY DEF InTurn, Precedes
  <2>. QED
    BY <1>6, <1>4, <2>1, PlanConcat
<1>8. IsPlan(MetadataInputs, k, {"need", "memcached", "holdMemcached"})
  BY <1>7 DEF MetadataInputs
<1>9. IsPlan(<<Need("nad", "NetworkAttachments", "retry", {})>>, k, {"need"})
  BY Needs, OneStep
<1>10. IsPlan(MetadataDeployment, k, {"leaveTopology", "takeTopology", "statefulSet",
        "rolledOut"})
  BY Parts DEF MetadataDeployment
<1>11. IsPlan(MetadataExposure, k, {"need"})
  BY Parts DEF MetadataExposure
<1>12. IsPlan(<<Make("ComputeServiceConfig")>>, k, {"make"})
  BY Makes, OneStep
<1>13. IsPlan(NeutronConfig, k, {"make"})
  BY <1>12 DEF NeutronConfig
<1>14. IsPlan(MetadataInputs \o <<Need("nad", "NetworkAttachments", "retry", {})>>, k,
        {"need", "memcached", "holdMemcached"})
  <2>1. /\ InTurn({"need", "memcached", "holdMemcached"}, {"need"}, k)
        /\ {"need", "memcached", "holdMemcached"} = {"need", "memcached",
                "holdMemcached"} \cup {"need"}
    BY DEF InTurn, Precedes
  <2>. QED
    BY <1>8, <1>9, <2>1, PlanConcat
<1>15. IsPlan(MetadataInputs \o <<Need("nad", "NetworkAttachments", "retry", {})>>
        \o MetadataDeployment, k, {"need", "memcached", "holdMemcached", "leaveTopology",
        "takeTopology", "statefulSet", "rolledOut"})
  <2>1. /\ InTurn({"need", "memcached", "holdMemcached"}, {"leaveTopology", "takeTopology",
          "statefulSet", "rolledOut"}, k)
        /\ {"need", "memcached", "holdMemcached", "leaveTopology", "takeTopology",
                "statefulSet", "rolledOut"} = {"need", "memcached", "holdMemcached"}
                \cup {"leaveTopology", "takeTopology", "statefulSet", "rolledOut"}
    BY DEF InTurn, Precedes
  <2>. QED
    BY <1>14, <1>10, <2>1, PlanConcat
<1>16. IsPlan(MetadataInputs \o <<Need("nad", "NetworkAttachments", "retry", {})>>
        \o MetadataDeployment \o MetadataExposure, k, {"need", "memcached", "holdMemcached",
        "leaveTopology", "takeTopology", "statefulSet", "rolledOut"})
  <2>1. /\ InTurn({"need", "memcached", "holdMemcached", "leaveTopology", "takeTopology",
          "statefulSet", "rolledOut"}, {"need"}, k)
        /\ {"need", "memcached", "holdMemcached", "leaveTopology", "takeTopology",
                "statefulSet", "rolledOut"} = {"need", "memcached", "holdMemcached",
                "leaveTopology", "takeTopology", "statefulSet", "rolledOut"} \cup {"need"}
    BY DEF InTurn, Precedes
  <2>. QED
    BY <1>15, <1>11, <2>1, PlanConcat
<1>17. IsPlan(MetadataInputs \o <<Need("nad", "NetworkAttachments", "retry", {})>>
        \o MetadataDeployment \o MetadataExposure \o NeutronConfig, k, {"need", "memcached",
        "holdMemcached", "leaveTopology", "takeTopology", "statefulSet", "rolledOut", "make"})
  <2>1. /\ InTurn({"need", "memcached", "holdMemcached", "leaveTopology", "takeTopology",
          "statefulSet", "rolledOut"}, {"make"}, k)
        /\ {"need", "memcached", "holdMemcached", "leaveTopology", "takeTopology",
                "statefulSet", "rolledOut", "make"} = {"need", "memcached", "holdMemcached",
                "leaveTopology", "takeTopology", "statefulSet", "rolledOut"} \cup {"make"}
    BY DEF InTurn, Precedes
  <2>. QED
    BY <1>16, <1>13, <2>1, PlanConcat
<1>18. IsPlan(MetadataSteps, k, {"need", "memcached", "holdMemcached", "leaveTopology",
        "takeTopology", "statefulSet", "rolledOut", "make"})
  BY <1>17 DEF MetadataSteps
<1>. QED
  BY <1>18 DEF MainOps, Holders, Exposed, Deployers, Makers, CyborgKinds

LEMMA MetadataDeletionPlan ==
  IsPlan(MetadataDeletion, "NovaMetadata", DropOps("NovaMetadata"))
<1> DEFINE k == "NovaMetadata"
<1>1. IsPlan(TryDropMemcached \o LeaveAndGo, k, {"tryDropMemcached", "dropTopology",
        "dropFinalizer"})
  <2>1. /\ InTurn({"tryDropMemcached"}, {"dropTopology", "dropFinalizer"}, k)
        /\ {"tryDropMemcached", "dropTopology", "dropFinalizer"} = {"tryDropMemcached"}
                \cup {"dropTopology", "dropFinalizer"}
    BY DEF InTurn, Precedes
  <2>. QED
    BY Parts, Parts, <2>1, PlanConcat
<1>2. IsPlan(MetadataDeletion, k, {"tryDropMemcached", "dropTopology", "dropFinalizer"})
  BY <1>1 DEF MetadataDeletion
<1>. QED
  BY <1>2 DEF DropOps, Holders, Exposed, Deployers, Makers, CyborgKinds

LEMMA ProxyStepsPlan ==
  IsPlan(ProxySteps, "NovaNoVNCProxy", MainOps("NovaNoVNCProxy"))
<1> DEFINE k == "NovaNoVNCProxy"
<1>1. IsPlan(<<Need("secret", "Input", "retry", {"Input"}), Need("ca", "TLSInput", "wait",
        {}), Need("cert", "TLSInput", "wait", {}), Need("vencrypt", "TLSInput", "wait",
        {"TLSInput"})>>, k, {"need"})
  <2>1. IsPlan(<<Need("secret", "Input", "retry", {"Input"}), Need("ca", "TLSInput", "wait",
          {}), Need("cert", "TLSInput", "wait", {}), Need("vencrypt", "TLSInput", "wait",
          {"TLSInput"})>>, k, {"need", "need", "need", "need"})
    BY Needs, Needs, Needs, Needs, FourSteps DEF Precedes
  <2>2. {"need", "need", "need", "need"} = {"need"}
    OBVIOUS
  <2>. QED
    BY <2>1, <2>2
<1>2. IsPlan(ProxyInputs, k, {"need"})
  BY <1>1 DEF ProxyInputs
<1>3. IsPlan(ProxyExposure, k, {"need"})
  BY Parts DEF ProxyExposure
<1>4. IsPlan(<<Need("account", "ServiceConfig", "retry", {"ServiceConfig"})>>, k, {"need"})
  BY Needs, OneStep
<1>5. IsPlan(ProxyConfig, k, {"need"})
  BY <1>4 DEF ProxyConfig
<1>6. IsPlan(<<Need("nad", "NetworkAttachments", "retry", {})>>, k, {"need"})
  BY Needs, OneStep
<1>7. IsPlan(ProxyDeployment, k, {"leaveTopology", "takeTopology", "statefulSet", "rolledOut"})
  BY Parts DEF ProxyDeployment
<1>8. IsPlan(ProxyInputs \o ProxyExposure, k, {"need"})
  <2>1. /\ InTurn({"need"}, {"need"}, k)
        /\ {"need"} = {"need"} \cup {"need"}
    BY DEF InTurn, Precedes
  <2>. QED
    BY <1>2, <1>3, <2>1, PlanConcat
<1>9. IsPlan(ProxyInputs \o ProxyExposure \o HoldMemcached, k, {"need", "memcached",
        "holdMemcached"})
  <2>1. /\ InTurn({"need"}, {"memcached", "holdMemcached"}, k)
        /\ {"need", "memcached", "holdMemcached"} = {"need"} \cup {"memcached", "holdMemcached"}
    BY DEF InTurn, Precedes
  <2>. QED
    BY <1>8, Parts, <2>1, PlanConcat
<1>10. IsPlan(ProxyInputs \o ProxyExposure \o HoldMemcached \o ProxyConfig, k, {"need",
        "memcached", "holdMemcached"})
  <2>1. /\ InTurn({"need", "memcached", "holdMemcached"}, {"need"}, k)
        /\ {"need", "memcached", "holdMemcached"} = {"need", "memcached",
                "holdMemcached"} \cup {"need"}
    BY DEF InTurn, Precedes
  <2>. QED
    BY <1>9, <1>5, <2>1, PlanConcat
<1>11. IsPlan(ProxyInputs \o ProxyExposure \o HoldMemcached \o ProxyConfig \o <<Need("nad",
        "NetworkAttachments", "retry", {})>>, k, {"need", "memcached", "holdMemcached"})
  <2>1. /\ InTurn({"need", "memcached", "holdMemcached"}, {"need"}, k)
        /\ {"need", "memcached", "holdMemcached"} = {"need", "memcached",
                "holdMemcached"} \cup {"need"}
    BY DEF InTurn, Precedes
  <2>. QED
    BY <1>10, <1>6, <2>1, PlanConcat
<1>12. IsPlan(ProxyInputs \o ProxyExposure \o HoldMemcached \o ProxyConfig \o <<Need("nad",
        "NetworkAttachments", "retry", {})>> \o ProxyDeployment, k, {"need", "memcached",
        "holdMemcached", "leaveTopology", "takeTopology", "statefulSet", "rolledOut"})
  <2>1. /\ InTurn({"need", "memcached", "holdMemcached"}, {"leaveTopology", "takeTopology",
          "statefulSet", "rolledOut"}, k)
        /\ {"need", "memcached", "holdMemcached", "leaveTopology", "takeTopology",
                "statefulSet", "rolledOut"} = {"need", "memcached", "holdMemcached"}
                \cup {"leaveTopology", "takeTopology", "statefulSet", "rolledOut"}
    BY DEF InTurn, Precedes
  <2>. QED
    BY <1>11, <1>7, <2>1, PlanConcat
<1>13. IsPlan(ProxySteps, k, {"need", "memcached", "holdMemcached", "leaveTopology",
        "takeTopology", "statefulSet", "rolledOut"})
  BY <1>12 DEF ProxySteps
<1>. QED
  BY <1>13 DEF MainOps, Holders, Exposed, Deployers, Makers, CyborgKinds

LEMMA ProxyDeletionPlan ==
  IsPlan(ProxyDeletion, "NovaNoVNCProxy", DropOps("NovaNoVNCProxy"))
<1> DEFINE k == "NovaNoVNCProxy"
<1>1. IsPlan(TryDropMemcached \o LeaveAndGo, k, {"tryDropMemcached", "dropTopology",
        "dropFinalizer"})
  <2>1. /\ InTurn({"tryDropMemcached"}, {"dropTopology", "dropFinalizer"}, k)
        /\ {"tryDropMemcached", "dropTopology", "dropFinalizer"} = {"tryDropMemcached"}
                \cup {"dropTopology", "dropFinalizer"}
    BY DEF InTurn, Precedes
  <2>. QED
    BY Parts, Parts, <2>1, PlanConcat
<1>2. IsPlan(ProxyDeletion, k, {"tryDropMemcached", "dropTopology", "dropFinalizer"})
  BY <1>1 DEF ProxyDeletion
<1>. QED
  BY <1>2 DEF DropOps, Holders, Exposed, Deployers, Makers, CyborgKinds

LEMMA ComputeStepsPlan ==
  IsPlan(ComputeSteps, "NovaCompute", MainOps("NovaCompute"))
<1> DEFINE k == "NovaCompute"
<1>1. IsPlan(<<Need("secret", "Input", "retry", {"Input"}), Need("ca", "TLSInput", "wait",
        {"TLSInput"})>>, k, {"need"})
  <2>1. IsPlan(<<Need("secret", "Input", "retry", {"Input"}), Need("ca", "TLSInput", "wait",
          {"TLSInput"})>>, k, {"need", "need"})
    BY Needs, Needs, TwoSteps DEF Precedes
  <2>2. {"need", "need"} = {"need"}
    OBVIOUS
  <2>. QED
    BY <2>1, <2>2
<1>2. IsPlan(<<Make("ServiceConfig")>>, k, {"make"})
  BY Makes, OneStep
<1>3. IsPlan(ComputeConfig, k, {"make"})
  BY <1>2 DEF ComputeConfig
<1>4. IsPlan(<<Need("secret", "Input", "retry", {"Input"}), Need("ca", "TLSInput", "wait",
        {"TLSInput"})>> \o ComputeConfig, k, {"need", "make"})
  <2>1. /\ InTurn({"need"}, {"make"}, k)
        /\ {"need", "make"} = {"need"} \cup {"make"}
    BY DEF InTurn, Precedes
  <2>. QED
    BY <1>1, <1>3, <2>1, PlanConcat
<1>5. IsPlan(ComputeInputs, k, {"need", "make"})
  BY <1>4 DEF ComputeInputs
<1>6. IsPlan(<<Need("nad", "NetworkAttachments", "retry", {})>>, k, {"need"})
  BY Needs, OneStep
<1>7. IsPlan(ComputeDeployment, k, {"leaveTopology", "takeTopology", "statefulSet",
        "rolledOut"})
  BY Parts DEF ComputeDeployment
<1>8. IsPlan(ComputeInputs \o <<Need("nad", "NetworkAttachments", "retry", {})>>, k, {"need",
        "make"})
  <2>1. /\ InTurn({"need", "make"}, {"need"}, k)
        /\ {"need", "make"} = {"need", "make"} \cup {"need"}
    BY DEF InTurn, Precedes
  <2>. QED
    BY <1>5, <1>6, <2>1, PlanConcat
<1>9. IsPlan(ComputeInputs \o <<Need("nad", "NetworkAttachments", "retry", {})>>
        \o ComputeDeployment, k, {"need", "make", "leaveTopology", "takeTopology",
        "statefulSet", "rolledOut"})
  <2>1. /\ InTurn({"need", "make"}, {"leaveTopology", "takeTopology", "statefulSet",
          "rolledOut"}, k)
        /\ {"need", "make", "leaveTopology", "takeTopology", "statefulSet", "rolledOut"}
                = {"need", "make"} \cup {"leaveTopology", "takeTopology", "statefulSet",
                "rolledOut"}
    BY DEF InTurn, Precedes
  <2>. QED
    BY <1>8, <1>7, <2>1, PlanConcat
<1>10. IsPlan(ComputeSteps, k, {"need", "make", "leaveTopology", "takeTopology",
        "statefulSet", "rolledOut"})
  BY <1>9 DEF ComputeSteps
<1>. QED
  BY <1>10 DEF MainOps, Holders, Exposed, Deployers, Makers, CyborgKinds

LEMMA ComputeDeletionPlan ==
  IsPlan(ComputeDeletion, "NovaCompute", DropOps("NovaCompute"))
<1> DEFINE k == "NovaCompute"
<1>1. IsPlan(<<Do("dropTopology")>>, k, {"dropTopology"})
  BY Dos, OneStep
<1>2. IsPlan(ComputeDeletion, k, {"dropTopology"})
  BY <1>1 DEF ComputeDeletion
<1>. QED
  BY <1>2 DEF DropOps, Holders, Exposed, Deployers, Makers, CyborgKinds

LEMMA PlacementStepsPlan ==
  IsPlan(PlacementSteps, "PlacementAPI", MainOps("PlacementAPI"))
<1> DEFINE k == "PlacementAPI"
<1>1. IsPlan(<<Need("secret", "Input", "retry", {"Input"}), Need("account", "DB", "retry",
        {"DB"})>>, k, {"need"})
  <2>1. IsPlan(<<Need("secret", "Input", "retry", {"Input"}), Need("account", "DB", "retry",
          {"DB"})>>, k, {"need", "need"})
    BY Needs, Needs, TwoSteps DEF Precedes
  <2>2. {"need", "need"} = {"need"}
    OBVIOUS
  <2>. QED
    BY <2>1, <2>2
<1>2. IsPlan(<<Step("make", "none", "ServiceConfig", "retry", {})>>, k, {"make"})
  BY Makes, OneStep
<1>3. IsPlan(PlacementConfig, k, {"make"})
  BY <1>2 DEF PlacementConfig
<1>4. IsPlan(<<Need("ca", "TLSInput", "wait", {}), Need("cert", "TLSInput", "wait",
        {"TLSInput", "ServiceConfig"}), Need("nad", "NetworkAttachments", "retry", {})>>, k,
        {"need"})
  <2>1. IsPlan(<<Need("ca", "TLSInput", "wait", {}), Need("cert", "TLSInput", "wait",
          {"TLSInput", "ServiceConfig"}), Need("nad", "NetworkAttachments", "retry", {})>>, k,
          {"need", "need", "need"})
    BY Needs, Needs, Needs, ThreeSteps DEF Precedes
  <2>2. {"need", "need", "need"} = {"need"}
    OBVIOUS
  <2>. QED
    BY <2>1, <2>2
<1>5. IsPlan(<<Need("secret", "Input", "retry", {"Input"}), Need("account", "DB", "retry",
        {"DB"})>> \o PlacementConfig, k, {"need", "make"})
  <2>1. /\ InTurn({"need"}, {"make"}, k)
        /\ {"need", "make"} = {"need"} \cup {"make"}
    BY DEF InTurn, Precedes
  <2>. QED
    BY <1>1, <1>3, <2>1, PlanConcat
<1>6. IsPlan(<<Need("secret", "Input", "retry", {"Input"}), Need("account", "DB", "retry",
        {"DB"})>> \o PlacementConfig \o <<Need("ca", "TLSInput", "wait", {}), Need("cert",
        "TLSInput", "wait", {"TLSInput", "ServiceConfig"}), Need("nad", "NetworkAttachments",
        "retry", {})>>, k, {"need", "make"})
  <2>1. /\ InTurn({"need", "make"}, {"need"}, k)
        /\ {"need", "make"} = {"need", "make"} \cup {"need"}
    BY DEF InTurn, Precedes
  <2>. QED
    BY <1>5, <1>4, <2>1, PlanConcat
<1>7. IsPlan(PlacementInputs, k, {"need", "make"})
  BY <1>6 DEF PlacementInputs
<1>8. IsPlan(PlacementExposure, k, {"need"})
  BY Parts DEF PlacementExposure
<1>9. IsPlan(<<Do("dbSync")>>, k, {"dbSync"})
  BY Dos, OneStep
<1>10. IsPlan(PlacementDBSync, k, {"dbSync"})
  BY <1>9 DEF PlacementDBSync
<1>11. IsPlan(PlacementDeployment, k, {"leaveTopology", "takeTopology", "statefulSet",
        "rolledOut"})
  BY Parts DEF PlacementDeployment
<1>12. IsPlan(<<Do("whenDeployed")>>, k, {"whenDeployed"})
  BY Dos, OneStep
<1>13. IsPlan(<<Make("KeystoneService"), Do("endpoint")>>, k, {"make", "endpoint"})
  BY Dos, Makes, TwoSteps DEF Precedes
<1>14. IsPlan(PlacementEndpoint, k, {"make", "endpoint"})
  BY <1>13 DEF PlacementEndpoint
<1>15. IsPlan(PlacementInputs \o PlacementExposure, k, {"need", "make"})
  <2>1. /\ InTurn({"need", "make"}, {"need"}, k)
        /\ {"need", "make"} = {"need", "make"} \cup {"need"}
    BY DEF InTurn, Precedes
  <2>. QED
    BY <1>7, <1>8, <2>1, PlanConcat
<1>16. IsPlan(PlacementInputs \o PlacementExposure \o PlacementDBSync, k, {"need", "make",
        "dbSync"})
  <2>1. /\ InTurn({"need", "make"}, {"dbSync"}, k)
        /\ {"need", "make", "dbSync"} = {"need", "make"} \cup {"dbSync"}
    BY DEF InTurn, Precedes
  <2>. QED
    BY <1>15, <1>10, <2>1, PlanConcat
<1>17. IsPlan(PlacementInputs \o PlacementExposure \o PlacementDBSync \o PlacementDeployment,
        k, {"need", "make", "dbSync", "leaveTopology", "takeTopology", "statefulSet",
        "rolledOut"})
  <2>1. /\ InTurn({"need", "make", "dbSync"}, {"leaveTopology", "takeTopology", "statefulSet",
          "rolledOut"}, k)
        /\ {"need", "make", "dbSync", "leaveTopology", "takeTopology", "statefulSet",
                "rolledOut"} = {"need", "make", "dbSync"} \cup {"leaveTopology",
                "takeTopology", "statefulSet", "rolledOut"}
    BY DEF InTurn, Precedes
  <2>. QED
    BY <1>16, <1>11, <2>1, PlanConcat
<1>18. IsPlan(PlacementInputs \o PlacementExposure \o PlacementDBSync
        \o PlacementDeployment \o <<Do("whenDeployed")>>, k, {"need", "make", "dbSync",
        "leaveTopology", "takeTopology", "statefulSet", "rolledOut", "whenDeployed"})
  <2>1. /\ InTurn({"need", "make", "dbSync", "leaveTopology", "takeTopology", "statefulSet",
          "rolledOut"}, {"whenDeployed"}, k)
        /\ {"need", "make", "dbSync", "leaveTopology", "takeTopology", "statefulSet",
                "rolledOut", "whenDeployed"} = {"need", "make", "dbSync", "leaveTopology",
                "takeTopology", "statefulSet", "rolledOut"} \cup {"whenDeployed"}
    BY DEF InTurn, Precedes
  <2>. QED
    BY <1>17, <1>12, <2>1, PlanConcat
<1>19. IsPlan(PlacementInputs \o PlacementExposure \o PlacementDBSync
        \o PlacementDeployment \o <<Do("whenDeployed")>> \o PlacementEndpoint, k, {"need",
        "make", "dbSync", "leaveTopology", "takeTopology", "statefulSet", "rolledOut",
        "whenDeployed", "endpoint"})
  <2>1. /\ InTurn({"need", "make", "dbSync", "leaveTopology", "takeTopology", "statefulSet",
          "rolledOut", "whenDeployed"}, {"make", "endpoint"}, k)
        /\ {"need", "make", "dbSync", "leaveTopology", "takeTopology", "statefulSet",
                "rolledOut", "whenDeployed", "endpoint"} = {"need", "make", "dbSync",
                "leaveTopology", "takeTopology", "statefulSet", "rolledOut",
                "whenDeployed"} \cup {"make", "endpoint"}
    BY DEF InTurn, Precedes
  <2>. QED
    BY <1>18, <1>14, <2>1, PlanConcat
<1>20. IsPlan(PlacementSteps, k, {"need", "make", "dbSync", "leaveTopology", "takeTopology",
        "statefulSet", "rolledOut", "whenDeployed", "endpoint"})
  BY <1>19 DEF PlacementSteps
<1>. QED
  BY <1>20 DEF MainOps, Holders, Exposed, Deployers, Makers, CyborgKinds

LEMMA PlacementDeletionPlan ==
  IsPlan(PlacementDeletion, "PlacementAPI", DropOps("PlacementAPI"))
<1> DEFINE k == "PlacementAPI"
<1>1. IsPlan(<<Do("dropTopology"), Do("dropEndpoint"), Do("dropFinalizer")>>, k,
        {"dropTopology", "dropEndpoint", "dropFinalizer"})
  BY Dos, Dos, Dos, ThreeSteps DEF Precedes
<1>2. IsPlan(PlacementDeletion, k, {"dropTopology", "dropEndpoint", "dropFinalizer"})
  BY <1>1 DEF PlacementDeletion
<1>. QED
  BY <1>2 DEF DropOps, Holders, Exposed, Deployers, Makers, CyborgKinds

LEMMA CyborgAPIStepsPlan ==
  IsPlan(CyborgAPISteps, "CyborgAPI", MainOps("CyborgAPI"))
<1> DEFINE k == "CyborgAPI"
<1>1. IsPlan(<<Need("secret", "Input", "retry", {"Input"}), Need("ca", "TLSInput", "wait",
        {}), Need("cert", "TLSInput", "wait", {"TLSInput"})>>, k, {"need"})
  <2>1. IsPlan(<<Need("secret", "Input", "retry", {"Input"}), Need("ca", "TLSInput", "wait",
          {}), Need("cert", "TLSInput", "wait", {"TLSInput"})>>, k, {"need", "need", "need"})
    BY Needs, Needs, Needs, ThreeSteps DEF Precedes
  <2>2. {"need", "need", "need"} = {"need"}
    OBVIOUS
  <2>. QED
    BY <2>1, <2>2
<1>2. IsPlan(<<Make("ServiceConfig")>>, k, {"make"})
  BY Makes, OneStep
<1>3. IsPlan(CyborgAPIConfig, k, {"make"})
  BY <1>2 DEF CyborgAPIConfig
<1>4. IsPlan(<<Need("secret", "Input", "retry", {"Input"}), Need("ca", "TLSInput", "wait",
        {}), Need("cert", "TLSInput", "wait", {"TLSInput"})>> \o CyborgAPIConfig, k, {"need",
        "make"})
  <2>1. /\ InTurn({"need"}, {"make"}, k)
        /\ {"need", "make"} = {"need"} \cup {"make"}
    BY DEF InTurn, Precedes
  <2>. QED
    BY <1>1, <1>3, <2>1, PlanConcat
<1>5. IsPlan(CyborgAPIInputs, k, {"need", "make"})
  BY <1>4 DEF CyborgAPIInputs
<1>6. IsPlan(<<Do("ifDeployed")>>, k, {"ifDeployed"})
  BY Dos, OneStep
<1>7. IsPlan(CyborgAPIExposure, k, {"need"})
  BY Parts DEF CyborgAPIExposure
<1>8. IsPlan(<<Do("endpoint")>>, k, {"endpoint"})
  BY Dos, OneStep
<1>9. IsPlan(CyborgAPIEndpoint, k, {"endpoint"})
  BY <1>8 DEF CyborgAPIEndpoint
<1>10. IsPlan(<<Do("observe")>>, k, {"observe"})
  BY Dos, OneStep
<1>11. IsPlan(CyborgAPIInputs \o Deploy, k, {"need", "make", "leaveTopology", "takeTopology",
        "statefulSet", "rolledOut"})
  <2>1. /\ InTurn({"need", "make"}, {"leaveTopology", "takeTopology", "statefulSet",
          "rolledOut"}, k)
        /\ {"need", "make", "leaveTopology", "takeTopology", "statefulSet", "rolledOut"}
                = {"need", "make"} \cup {"leaveTopology", "takeTopology", "statefulSet",
                "rolledOut"}
    BY DEF InTurn, Precedes
  <2>. QED
    BY <1>5, Parts, <2>1, PlanConcat
<1>12. IsPlan(CyborgAPIInputs \o Deploy \o <<Do("ifDeployed")>>, k, {"need", "make",
        "leaveTopology", "takeTopology", "statefulSet", "rolledOut", "ifDeployed"})
  <2>1. /\ InTurn({"need", "make", "leaveTopology", "takeTopology", "statefulSet",
          "rolledOut"}, {"ifDeployed"}, k)
        /\ {"need", "make", "leaveTopology", "takeTopology", "statefulSet", "rolledOut",
                "ifDeployed"} = {"need", "make", "leaveTopology", "takeTopology",
                "statefulSet", "rolledOut"} \cup {"ifDeployed"}
    BY DEF InTurn, Precedes
  <2>. QED
    BY <1>11, <1>6, <2>1, PlanConcat
<1>13. IsPlan(CyborgAPIInputs \o Deploy \o <<Do("ifDeployed")>> \o CyborgAPIExposure, k,
        {"need", "make", "leaveTopology", "takeTopology", "statefulSet", "rolledOut",
        "ifDeployed"})
  <2>1. /\ InTurn({"need", "make", "leaveTopology", "takeTopology", "statefulSet",
          "rolledOut", "ifDeployed"}, {"need"}, k)
        /\ {"need", "make", "leaveTopology", "takeTopology", "statefulSet", "rolledOut",
                "ifDeployed"} = {"need", "make", "leaveTopology", "takeTopology",
                "statefulSet", "rolledOut", "ifDeployed"} \cup {"need"}
    BY DEF InTurn, Precedes
  <2>. QED
    BY <1>12, <1>7, <2>1, PlanConcat
<1>14. IsPlan(CyborgAPIInputs \o Deploy \o <<Do("ifDeployed")>> \o CyborgAPIExposure
        \o CyborgAPIEndpoint, k, {"need", "make", "leaveTopology", "takeTopology",
        "statefulSet", "rolledOut", "ifDeployed", "endpoint"})
  <2>1. /\ InTurn({"need", "make", "leaveTopology", "takeTopology", "statefulSet",
          "rolledOut", "ifDeployed"}, {"endpoint"}, k)
        /\ {"need", "make", "leaveTopology", "takeTopology", "statefulSet", "rolledOut",
                "ifDeployed", "endpoint"} = {"need", "make", "leaveTopology", "takeTopology",
                "statefulSet", "rolledOut", "ifDeployed"} \cup {"endpoint"}
    BY DEF InTurn, Precedes
  <2>. QED
    BY <1>13, <1>9, <2>1, PlanConcat
<1>15. IsPlan(CyborgAPIInputs \o Deploy \o <<Do("ifDeployed")>> \o CyborgAPIExposure
        \o CyborgAPIEndpoint \o <<Do("observe")>>, k, {"need", "make", "leaveTopology",
        "takeTopology", "statefulSet", "rolledOut", "ifDeployed", "endpoint", "observe"})
  <2>1. /\ InTurn({"need", "make", "leaveTopology", "takeTopology", "statefulSet",
          "rolledOut", "ifDeployed", "endpoint"}, {"observe"}, k)
        /\ {"need", "make", "leaveTopology", "takeTopology", "statefulSet", "rolledOut",
                "ifDeployed", "endpoint", "observe"} = {"need", "make", "leaveTopology",
                "takeTopology", "statefulSet", "rolledOut", "ifDeployed", "endpoint"}
                \cup {"observe"}
    BY DEF InTurn, Precedes
  <2>. QED
    BY <1>14, <1>10, <2>1, PlanConcat
<1>16. IsPlan(CyborgAPISteps, k, {"need", "make", "leaveTopology", "takeTopology",
        "statefulSet", "rolledOut", "ifDeployed", "endpoint", "observe"})
  BY <1>15 DEF CyborgAPISteps
<1>. QED
  BY <1>16 DEF MainOps, Holders, Exposed, Deployers, Makers, CyborgKinds

LEMMA CyborgAPIDeletionPlan ==
  IsPlan(CyborgAPIDeletion, "CyborgAPI", DropOps("CyborgAPI"))
<1> DEFINE k == "CyborgAPI"
<1>1. IsPlan(<<Do("dropEndpoint")>>, k, {"dropEndpoint"})
  BY Dos, OneStep
<1>2. IsPlan(<<Do("dropEndpoint")>> \o LeaveAndGo, k, {"dropEndpoint", "dropTopology",
        "dropFinalizer"})
  <2>1. /\ InTurn({"dropEndpoint"}, {"dropTopology", "dropFinalizer"}, k)
        /\ {"dropEndpoint", "dropTopology", "dropFinalizer"} = {"dropEndpoint"}
                \cup {"dropTopology", "dropFinalizer"}
    BY DEF InTurn, Precedes
  <2>. QED
    BY <1>1, Parts, <2>1, PlanConcat
<1>3. IsPlan(CyborgAPIDeletion, k, {"dropEndpoint", "dropTopology", "dropFinalizer"})
  BY <1>2 DEF CyborgAPIDeletion
<1>. QED
  BY <1>3 DEF DropOps, Holders, Exposed, Deployers, Makers, CyborgKinds

LEMMA CyborgConductorStepsPlan ==
  IsPlan(CyborgConductorSteps, "CyborgConductor", MainOps("CyborgConductor"))
<1> DEFINE k == "CyborgConductor"
<1>1. IsPlan(<<Need("secret", "Input", "retry", {"Input"})>>, k, {"need"})
  BY Needs, OneStep
<1>2. IsPlan(<<Make("ServiceConfig")>>, k, {"make"})
  BY Makes, OneStep
<1>3. IsPlan(CyborgConductorConfig, k, {"make"})
  BY <1>2 DEF CyborgConductorConfig
<1>4. IsPlan(<<Do("observe")>>, k, {"observe"})
  BY Dos, OneStep
<1>5. IsPlan(<<Need("secret", "Input", "retry", {"Input"})>> \o CyborgConductorConfig, k,
        {"need", "make"})
  <2>1. /\ InTurn({"need"}, {"make"}, k)
        /\ {"need", "make"} = {"need"} \cup {"make"}
    BY DEF InTurn, Precedes
  <2>. QED
    BY <1>1, <1>3, <2>1, PlanConcat
<1>6. IsPlan(<<Need("secret", "Input", "retry", {"Input"})>> \o CyborgConductorConfig
        \o Deploy, k, {"need", "make", "leaveTopology", "takeTopology", "statefulSet",
        "rolledOut"})
  <2>1. /\ InTurn({"need", "make"}, {"leaveTopology", "takeTopology", "statefulSet",
          "rolledOut"}, k)
        /\ {"need", "make", "leaveTopology", "takeTopology", "statefulSet", "rolledOut"}
                = {"need", "make"} \cup {"leaveTopology", "takeTopology", "statefulSet",
                "rolledOut"}
    BY DEF InTurn, Precedes
  <2>. QED
    BY <1>5, Parts, <2>1, PlanConcat
<1>7. IsPlan(<<Need("secret", "Input", "retry", {"Input"})>> \o CyborgConductorConfig
        \o Deploy \o <<Do("observe")>>, k, {"need", "make", "leaveTopology", "takeTopology",
        "statefulSet", "rolledOut", "observe"})
  <2>1. /\ InTurn({"need", "make", "leaveTopology", "takeTopology", "statefulSet",
          "rolledOut"}, {"observe"}, k)
        /\ {"need", "make", "leaveTopology", "takeTopology", "statefulSet", "rolledOut",
                "observe"} = {"need", "make", "leaveTopology", "takeTopology", "statefulSet",
                "rolledOut"} \cup {"observe"}
    BY DEF InTurn, Precedes
  <2>. QED
    BY <1>6, <1>4, <2>1, PlanConcat
<1>8. IsPlan(CyborgConductorSteps, k, {"need", "make", "leaveTopology", "takeTopology",
        "statefulSet", "rolledOut", "observe"})
  BY <1>7 DEF CyborgConductorSteps
<1>. QED
  BY <1>8 DEF MainOps, Holders, Exposed, Deployers, Makers, CyborgKinds

LEMMA CyborgConductorDeletionPlan ==
  IsPlan(CyborgConductorDeletion, "CyborgConductor", DropOps("CyborgConductor"))
<1> DEFINE k == "CyborgConductor"
<1>1. IsPlan(CyborgConductorDeletion, k, {"dropTopology", "dropFinalizer"})
  BY Parts DEF CyborgConductorDeletion
<1>. QED
  BY <1>1 DEF DropOps, Holders, Exposed, Deployers, Makers, CyborgKinds
-----------------------------------------------------------------------------
(* The table of the kinds.                                                 *)
LEMMA Table ==
  ASSUME NEW k \in Kinds
  PROVE  /\ IsPlan(Steps[k], k, MainOps(k))
         /\ IsPlan(Deletion[k], k, DropOps(k))
         /\ InitConditions[k] \subseteq Conditions
         /\ "Deployment" \in InitConditions[k]
         /\ k \in Exposed => "KeystoneEndpoint" \in InitConditions[k]
<1>1. CASE k = "NovaAPI"
  <2>1. Steps[k] = APISteps /\ Deletion[k] = APIDeletion /\ InitConditions[k] = APIConditions
    BY <1>1 DEF Steps, Deletion, InitConditions, ByKind, Kinds
  <2>. QED
    BY <1>1, <2>1, APIStepsPlan, APIDeletionPlan
       DEF APIConditions, Conditions, Exposed
<1>2. CASE k = "NovaScheduler"
  <2>1. Steps[k] = SchedulerSteps /\ Deletion[k] = SchedulerDeletion /\ InitConditions[k] = SchedulerConditions
    BY <1>2 DEF Steps, Deletion, InitConditions, ByKind, Kinds
  <2>. QED
    BY <1>2, <2>1, SchedulerStepsPlan, SchedulerDeletionPlan
       DEF SchedulerConditions, Conditions, Exposed
<1>3. CASE k = "NovaConductor"
  <2>1. Steps[k] = ConductorSteps /\ Deletion[k] = ConductorDeletion /\ InitConditions[k] = ConductorConditions
    BY <1>3 DEF Steps, Deletion, InitConditions, ByKind, Kinds
  <2>. QED
    BY <1>3, <2>1, ConductorStepsPlan, ConductorDeletionPlan
       DEF ConductorConditions, Conditions, Exposed
<1>4. CASE k = "NovaMetadata"
  <2>1. Steps[k] = MetadataSteps /\ Deletion[k] = MetadataDeletion /\ InitConditions[k] = MetadataConditions
    BY <1>4 DEF Steps, Deletion, InitConditions, ByKind, Kinds
  <2>. QED
    BY <1>4, <2>1, MetadataStepsPlan, MetadataDeletionPlan
       DEF MetadataConditions, Conditions, Exposed
<1>5. CASE k = "NovaNoVNCProxy"
  <2>1. Steps[k] = ProxySteps /\ Deletion[k] = ProxyDeletion /\ InitConditions[k] = ProxyConditions
    BY <1>5 DEF Steps, Deletion, InitConditions, ByKind, Kinds
  <2>. QED
    BY <1>5, <2>1, ProxyStepsPlan, ProxyDeletionPlan
       DEF ProxyConditions, Conditions, Exposed
<1>6. CASE k = "NovaCompute"
  <2>1. Steps[k] = ComputeSteps /\ Deletion[k] = ComputeDeletion /\ InitConditions[k] = ComputeConditions
    BY <1>6 DEF Steps, Deletion, InitConditions, ByKind, Kinds
  <2>. QED
    BY <1>6, <2>1, ComputeStepsPlan, ComputeDeletionPlan
       DEF ComputeConditions, Conditions, Exposed
<1>7. CASE k = "PlacementAPI"
  <2>1. Steps[k] = PlacementSteps /\ Deletion[k] = PlacementDeletion /\ InitConditions[k] = PlacementConditions
    BY <1>7 DEF Steps, Deletion, InitConditions, ByKind, Kinds
  <2>. QED
    BY <1>7, <2>1, PlacementStepsPlan, PlacementDeletionPlan
       DEF PlacementConditions, Conditions, Exposed
<1>8. CASE k = "CyborgAPI"
  <2>1. Steps[k] = CyborgAPISteps /\ Deletion[k] = CyborgAPIDeletion /\ InitConditions[k] = CyborgAPIConditions
    BY <1>8 DEF Steps, Deletion, InitConditions, ByKind, Kinds
  <2>. QED
    BY <1>8, <2>1, CyborgAPIStepsPlan, CyborgAPIDeletionPlan
       DEF CyborgAPIConditions, Conditions, Exposed
<1>9. CASE k = "CyborgConductor"
  <2>1. Steps[k] = CyborgConductorSteps /\ Deletion[k] = CyborgConductorDeletion /\ InitConditions[k] = CyborgConductorConditions
    BY <1>9 DEF Steps, Deletion, InitConditions, ByKind, Kinds
  <2>. QED
    BY <1>9, <2>1, CyborgConductorStepsPlan, CyborgConductorDeletionPlan
       DEF CyborgConductorConditions, Conditions, Exposed
<1>. QED
  BY <1>1, <1>2, <1>3, <1>4, <1>5, <1>6, <1>7, <1>8, <1>9 DEF Kinds

LEMMA WhatKindsDo ==
  ASSUME NEW k \in Kinds
  PROVE  /\ HoldsMemcached(k) <=> k \in Holders
         /\ HasEndpoint(k) <=> k \in Exposed
         /\ Registers(k) <=> k \in {"NovaConductor", "NovaScheduler"}
<1>1. \A op : Does(k, op) <=> op \in MainOps(k)
  BY Table DEF Does, IsPlan, Ops
<1>2. "holdMemcached" \in MainOps(k) <=> k \in Holders
  BY DEF MainOps
<1>3. "endpoint" \in MainOps(k) <=> k \in Exposed
  BY DEF MainOps
<1>4. "cleanRecords" \in MainOps(k) <=> k \in {"NovaConductor", "NovaScheduler"}
  BY DEF MainOps
<1>. QED
  BY <1>1, <1>2, <1>3, <1>4 DEF HoldsMemcached, HasEndpoint, Registers

LEMMA PatchComesLast ==
  ASSUME NEW k
  PROVE  InTurn(MainOps(k) \cup DropOps(k), {"patch"}, k)
  BY DEF InTurn, Precedes

(* What a reconcile has ahead of it when it begins.                        *)
LEMMA ProgramPlan ==
  ASSUME NEW s, kind[s] \in Kinds
  PROVE  IsPlan(Program(s), kind[s],
                IF cr[s].life = "deleting" THEN DropOps(kind[s]) \cup {"patch"}
                ELSE IF AddsFinalizer(s) THEN {"patch"}
                ELSE MainOps(kind[s]) \cup {"patch"})
<1> DEFINE k == kind[s]
<1>1. InTurn(MainOps(k), {"patch"}, k) /\ InTurn(DropOps(k), {"patch"}, k)
  BY PatchComesLast DEF InTurn
<1>2. IsPlan(Steps[k] \o Save, k, MainOps(k) \cup {"patch"})
  <2>1. IsPlan(Steps[k], k, MainOps(k)) /\ IsPlan(Save, k, {"patch"})
    BY Table, SavePlan
  <2>. QED
    BY <1>1, <2>1, PlanConcat
<1>3. IsPlan(Deletion[k] \o Save, k, DropOps(k) \cup {"patch"})
  <2>1. IsPlan(Deletion[k], k, DropOps(k)) /\ IsPlan(Save, k, {"patch"})
    BY Table, SavePlan
  <2>. QED
    BY <1>1, <2>1, PlanConcat
<1>. QED
  BY <1>2, <1>3, SavePlan DEF Program

-----------------------------------------------------------------------------
(* What is ahead after a step.                                             *)
LEMMA TailPlan ==
  ASSUME NEW k, NEW t \in Seq(StepType), t # <<>>
  PROVE  /\ Head(t) \in StepType /\ Tail(t) \in Seq(StepType)
         /\ Ops(t) = Ops(Tail(t)) \cup {Head(t).op}
         /\ InOrder(t, k) => /\ InOrder(Tail(t), k)
                             /\ \A a \in Ops(t) : <<a, Head(t).op>> \notin Precedes(k)
<1> DEFINE u == Tail(t)
<1>1. /\ Head(t) = t[1] /\ Head(t) \in StepType /\ u \in Seq(StepType)
      /\ Len(t) \in Nat \ {0} /\ DOMAIN t = 1 .. Len(t) /\ Len(u) = Len(t) - 1
      /\ DOMAIN u = 1 .. (Len(t) - 1)
      /\ \A i \in 1 .. (Len(t) - 1) : u[i] = t[i + 1]
  BY LenProperties
<1>2. \A i \in DOMAIN u : i \in Nat /\ i + 1 \in DOMAIN t /\ u[i] = t[i + 1]
  BY <1>1
<1>3. 1 \in DOMAIN t /\ \A i \in DOMAIN t : i \in Nat /\ 1 <= i
  BY <1>1
<1>4. \A i \in DOMAIN t : i = 1 \/ (i - 1 \in DOMAIN u /\ t[i] = u[i - 1])
  BY <1>1, <1>2
<1>5. Ops(t) = Ops(u) \cup {Head(t).op}
  <2>1. Ops(u) \subseteq Ops(t)
    BY <1>2 DEF Ops
  <2>2. Head(t).op \in Ops(t)
    BY <1>1, <1>3 DEF Ops
  <2>3. Ops(t) \subseteq Ops(u) \cup {Head(t).op}
    <3> SUFFICES ASSUME NEW i \in DOMAIN t PROVE t[i].op \in Ops(u) \cup {Head(t).op}
      BY DEF Ops
    <3>. QED
      BY <1>1, <1>4 DEF Ops
  <2>. QED
    BY <2>1, <2>2, <2>3
<1>6. ASSUME InOrder(t, k) PROVE InOrder(u, k)
  <2> SUFFICES ASSUME NEW i \in DOMAIN u, NEW j \in DOMAIN u, i <= j
               PROVE  <<u[j].op, u[i].op>> \notin Precedes(k)
    BY DEF InOrder
  <2>1. i + 1 \in DOMAIN t /\ j + 1 \in DOMAIN t /\ i + 1 <= j + 1 /\ u[i] = t[i + 1] /\ u[j] = t[j + 1]
    BY <1>2
  <2>. QED
    BY <1>6, <2>1 DEF InOrder
<1>7. ASSUME InOrder(t, k) PROVE \A a \in Ops(t) : <<a, Head(t).op>> \notin Precedes(k)
  BY <1>1, <1>3, <1>7 DEF InOrder, Ops
<1>. QED
  BY <1>1, <1>5, <1>6, <1>7

(* The step that a reconcile is at, and what is ahead once it is done.     *)
LEMMA Onwards ==
  ASSUME NEW s, PlanInv(s), NEW op, At(s, op)
  PROVE  /\ Busy(s) /\ Ahead(s, op) /\ Head(todo[s]) \in StepType
         /\ op \in MainOps(kind[s]) \cup DropOps(kind[s]) \cup {"patch"}
         /\ \A a \in Ops(todo[s]) : <<a, op>> \notin Precedes(kind[s])
         /\ Ops(todo[s]) = Ops(Tail(todo[s])) \cup {op}
         /\ Tail(todo[s]) \in Seq(StepType) /\ InOrder(Tail(todo[s]), kind[s])
<1>1. todo[s] # <<>> /\ Head(todo[s]).op = op
  BY DEF At
<1>2. todo[s] \in Seq(StepType) /\ InOrder(todo[s], kind[s])
  BY DEF PlanInv
<1>3. Ops(todo[s]) = Ops(Tail(todo[s])) \cup {op}
  BY <1>1, <1>2, TailPlan
<1>4. op \in MainOps(kind[s]) \cup DropOps(kind[s]) \cup {"patch"}
  BY <1>3 DEF PlanInv
<1>. QED
  BY <1>1, <1>2, <1>3, <1>4, TailPlan DEF Busy, Ahead

-----------------------------------------------------------------------------
(* Types.                                                                  *)
LEMMA Constants ==
  /\ \A d \in Deployments : d.kind \in [Services -> Kinds] /\ d.there \subseteq Services
  /\ MaxReplicas \in Nat /\ MaxReplicas >= 1
  /\ NoTopology \in Refs /\ NoTopology \notin TopologyCRs
  /\ NoPods \in Spec_ /\ Idle \in LocalType
  /\ [topo |-> NoTopology, replicas |-> 1] \in Spec_
<1>1. /\ \A d \in Deployments : d.kind \in [Services -> Kinds] /\ d.there \subseteq Services
      /\ MaxReplicas \in Nat /\ MaxReplicas >= 1
      /\ NoTopology \notin TopologyCRs
  BY ServiceConstants
<1>2. NoTopology \in Refs
  BY DEF Refs
<1>3. NoPods \in Spec_ /\ [topo |-> NoTopology, replicas |-> 1] \in Spec_
  BY <1>1, <1>2 DEF NoPods, Spec_
<1>. QED
  BY <1>1, <1>2, <1>3 DEF Idle, LocalType

LEMMA KindIs ==
  ASSUME Types, NEW s \in Services
  PROVE  kind[s] \in Kinds
  BY Constants DEF Types, CRTypes

LEMMA NothingAhead ==
  ASSUME NEW k
  PROVE  Ops(<<>>) = {} /\ InOrder(<<>>, k) /\ <<>> \in Seq(StepType)
  BY DEF Ops, InOrder

LEMMA NothingToDo ==
  ASSUME Init, NEW s \in Services
  PROVE  todo[s] = <<>> /\ Ops(todo[s]) = {} /\ ~Busy(s) /\ \A op : ~Ahead(s, op)
<1>1. todo = [x \in Services |-> <<>>]
  BY DEF Init
<1>2. todo[s] = <<>>
  BY <1>1
<1>. QED
  BY <1>2, NothingAhead DEF Busy, Ahead

LEMMA TypesInit == Init => Types
<1> SUFFICES ASSUME Init PROVE Types
  OBVIOUS
<1> USE DEF Init
<1>1. CRTypes
  BY Constants DEF CRTypes, CRType, StatusType, Life, Conditions
<1>2. WorkTypes
  <2>1. \A s \in Services : todo[s] = <<>> /\ Ops(todo[s]) = {}
    BY NothingToDo
  <2>2. todo = [s \in Services |-> <<>>] /\ local = [s \in Services |-> Idle]
    OBVIOUS
  <2>3. queue \subseteq Services
    BY Constants
  <2>4. todo \in [Services -> Seq(StepType)] /\ local \in [Services -> LocalType]
    BY <2>2, Constants, NothingAhead
  <2>. QED
    BY <2>1, <2>3, <2>4, NothingAhead DEF WorkTypes, PlanInv
<1>3. HeldTypes
  <2>1. inputs \subseteq Inputs
    OBVIOUS
  <2>. QED
    BY <2>1 DEF HeldTypes, Life
<1>4. PodTypes
  BY Constants DEF PodTypes
<1>. QED
  BY <1>1, <1>2, <1>3, <1>4 DEF Types

(* Which actions change what.                                              *)
LEMMA Frame ==
  ASSUME [Next]_vars
  PROVE  /\ kind' = kind
         /\ UNCHANGED cr \/ \E s \in Services : Edit(s) \/ Delete(s) \/ Patch(s)
         /\ UNCHANGED status \/ \E s \in Services : Edit(s) \/ Patch(s)
         /\ UNCHANGED inputs \/ \E i \in Inputs : Arrives(i)
         /\ UNCHANGED memcached \/ DeleteMemcached \/ \E s \in Services : HoldIt(s) \/ ReleaseMemcached(s)
         /\ \/ UNCHANGED topology \/ \E t \in TopologyCRs : DeleteTopology(t)
            \/ \E s \in Services : LeaveTopology(s) \/ TakeTopology(s) \/ DropTopology(s)
         /\ \/ UNCHANGED endpoint
            \/ \E s \in Services : Delete(s) \/ Patch(s) \/ EndpointReady(s) \/ EnsureEndpoint(s)
                                   \/ DropEndpoint(s)
         /\ UNCHANGED sts \/ \E s \in Services : Delete(s) \/ Patch(s) \/ EnsureStatefulSet(s)
         /\ UNCHANGED running \/ \E s \in Services : Delete(s) \/ Patch(s) \/ RollOut(s)
         /\ UNCHANGED records \/ \E s \in Services : RollOut(s) \/ CleanRecords(s)
         /\ UNCHANGED ignored \/ \E s \in Services : ErrorIgnored(s)
<1> USE DEF vars, crVars, workVars, heldVars, podVars, boundVars
<1>1. CASE UNCHANGED vars
  BY <1>1
<1>2. CASE \/ \E s \in Services : Edit(s) \/ Delete(s)
           \/ DeleteMemcached \/ \E t \in TopologyCRs : DeleteTopology(t)
  BY <1>2 DEF Edit, Delete, DeleteMemcached, DeleteTopology
<1>3. CASE \/ \E s \in Services : CallFails(s) \/ ErrorIgnored(s) \/ PatchFails(s)
           \/ Restart
  BY <1>3 DEF CallFails, ErrorIgnored, PatchFails, Restart
<1>4. CASE \/ \E s \in Services : RollOut(s) \/ JobDone(s) \/ EndpointReady(s)
           \/ \E i \in Inputs : Arrives(i)
  BY <1>4 DEF RollOut, JobDone, EndpointReady, Arrives
<1>5. ASSUME NEW s \in Services,
             Begin(s) \/ NeedInput(s) \/ MakeObject(s) \/ EnsureMemcached(s) \/ SyncDB(s) \/ RolledOut(s)
             \/ WhenDeployed(s) \/ IfDeployed(s) \/ Observe(s) \/ DropFinalizer(s)
      PROVE  UNCHANGED <<kind, cr, status, inputs, memcached, topology, endpoint, sts, running, records,
                         ignored>>
  BY <1>5 DEF Begin, NeedInput, MakeObject, EnsureMemcached, SyncDB, RolledOut, WhenDeployed, IfDeployed,
     Observe, DropFinalizer
<1>6. CASE \E s \in Services : HoldIt(s) \/ ReleaseMemcached(s)
  BY <1>6 DEF HoldIt, ReleaseMemcached
<1>7. CASE \E s \in Services : LeaveTopology(s) \/ TakeTopology(s) \/ DropTopology(s)
  BY <1>7 DEF LeaveTopology, TakeTopology, DropTopology
<1>8. CASE \E s \in Services : EnsureEndpoint(s) \/ DropEndpoint(s)
  BY <1>8 DEF EnsureEndpoint, DropEndpoint
<1>9. CASE \E s \in Services : EnsureStatefulSet(s) \/ CleanRecords(s)
  BY <1>9 DEF EnsureStatefulSet, CleanRecords
<1>10. CASE \E s \in Services : Patch(s)
  BY <1>10 DEF Patch
<1>. QED
  <2> HIDE DEF vars, crVars, workVars, heldVars, podVars, boundVars
  <2>1. CASE \E s \in Services : Reconcile(s)
    <3>1. PICK s \in Services : Reconcile(s)
      BY <2>1
    <3>. QED
      BY <3>1, <1>5, <1>6, <1>7, <1>8, <1>9, <1>10 DEF Reconcile
  <2>. QED
    BY <1>1, <1>2, <1>3, <1>4, <2>1 DEF Next, User, Fault

LEMMA CRTypesStep == Types /\ [Next]_vars => CRTypes'
<1> SUFFICES ASSUME Types, [Next]_vars PROVE CRTypes'
  OBVIOUS
<1>t. /\ kind \in [Services -> Kinds] /\ cr \in [Services -> CRType]
      /\ status \in [Services -> StatusType] /\ local \in [Services -> LocalType]
  BY DEF Types, CRTypes, WorkTypes
<1>1. kind' \in [Services -> Kinds]
  BY <1>t, Frame
<1>2. cr' \in [Services -> CRType]
  <2>1. ASSUME NEW s \in Services, Edit(s) PROVE cr' \in [Services -> CRType]
    <3>1. cr[s].spec \in Spec_ /\ cr[s] \in CRType
      BY <1>t DEF CRType
    <3>2. \/ \E t \in Refs : cr' = [cr EXCEPT ![s].spec.topo = t]
          \/ \E n \in 0 .. MaxReplicas : cr' = [cr EXCEPT ![s].spec.replicas = n]
      BY <2>1, Constants DEF Edit
    <3>3. \E spec \in Spec_ : cr' = [cr EXCEPT ![s].spec = spec]
      BY <3>1, <3>2, <1>t DEF Spec_
    <3>. QED
      BY <3>1, <3>3, <1>t DEF CRType
  <2>2. ASSUME NEW s \in Services, Delete(s) PROVE cr' \in [Services -> CRType]
    BY <1>t, <2>2 DEF Delete, CRType, Life
  <2>3. ASSUME NEW s \in Services, Patch(s) PROVE cr' \in [Services -> CRType]
    BY <1>t, <2>3 DEF Patch, CRType, LocalType, Life
  <2>. QED
    BY <1>t, <2>1, <2>2, <2>3, Frame
<1>3. status' \in [Services -> StatusType]
  <2>1. ASSUME NEW s \in Services, Edit(s) PROVE status' \in [Services -> StatusType]
    BY <1>t, <2>1 DEF Edit, StatusType
  <2>2. ASSUME NEW s \in Services, Patch(s) PROVE status' \in [Services -> StatusType]
    <3>1. Outcome(s) \in StatusType
      BY <1>t DEF Outcome, StatusType, LocalType
    <3>. QED
      BY <1>t, <2>2, <3>1 DEF Patch
  <2>. QED
    BY <1>t, <2>1, <2>2, Frame
<1>. QED
  BY <1>1, <1>2, <1>3 DEF CRTypes

LEMMA LocalTypesStep == Types /\ [Next]_vars => local' \in [Services -> LocalType]
<1> SUFFICES ASSUME Types, [Next]_vars PROVE local' \in [Services -> LocalType]
  OBVIOUS
<1>t. /\ cr \in [Services -> CRType] /\ status \in [Services -> StatusType]
      /\ local \in [Services -> LocalType]
  BY DEF Types, CRTypes, WorkTypes
<1>1. ASSUME NEW s \in Services, Edit(s) PROVE local' \in [Services -> LocalType]
  BY <1>t, <1>1 DEF Edit, LocalType
<1>2. ASSUME NEW s \in Services, Begin(s) PROVE local' \in [Services -> LocalType]
  <2> DEFINE pending == InitConditions[kind[s]] \cup
                           (IF cr[s].spec.topo = NoTopology THEN {} ELSE {"Topology"})
  <2>1. pending \subseteq Conditions
    <3>1. InitConditions[kind[s]] \subseteq Conditions
      BY KindIs, Table
    <3>. QED
      BY <3>1 DEF Conditions
  <2>2. cr[s].spec \in Spec_ /\ cr[s].fin \in BOOLEAN /\ status[s].topo \in Refs
    BY <1>t DEF CRType, StatusType
  <2>3. [spec |-> cr[s].spec, fin |-> cr[s].fin \/ AddsFinalizer(s), pending |-> pending,
         topo |-> status[s].topo, observed |-> kind[s] \notin CyborgKinds, fresh |-> TRUE] \in LocalType
    <3> HIDE DEF pending
    <3>1. (cr[s].fin \/ AddsFinalizer(s)) \in BOOLEAN /\ (kind[s] \notin CyborgKinds) \in BOOLEAN
      BY <2>2
    <3>. QED
      BY <2>1, <2>2, <3>1 DEF LocalType
  <2>. QED
    BY <1>2, <1>t, <2>3 DEF Begin
<1>3. ASSUME NEW s \in Services, NEW conds, MarkTrue(s, conds) PROVE local' \in [Services -> LocalType]
  BY <1>t, <1>3 DEF MarkTrue, LocalType
<1>4. ASSUME NEW s \in Services, NEW cond \in Conditions, MarkFalse(s, cond)
      PROVE  local' \in [Services -> LocalType]
  BY <1>t, <1>4 DEF MarkFalse, LocalType
<1>5. ASSUME NEW s \in Services, NeedInput(s) PROVE local' \in [Services -> LocalType]
  <2>1. Head(todo[s]) \in StepType /\ Head(todo[s]).op = "need"
    BY <1>5, Onwards DEF NeedInput, At, Types, WorkTypes
  <2>2. Head(todo[s]).cond \in Conditions
    BY <2>1 DEF StepType
  <2>. QED
    BY <1>3, <1>4, <1>5, <2>2 DEF NeedInput
<1>6. ASSUME NEW s \in Services, TakeTopology(s) PROVE local' \in [Services -> LocalType]
  <2>1. local[s].spec.topo \in Refs /\ NoTopology \in Refs
    BY <1>t, Constants DEF LocalType, Spec_
  <2>2. "Topology" \in Conditions /\ local[s] \in LocalType
    BY <1>t DEF Conditions
  <2>3. CASE local' = [local EXCEPT ![s].topo = NoTopology]
    BY <1>t, <2>1, <2>2, <2>3 DEF LocalType
  <2>4. CASE local' = [local EXCEPT ![s].topo = local[s].spec.topo, ![s].pending = @ \ {"Topology"}]
    <3> DEFINE r == [local[s] EXCEPT !.topo = local[s].spec.topo, !.pending = @ \ {"Topology"}]
    <3>1. r \in LocalType
      BY <2>1, <2>2 DEF LocalType
    <3>2. local' = [local EXCEPT ![s] = r]
      BY <1>t, <2>4
    <3>. QED
      BY <1>t, <3>1, <3>2
  <2>5. CASE MarkFalse(s, "Topology")
    BY <1>4, <2>2, <2>5
  <2>. QED
    BY <1>6, <2>3, <2>4, <2>5 DEF TakeTopology
<1>7. ASSUME NEW s \in Services, Observe(s) \/ DropFinalizer(s)
      PROVE  local' \in [Services -> LocalType]
  <2>1. CASE Observe(s)
    BY <1>t, <2>1 DEF Observe, LocalType
  <2>2. CASE DropFinalizer(s)
    BY <1>t, <2>2 DEF DropFinalizer, LocalType
  <2>. QED
    BY <1>7, <2>1, <2>2
<1>8. ASSUME NEW s \in Services, Patch(s) \/ PatchFails(s) \/ Restart PROVE local' \in [Services -> LocalType]
  BY <1>8, <1>t, Constants DEF Patch, PatchFails, Restart
<1>9. \/ UNCHANGED local
      \/ Restart
      \/ \E s \in Services : Edit(s) \/ Begin(s) \/ NeedInput(s) \/ TakeTopology(s) \/ Observe(s)
            \/ DropFinalizer(s) \/ Patch(s) \/ PatchFails(s)
      \/ \E s \in Services : \/ \E conds : MarkTrue(s, conds)
                             \/ MarkFalse(s, "Memcached")
  BY DEF Next, vars, crVars, workVars, heldVars, podVars, boundVars, User, Fault, Delete,
     DeleteMemcached, DeleteTopology, Arrives, RollOut, JobDone, EndpointReady, CallFails, ErrorIgnored,
     Reconcile, MakeObject, EnsureMemcached, HoldIt,
     LeaveTopology, SyncDB, EnsureStatefulSet, RolledOut, WhenDeployed, IfDeployed,
     EnsureEndpoint, CleanRecords, DropEndpoint, ReleaseMemcached, DropTopology
<1>10. "Memcached" \in Conditions
  BY DEF Conditions
<1>11. Restart => Services # {}
  BY DEF Restart
<1>. QED
  BY <1>1, <1>2, <1>3, <1>4, <1>5, <1>6, <1>7, <1>8, <1>9, <1>10, <1>11, <1>t

(* The turn of one reconcile.                                              *)
Proceeds(s) ==
    \/ Begin(s) /\ cr[s].life # "gone" /\ todo'[s] = Program(s)
    \/ \E op : At(s, op) /\ todo'[s] \in {Tail(todo[s]), Save}
    \/ At(s, "ifDeployed") /\ todo'[s] = <<Do("observe")>> \o Save
    \/ At(s, "patch") /\ todo'[s] = <<>> /\ local'[s] = Idle
Turns(s) ==
    /\ todo' = [todo EXCEPT ![s] = todo'[s]]
    /\ local' = [local EXCEPT ![s] = local'[s]]
    /\ Proceeds(s)

LEMMA EachTurn ==
  ASSUME Types, [Next]_vars
  PROVE  \/ UNCHANGED <<todo, local>>
         \/ Restart
         \/ \E s \in Services : Edit(s)
         \/ \E s \in Services : Turns(s)
<1>t. todo \in [Services -> Seq(StepType)] /\ local \in [Services -> LocalType]
  BY DEF Types, WorkTypes
<1>g. ASSUME NEW s \in Services, NEW op, At(s, op), GoOn(s) \/ End(s),
             UNCHANGED local \/ \E r : local' = [local EXCEPT ![s] = r]
      PROVE  Turns(s)
  <2>1. local' = [local EXCEPT ![s] = local'[s]]
    BY <1>g, <1>t
  <2>2. todo' = [todo EXCEPT ![s] = todo'[s]] /\ todo'[s] \in {Tail(todo[s]), Save}
    BY <1>g, <1>t DEF GoOn, End
  <2>. QED
    BY <1>g, <2>1, <2>2 DEF Turns, Proceeds
<1>m. ASSUME NEW s \in Services, \/ UNCHANGED local
                                 \/ \E conds : MarkTrue(s, conds)
                                 \/ \E cond : MarkFalse(s, cond)
      PROVE  UNCHANGED local \/ \E r : local' = [local EXCEPT ![s] = r]
  BY <1>m, <1>t DEF MarkTrue, MarkFalse
<1>1. CASE \/ UNCHANGED vars
           \/ \E s \in Services : Delete(s) \/ RollOut(s) \/ JobDone(s) \/ EndpointReady(s)
           \/ DeleteMemcached \/ \E t \in TopologyCRs : DeleteTopology(t)
           \/ \E i \in Inputs : Arrives(i)
  BY <1>1 DEF vars, workVars, Delete, RollOut, JobDone, EndpointReady, DeleteMemcached,
     DeleteTopology, Arrives
<1>2. ASSUME NEW s \in Services, CallFails(s) \/ ErrorIgnored(s) PROVE Turns(s)
  <2>1. CASE CallFails(s)
    <3>1. At(s, Head(todo[s]).op) /\ End(s) /\ UNCHANGED local
      BY <2>1 DEF CallFails, At
    <3>. QED
      BY <1>g, <3>1
  <2>2. CASE ErrorIgnored(s)
    <3>1. /\ At(s, "tryDropMemcached") \/ At(s, "cleanRecords")
          /\ GoOn(s) /\ UNCHANGED local
      BY <2>2 DEF ErrorIgnored
    <3>. QED
      BY <1>g, <3>1
  <2>. QED
    BY <1>2, <2>1, <2>2
<1>3. ASSUME NEW s \in Services, PatchFails(s) \/ Patch(s) PROVE Turns(s)
  <2>1. At(s, "patch") /\ todo' = [todo EXCEPT ![s] = <<>>] /\ local' = [local EXCEPT ![s] = Idle]
    BY <1>3 DEF PatchFails, Patch
  <2>. QED
    BY <2>1, <1>t DEF Turns, Proceeds
<1>4. ASSUME NEW s \in Services, Begin(s) PROVE Turns(s) \/ UNCHANGED <<todo, local>>
  <2>1. CASE cr[s].life = "gone"
    BY <1>4, <2>1 DEF Begin
  <2>2. CASE cr[s].life # "gone"
    <3>1. /\ todo' = [todo EXCEPT ![s] = Program(s)]
          /\ \E r : local' = [local EXCEPT ![s] = r]
      BY <1>4, <2>2 DEF Begin
    <3>. QED
      BY <1>4, <2>2, <3>1, <1>t DEF Turns, Proceeds
  <2>. QED
    BY <2>1, <2>2
<1>5. ASSUME NEW s \in Services,
             \/ NeedInput(s) \/ MakeObject(s) \/ EnsureMemcached(s) \/ HoldIt(s) \/ LeaveTopology(s)
             \/ SyncDB(s) \/ EnsureStatefulSet(s) \/ RolledOut(s) \/ WhenDeployed(s) \/ EnsureEndpoint(s)
             \/ CleanRecords(s) \/ DropEndpoint(s) \/ ReleaseMemcached(s) \/ DropTopology(s)
      PROVE  Turns(s)
  <2>1. \E op : At(s, op)
    BY <1>5 DEF NeedInput, MakeObject, EnsureMemcached, HoldIt, LeaveTopology, SyncDB,
       EnsureStatefulSet, RolledOut, WhenDeployed, EnsureEndpoint, CleanRecords, DropEndpoint,
       ReleaseMemcached, DropTopology
  <2>2. GoOn(s) \/ End(s)
    BY <1>5 DEF NeedInput, MakeObject, EnsureMemcached, HoldIt, LeaveTopology, SyncDB,
       EnsureStatefulSet, RolledOut, WhenDeployed, EnsureEndpoint, CleanRecords, DropEndpoint,
       ReleaseMemcached, DropTopology
  <2>3. \/ UNCHANGED local \/ \E conds : MarkTrue(s, conds)
        \/ \E cond : MarkFalse(s, cond)
    BY <1>5 DEF NeedInput, MakeObject, EnsureMemcached, HoldIt, LeaveTopology, SyncDB,
       EnsureStatefulSet, RolledOut, WhenDeployed, EnsureEndpoint, CleanRecords, DropEndpoint,
       ReleaseMemcached, DropTopology
  <2>. QED
    BY <1>g, <1>m, <2>1, <2>2, <2>3
<1>6. ASSUME NEW s \in Services, TakeTopology(s) \/ Observe(s) \/ DropFinalizer(s) PROVE Turns(s)
  <2>1. \E op : At(s, op)
    BY <1>6 DEF TakeTopology, Observe, DropFinalizer
  <2>2. GoOn(s) \/ End(s)
    BY <1>6 DEF TakeTopology, Observe, DropFinalizer
  <2>3. \E r : local' = [local EXCEPT ![s] = r]
    BY <1>6, <1>t DEF TakeTopology, Observe, DropFinalizer, MarkFalse
  <2>. QED
    BY <1>g, <2>1, <2>2, <2>3
<1>7. ASSUME NEW s \in Services, IfDeployed(s) PROVE Turns(s)
  <2>1. At(s, "ifDeployed") /\ UNCHANGED local
    BY <1>7 DEF IfDeployed
  <2>2. CASE GoOn(s)
    BY <1>g, <2>1, <2>2
  <2>3. CASE todo' = [todo EXCEPT ![s] = <<Do("observe")>> \o Save]
    BY <2>1, <2>3, <1>t DEF Turns, Proceeds
  <2>. QED
    BY <1>7, <2>2, <2>3 DEF IfDeployed
<1>8. ASSUME NEW s \in Services, Reconcile(s) PROVE Turns(s) \/ UNCHANGED <<todo, local>>
  BY <1>3, <1>4, <1>5, <1>6, <1>7, <1>8 DEF Reconcile
<1>. QED
  BY <1>1, <1>2, <1>3, <1>8 DEF Next, User, Fault

LEMMA ObservePlan == \A k : IsPlan(<<Do("observe")>> \o Save, k, {"observe", "patch"})
<1> SUFFICES ASSUME NEW k PROVE IsPlan(<<Do("observe")>> \o Save, k, {"observe", "patch"})
  OBVIOUS
<1>1. IsPlan(<<Do("observe")>>, k, {"observe"})
  BY Dos, OneStep
<1>2. InTurn({"observe"}, {"patch"}, k) /\ {"observe", "patch"} = {"observe"} \cup {"patch"}
  BY DEF InTurn, Precedes
<1>. QED
  BY <1>1, <1>2, SavePlan, PlanConcat

(* The steps ahead after the turn of s.                                    *)
LEMMA TurnPlan ==
  ASSUME Types, NEW s \in Services, Turns(s), kind' = kind
  PROVE  /\ PlanInv(s)' /\ todo'[s] \in Seq(StepType)
         /\ \/ /\ Begin(s) /\ cr[s].life # "gone" /\ todo'[s] = Program(s)
               /\ Ops(todo'[s]) = IF cr[s].life = "deleting" THEN DropOps(kind[s]) \cup {"patch"}
                                  ELSE IF AddsFinalizer(s) THEN {"patch"}
                                  ELSE MainOps(kind[s]) \cup {"patch"}
            \/ \E op : At(s, op) /\ todo'[s] = Tail(todo[s]) /\ Ops(todo[s]) = Ops(todo'[s]) \cup {op}
            \/ /\ Busy(s) /\ todo'[s] = Save /\ Ops(todo'[s]) = {"patch"}
            \/ /\ At(s, "ifDeployed") /\ kind[s] = "CyborgAPI" /\ Ops(todo'[s]) = {"observe", "patch"}
               /\ todo'[s] = <<Do("observe")>> \o Save
            \/ At(s, "patch") /\ todo'[s] = <<>> /\ Ops(todo'[s]) = {} /\ local'[s] = Idle
<1>t. PlanInv(s) /\ kind[s] \in Kinds
  BY KindIs DEF Types, WorkTypes
<1>1. CASE Begin(s) /\ cr[s].life # "gone" /\ todo'[s] = Program(s)
  BY <1>1, <1>t, ProgramPlan DEF PlanInv, IsPlan
<1>2. CASE \E op : At(s, op) /\ todo'[s] = Tail(todo[s])
  <2>1. PICK op : At(s, op) /\ todo'[s] = Tail(todo[s])
    BY <1>2
  <2>2. /\ Ops(todo[s]) = Ops(todo'[s]) \cup {op}
        /\ todo'[s] \in Seq(StepType) /\ InOrder(todo'[s], kind[s])
    BY <2>1, <1>t, Onwards
  <2>3. PlanInv(s)'
    BY <1>t, <2>2 DEF PlanInv
  <2>. QED
    BY <2>1, <2>2, <2>3
<1>3. CASE todo'[s] = Save /\ Busy(s)
  BY <1>3, SavePlan DEF PlanInv, IsPlan
<1>4. CASE At(s, "ifDeployed") /\ todo'[s] = <<Do("observe")>> \o Save
  <2>1. "ifDeployed" \in MainOps(kind[s]) \cup DropOps(kind[s])
    BY <1>4, <1>t, Onwards
  <2>2. kind[s] = "CyborgAPI"
    BY <2>1 DEF MainOps, DropOps
  <2>3. "observe" \in MainOps(kind[s])
    BY <2>2 DEF MainOps, CyborgKinds
  <2>. QED
    BY <1>4, <2>2, <2>3, ObservePlan DEF PlanInv, IsPlan
<1>5. CASE At(s, "patch") /\ todo'[s] = <<>> /\ local'[s] = Idle
  BY <1>5, NothingAhead DEF PlanInv
<1>. QED
  BY <1>1, <1>2, <1>3, <1>4, <1>5 DEF Turns, Proceeds, Busy, At

LEMMA WorkTypesStep == Types /\ [Next]_vars => WorkTypes'
<1> SUFFICES ASSUME Types, [Next]_vars PROVE WorkTypes'
  OBVIOUS
<1>t. todo \in [Services -> Seq(StepType)] /\ kind' = kind /\ \A s \in Services : PlanInv(s)
  BY Frame DEF Types, WorkTypes
<1>1. todo' \in [Services -> Seq(StepType)] /\ \A s \in Services : PlanInv(s)'
  <2>1. CASE UNCHANGED todo
    BY <1>t, <2>1 DEF PlanInv
  <2>2. CASE Restart
    BY <1>t, <2>2, NothingAhead DEF Restart, PlanInv
  <2>3. ASSUME NEW s \in Services, Turns(s)
        PROVE  todo' \in [Services -> Seq(StepType)] /\ \A t \in Services : PlanInv(t)'
    <3>1. PlanInv(s)' /\ todo'[s] \in Seq(StepType)
      BY <1>t, <2>3, TurnPlan
    <3>2. todo' = [todo EXCEPT ![s] = todo'[s]]
      BY <2>3 DEF Turns
    <3>3. \A t \in Services \ {s} : todo'[t] = todo[t]
      BY <3>2, <1>t
    <3>. QED
      BY <1>t, <3>1, <3>2, <3>3 DEF PlanInv
  <2>4. CASE \E s \in Services : Edit(s)
    BY <1>t, <2>1, <2>4 DEF Edit
  <2>. QED
    BY <2>1, <2>2, <2>3, <2>4, EachTurn
<1>2. queue' \subseteq Services
  <2>1. queue \subseteq Services /\ \A S \in SUBSET Services : Wake(S) => queue' \subseteq Services
    BY DEF Types, WorkTypes, Wake
  <2>2. MemcachedWatchers \subseteq Services
    BY DEF MemcachedWatchers
  <2>3. CASE \E s \in Services : queue' \in {queue, queue \cup {s}, queue \ {s}} \/ Wake({s})
    BY <2>1, <2>3
  <2>4. CASE Wake(MemcachedWatchers) \/ Wake(Services)
    BY <2>1, <2>2, <2>4
  <2>5. CASE \E t \in TopologyCRs : DeleteTopology(t)
    BY <2>1, <2>5 DEF DeleteTopology
  <2>6. CASE \E i \in Inputs : Arrives(i)
    BY <2>1, <2>6 DEF Arrives
  <2>7. CASE UNCHANGED vars
    BY <2>1, <2>7 DEF vars, workVars
  <2>8. ASSUME NEW s \in Services,
               \/ Edit(s) \/ Delete(s) \/ CallFails(s) \/ ErrorIgnored(s) \/ PatchFails(s) \/ RollOut(s)
               \/ JobDone(s) \/ EndpointReady(s)
        PROVE  queue' \in {queue, queue \cup {s}, queue \ {s}} \/ Wake({s})
    BY <2>8 DEF Edit, Delete, CallFails, ErrorIgnored, PatchFails, RollOut, JobDone, EndpointReady,
       Retry
  <2>9. ASSUME NEW s \in Services, Reconcile(s)
        PROVE  queue' \in {queue, queue \cup {s}, queue \ {s}} \/ Wake({s}) \/ Wake(MemcachedWatchers)
    <3>1. CASE Begin(s) \/ NeedInput(s) \/ MakeObject(s) \/ EnsureMemcached(s) \/ HoldIt(s)
               \/ LeaveTopology(s) \/ TakeTopology(s) \/ SyncDB(s) \/ EnsureStatefulSet(s)
      BY <3>1 DEF Begin, NeedInput, MakeObject, EnsureMemcached, HoldIt, LeaveTopology, TakeTopology,
         SyncDB, EnsureStatefulSet, Retry
    <3>2. CASE \/ RolledOut(s) \/ WhenDeployed(s) \/ IfDeployed(s) \/ Observe(s)
               \/ EnsureEndpoint(s) \/ CleanRecords(s) \/ DropEndpoint(s) \/ ReleaseMemcached(s)
               \/ DropTopology(s) \/ DropFinalizer(s) \/ Patch(s)
      BY <3>2 DEF RolledOut, WhenDeployed, IfDeployed, Observe, EnsureEndpoint, CleanRecords,
         DropEndpoint, ReleaseMemcached, DropTopology, DropFinalizer, Patch, Retry
    <3>. QED
      BY <2>9, <3>1, <3>2 DEF Reconcile
  <2>10. DeleteMemcached => Wake(MemcachedWatchers)
    BY DEF DeleteMemcached
  <2>11. Restart => Wake(Services)
    BY DEF Restart
  <2>. QED
    BY <2>3, <2>4, <2>5, <2>6, <2>7, <2>8, <2>9, <2>10, <2>11 DEF Next, User, Fault
<1>. QED
  BY <1>1, <1>2, LocalTypesStep DEF WorkTypes

LEMMA HeldTypesStep == Types /\ [Next]_vars => HeldTypes'
<1> SUFFICES ASSUME Types, [Next]_vars PROVE HeldTypes'
  OBVIOUS
<1>t. /\ inputs \subseteq Inputs
      /\ memcached \in [life : Life, fins : SUBSET Kinds]
      /\ topology \in [TopologyCRs -> [life : Life, fins : SUBSET Services]]
      /\ \A t \in TopologyCRs : topology[t].life = "gone" => topology[t].fins = {}
      /\ endpoint \in [Services -> [life : Life, fin : BOOLEAN, ready : BOOLEAN]]
      /\ local \in [Services -> LocalType]
  BY DEF Types, HeldTypes, WorkTypes
<1>l. Life = {"live", "deleting", "gone"}
  BY DEF Life
<1>1. inputs' \subseteq Inputs
  BY <1>t, Frame DEF Arrives
<1>2. memcached' \in [life : Life, fins : SUBSET Kinds]
  <2>1. ASSUME NEW S \in SUBSET Kinds
        PROVE  WithFins(memcached, S) \in [life : Life, fins : SUBSET Kinds]
    BY <1>t, <1>l DEF WithFins
  <2>2. CASE DeleteMemcached
    <3>1. [memcached EXCEPT !.life = "deleting"] \in [life : Life, fins : SUBSET Kinds]
      BY <1>t, <1>l
    <3>. QED
      BY <2>2, <3>1, <1>t, <1>l DEF DeleteMemcached, Deleted, WithFins
  <2>3. CASE \E s \in Services : HoldIt(s)
    BY <2>3, <1>t, KindIs DEF HoldIt
  <2>4. CASE \E s \in Services : ReleaseMemcached(s)
    BY <2>4, <1>t, <2>1 DEF ReleaseMemcached
  <2>. QED
    BY <1>t, <2>2, <2>3, <2>4, Frame
<1>3. /\ topology' \in [TopologyCRs -> [life : Life, fins : SUBSET Services]]
      /\ \A t \in TopologyCRs : topology'[t].life = "gone" => topology'[t].fins = {}
  <2> DEFINE Obj == { x \in [life : Life, fins : SUBSET Services] : x.life = "gone" => x.fins = {} }
  <2>o. \A x : x \in Obj <=> x \in [life : Life, fins : SUBSET Services]
                              /\ (x.life = "gone" => x.fins = {})
    OBVIOUS
  <2>3. topology \in [TopologyCRs -> Obj]
    BY <1>t
  <2> HIDE DEF Obj
  <2>1. ASSUME NEW x \in Obj, NEW S \in SUBSET Services
        PROVE  WithFins(x, x.fins \ S) \in Obj
    BY <1>l, <2>o DEF WithFins
  <2>2. ASSUME NEW x \in Obj PROVE Deleted(x) \in Obj
    <3>1. [x EXCEPT !.life = "deleting"] \in Obj
      BY <1>l, <2>o
    <3>2. WithFins([x EXCEPT !.life = "deleting"], x.fins)
            = WithFins([x EXCEPT !.life = "deleting"], [x EXCEPT !.life = "deleting"].fins \ {})
      OBVIOUS
    <3>. QED
      BY <3>1, <3>2, <2>1 DEF Deleted
  <2>4. ASSUME NEW t \in TopologyCRs, NEW x \in Obj, topology' = [topology EXCEPT ![t] = x]
        PROVE  topology' \in [TopologyCRs -> Obj]
    BY <2>3, <2>4
  <2>5. ASSUME NEW t \in TopologyCRs, DeleteTopology(t) PROVE topology' \in [TopologyCRs -> Obj]
    BY <2>2, <2>3, <2>4, <2>5 DEF DeleteTopology
  <2>6. ASSUME NEW s \in Services, LeaveTopology(s) \/ DropTopology(s)
        PROVE  topology' \in [TopologyCRs -> Obj]
    <3>1. local[s].topo \in Refs
      BY <1>t DEF LocalType
    <3>2. \/ UNCHANGED topology
          \/ \E t \in TopologyCRs :
                topology' = [topology EXCEPT ![t] = WithFins(topology[t], topology[t].fins \ {s})]
      BY <2>6, <3>1, <2>3 DEF LeaveTopology, DropTopology, Refs
    <3>3. \A t \in TopologyCRs : WithFins(topology[t], topology[t].fins \ {s}) \in Obj
      BY <2>1, <2>3
    <3>. QED
      BY <2>3, <2>4, <3>2, <3>3
  <2>7. ASSUME NEW s \in Services, TakeTopology(s) PROVE topology' \in [TopologyCRs -> Obj]
    <3>1. local[s].spec.topo \in Refs
      BY <1>t DEF LocalType, Spec_
    <3> DEFINE t == local[s].spec.topo
    <3>2. CASE UNCHANGED topology
      BY <2>3, <3>2
    <3>3. CASE /\ t # NoTopology
               /\ topology[t].life = "live" \/ s \in topology[t].fins
               /\ topology' = [topology EXCEPT ![t].fins = @ \cup {s}]
      <4>1. t \in TopologyCRs /\ topology[t] \in Obj
        BY <2>3, <3>1, <3>3 DEF Refs
      <4>2. [topology[t] EXCEPT !.fins = @ \cup {s}] \in Obj
        BY <4>1, <3>3, <2>o, <1>l
      <4>3. topology' = [topology EXCEPT ![t] = [topology[t] EXCEPT !.fins = @ \cup {s}]]
        BY <3>3, <4>1, <2>3
      <4>. QED
        BY <4>1, <4>2, <4>3, <2>4
    <3>. QED
      BY <2>7, <3>2, <3>3 DEF TakeTopology
  <2>8. topology' \in [TopologyCRs -> Obj]
    BY <2>3, <2>5, <2>6, <2>7, Frame
  <2>9. \A t \in TopologyCRs : topology'[t] \in Obj
    BY <2>8
  <2>10. topology' \in [TopologyCRs -> [life : Life, fins : SUBSET Services]]
    <3>1. Obj \subseteq [life : Life, fins : SUBSET Services]
      BY <2>o
    <3>. QED
      BY <2>8, <3>1
  <2>. QED
    BY <2>9, <2>10, <2>o
<1>4. endpoint' \in [Services -> [life : Life, fin : BOOLEAN, ready : BOOLEAN]]
  <2>1. ASSUME NEW s \in Services, Collect(s)
        PROVE  endpoint' \in [Services -> [life : Life, fin : BOOLEAN, ready : BOOLEAN]]
    BY <2>1, <1>t, <1>l DEF Collect
  <2>2. ASSUME NEW s \in Services, EndpointReady(s) \/ EnsureEndpoint(s) \/ DropEndpoint(s)
        PROVE  endpoint' \in [Services -> [life : Life, fin : BOOLEAN, ready : BOOLEAN]]
    <3>1. CASE EndpointReady(s)
      BY <3>1, <1>t DEF EndpointReady
    <3>2. CASE EnsureEndpoint(s)
      <4>1. endpoint' \in {[endpoint EXCEPT ![s] = [endpoint[s] EXCEPT !.fin = TRUE]],
                           [endpoint EXCEPT ![s] = [endpoint[s] EXCEPT !.life = "live", !.fin = TRUE]]}
        BY <3>2, <1>t DEF EnsureEndpoint
      <4>2. ASSUME NEW x \in [life : Life, fin : BOOLEAN, ready : BOOLEAN]
            PROVE  /\ [x EXCEPT !.fin = TRUE] \in [life : Life, fin : BOOLEAN, ready : BOOLEAN]
                   /\ [x EXCEPT !.life = "live", !.fin = TRUE]
                        \in [life : Life, fin : BOOLEAN, ready : BOOLEAN]
        BY <1>l
      <4>3. endpoint[s] \in [life : Life, fin : BOOLEAN, ready : BOOLEAN]
        BY <1>t
      <4>. QED
        BY <4>1, <4>2, <4>3, <1>t
    <3>3. CASE DropEndpoint(s)
      BY <3>3, <1>t DEF DropEndpoint
    <3>. QED
      BY <2>2, <3>1, <3>2, <3>3
  <2>3. ASSUME NEW s \in Services, Delete(s) \/ Patch(s) PROVE UNCHANGED endpoint \/ Collect(s)
    BY <2>3 DEF Delete, Patch
  <2>. QED
    BY <1>t, <2>1, <2>2, <2>3, Frame
<1>. QED
  BY <1>1, <1>2, <1>3, <1>4 DEF HeldTypes

LEMMA PodTypesStep == Types /\ [Next]_vars => PodTypes'
<1> SUFFICES ASSUME Types, [Next]_vars PROVE PodTypes'
  OBVIOUS
<1>t. /\ sts \in [Services -> Spec_] /\ running \in [Services -> Spec_]
      /\ records \in [Services -> SUBSET (0 .. (MaxReplicas - 1))]
      /\ ignored \subseteq Services /\ local \in [Services -> LocalType]
  BY DEF Types, PodTypes, WorkTypes
<1>0. ASSUME NEW s \in Services, Delete(s) \/ Patch(s)
      PROVE  UNCHANGED <<sts, running>> \/ Collect(s)
  BY <1>0 DEF Delete, Patch
<1>1. sts' \in [Services -> Spec_]
  <2>1. ASSUME NEW s \in Services, EnsureStatefulSet(s) PROVE sts' \in [Services -> Spec_]
    BY <1>t, <2>1 DEF EnsureStatefulSet, LocalType
  <2>. QED
    BY <1>t, <1>0, <2>1, Constants, Frame DEF Collect
<1>2. running' \in [Services -> Spec_]
  <2>1. ASSUME NEW s \in Services, RollOut(s) PROVE running' \in [Services -> Spec_]
    BY <1>t, <2>1 DEF RollOut
  <2>. QED
    BY <1>t, <1>0, <2>1, Constants, Frame DEF Collect
<1>3. records' \in [Services -> SUBSET (0 .. (MaxReplicas - 1))]
  <2>1. ASSUME NEW s \in Services, RollOut(s)
        PROVE  records' \in [Services -> SUBSET (0 .. (MaxReplicas - 1))]
    <3>1. sts[s].replicas \in 0 .. MaxReplicas
      BY <1>t DEF Spec_
    <3>2. 0 .. (sts[s].replicas - 1) \subseteq 0 .. (MaxReplicas - 1)
      BY <3>1, Constants
    <3>. QED
      BY <1>t, <2>1, <3>2 DEF RollOut
  <2>2. ASSUME NEW s \in Services, CleanRecords(s)
        PROVE  records' \in [Services -> SUBSET (0 .. (MaxReplicas - 1))]
    BY <1>t, <2>2 DEF CleanRecords
  <2>. QED
    BY <1>t, <2>1, <2>2, Frame
<1>4. ignored' \subseteq Services
  BY <1>t, Frame DEF ErrorIgnored
<1>. QED
  BY <1>1, <1>2, <1>3, <1>4 DEF PodTypes

LEMMA TypesStep == Types /\ [Next]_vars => Types'
  BY CRTypesStep, WorkTypesStep, HeldTypesStep, PodTypesStep DEF Types

LEMMA TypesGiveTypeOK == Types => TypeOK
<1> SUFFICES ASSUME Types PROVE TypeOK
  OBVIOUS
<1>1. \A s \in Services :
          /\ cr[s].life \in Life /\ cr[s].fin \in BOOLEAN /\ cr[s].spec \in Spec_
          /\ status[s].topo \in Refs /\ status[s].seen \in BOOLEAN
          /\ records[s] \subseteq 0 .. (MaxReplicas - 1)
          /\ {sts[s], running[s]} \subseteq Spec_
  BY DEF Types, CRTypes, CRType, StatusType, PodTypes
<1>2. /\ memcached.life \in Life /\ memcached.fins \subseteq Kinds
      /\ \A t \in TopologyCRs : topology[t].life \in Life /\ topology[t].fins \subseteq Services
  BY DEF Types, HeldTypes
<1>. QED
  BY <1>1, <1>2 DEF Types, CRTypes, WorkTypes, HeldTypes, TypeOK

-----------------------------------------------------------------------------
(* Who changes what of a CR.                                               *)
Held(t) ==
    \A x \in TopologyCRs : t \in topology'[x].fins <=> t \in topology[x].fins
Same(t) ==
    /\ kind'[t] = kind[t] /\ cr'[t] = cr[t] /\ status'[t] = status[t]
    /\ todo'[t] = todo[t] /\ local'[t] = local[t]
    /\ endpoint'[t].fin = endpoint[t].fin
    /\ sts'[t] = sts[t] /\ running'[t] = running[t]
    /\ Held(t)

(* A step of the reconcile of s, or a call of it that fails.               *)
Steps_(s) ==
    \/ NeedInput(s) \/ MakeObject(s) \/ EnsureMemcached(s) \/ HoldIt(s)
    \/ LeaveTopology(s) \/ TakeTopology(s) \/ SyncDB(s) \/ EnsureStatefulSet(s)
    \/ RolledOut(s) \/ WhenDeployed(s) \/ IfDeployed(s) \/ Observe(s)
    \/ EnsureEndpoint(s) \/ CleanRecords(s) \/ DropEndpoint(s) \/ ReleaseMemcached(s)
    \/ DropTopology(s) \/ DropFinalizer(s) \/ CallFails(s) \/ ErrorIgnored(s)
Acts(s) ==
    \/ Edit(s) \/ Delete(s) \/ RollOut(s) \/ JobDone(s) \/ EndpointReady(s)
    \/ Begin(s) \/ Patch(s) \/ PatchFails(s) \/ Steps_(s)
Elsewhere ==
    \/ DeleteMemcached \/ (\E t \in TopologyCRs : DeleteTopology(t))
    \/ (\E i \in Inputs : Arrives(i)) \/ UNCHANGED vars

LEMMA Actors ==
  ASSUME [Next]_vars
  PROVE  (\E s \in Services : Acts(s)) \/ Restart \/ Elsewhere
  BY DEF Next, User, Fault, Reconcile, Acts, Steps_, Elsewhere

LEMMA StepAtOne ==
  ASSUME NEW s \in Services, Steps_(s)
  PROVE  \E op : At(s, op) /\ op # "patch"
<1>1. CASE CallFails(s)
  <2>1. At(s, Head(todo[s]).op) /\ "patch" \notin Writes
    BY <1>1 DEF CallFails, At, Writes
  <2>. QED
    BY <1>1, <2>1 DEF CallFails
<1>2. CASE ErrorIgnored(s)
  BY <1>2 DEF ErrorIgnored
<1>3. CASE \/ NeedInput(s) \/ MakeObject(s) \/ EnsureMemcached(s) \/ HoldIt(s)
           \/ LeaveTopology(s) \/ TakeTopology(s) \/ SyncDB(s) \/ EnsureStatefulSet(s)
           \/ RolledOut(s) \/ WhenDeployed(s) \/ IfDeployed(s) \/ Observe(s)
           \/ EnsureEndpoint(s) \/ CleanRecords(s) \/ DropEndpoint(s) \/ ReleaseMemcached(s)
           \/ DropTopology(s) \/ DropFinalizer(s)
  BY <1>3 DEF NeedInput, MakeObject, EnsureMemcached, HoldIt, LeaveTopology, TakeTopology, SyncDB,
     EnsureStatefulSet, RolledOut, WhenDeployed, IfDeployed, Observe, EnsureEndpoint, CleanRecords,
     DropEndpoint, ReleaseMemcached, DropTopology, DropFinalizer
<1>. QED
  BY <1>1, <1>2, <1>3 DEF Steps_

(* What a step leaves as it is.                                            *)
Earns(s, cond) == cond \in local[s].pending => cond \in local'[s].pending
Leaves(s) ==
    /\ kind' = kind /\ cr' = cr /\ status' = status /\ running' = running
    /\ todo' = [todo EXCEPT ![s] = todo'[s]] /\ local' = [local EXCEPT ![s] = local'[s]]
    /\ local'[s].spec = local[s].spec /\ local'[s].fresh = local[s].fresh
    /\ local'[s].fin = local[s].fin \/ DropFinalizer(s)
    /\ local'[s].topo = local[s].topo \/ TakeTopology(s)
    /\ local'[s].pending \subseteq local[s].pending \/ todo'[s] = Save
    /\ Earns(s, "Deployment") \/ RolledOut(s)
    /\ Earns(s, "Topology") \/ TakeTopology(s)
    /\ Earns(s, "KeystoneEndpoint") \/ EnsureEndpoint(s)
    /\ endpoint' = endpoint \/ EnsureEndpoint(s) \/ DropEndpoint(s)
    /\ sts' = sts \/ EnsureStatefulSet(s)
    /\ topology' = topology \/ LeaveTopology(s) \/ TakeTopology(s) \/ DropTopology(s)
    /\ memcached' = memcached \/ HoldIt(s) \/ ReleaseMemcached(s)
    /\ records' = records \/ CleanRecords(s)
    /\ ignored \subseteq ignored'

LEMMA StepLeaves ==
  ASSUME Types, NEW s \in Services, Steps_(s)
  PROVE  Leaves(s)
<1>t. /\ todo \in [Services -> Seq(StepType)] /\ local \in [Services -> LocalType]
      /\ local[s] \in LocalType
  BY DEF Types, WorkTypes
<1>a. ASSUME GoOn(s) \/ End(s) \/ \E r : todo' = [todo EXCEPT ![s] = r]
      PROVE  todo' = [todo EXCEPT ![s] = todo'[s]] /\ (End(s) => todo'[s] = Save)
  BY <1>a, <1>t DEF GoOn, End
<1>b. ASSUME NEW r \in LocalType, local' = [local EXCEPT ![s] = r]
      PROVE  local' = [local EXCEPT ![s] = local'[s]] /\ local'[s] = r
  BY <1>b, <1>t
<1>c. ASSUME UNCHANGED local PROVE local' = [local EXCEPT ![s] = local'[s]] /\ local'[s] = local[s]
  BY <1>c, <1>t
<1>d. ASSUME NEW conds, MarkTrue(s, conds)
      PROVE  /\ local' = [local EXCEPT ![s] = local'[s]]
             /\ local'[s].spec = local[s].spec /\ local'[s].fresh = local[s].fresh
             /\ local'[s].fin = local[s].fin /\ local'[s].topo = local[s].topo
             /\ local'[s].pending = local[s].pending \ conds
  BY <1>d, <1>t DEF MarkTrue, LocalType
<1>e. ASSUME NEW cond, MarkFalse(s, cond)
      PROVE  /\ local' = [local EXCEPT ![s] = local'[s]]
             /\ local'[s].spec = local[s].spec /\ local'[s].fresh = local[s].fresh
             /\ local'[s].fin = local[s].fin /\ local'[s].topo = local[s].topo
             /\ local[s].pending \subseteq local'[s].pending
  BY <1>e, <1>t DEF MarkFalse, LocalType
<1>1. CASE NeedInput(s) \/ MakeObject(s)
  <2>1. Head(todo[s]) \in StepType
    BY <1>1, Onwards DEF NeedInput, MakeObject, Types, WorkTypes
  <2>2. Head(todo[s]).then \cap Earned = {}
    BY <2>1 DEF StepType
  <2>3. \/ MarkTrue(s, Head(todo[s]).then) \/ \E cond : MarkFalse(s, cond)
    BY <1>1 DEF NeedInput, MakeObject
  <2>. QED
    BY <1>1, <1>a, <1>d, <1>e, <2>2, <2>3 DEF crVars, heldVars, podVars, boundVars, workVars,
       vars, NeedInput, MakeObject, Leaves, Earns, Earned
<1>2. CASE EnsureMemcached(s)
  BY <1>2, <1>a, <1>d, <1>e DEF crVars, heldVars, podVars, boundVars, workVars, vars,
     EnsureMemcached, Leaves, Earns
<1>3. CASE HoldIt(s)
  BY <1>3, <1>a, <1>c, <1>e DEF crVars, heldVars, podVars, boundVars, workVars, vars, HoldIt,
     Leaves, Earns
<1>4. CASE LeaveTopology(s) \/ DropTopology(s) \/ DropEndpoint(s) \/ ReleaseMemcached(s)
  BY <1>4, <1>a, <1>c DEF crVars, heldVars, podVars, boundVars, workVars, vars, LeaveTopology,
     DropTopology, DropEndpoint, ReleaseMemcached, Leaves, Earns
<1>5. CASE TakeTopology(s)
  <2>1. /\ local' = [local EXCEPT ![s] = local'[s]]
        /\ local'[s].spec = local[s].spec /\ local'[s].fresh = local[s].fresh
        /\ local'[s].fin = local[s].fin
        /\ local'[s].pending \subseteq local[s].pending \/ End(s)
        /\ Earns(s, "Deployment") /\ Earns(s, "KeystoneEndpoint")
    <3>1. CASE local' = [local EXCEPT ![s].topo = NoTopology]
      BY <1>t, <3>1 DEF LocalType, Earns
    <3>2. CASE local' = [local EXCEPT ![s].topo = local[s].spec.topo, ![s].pending = @ \ {"Topology"}]
      BY <1>t, <3>2 DEF LocalType, Earns
    <3>3. CASE End(s) /\ MarkFalse(s, "Topology")
      BY <1>e, <3>3 DEF Earns
    <3>. QED
      BY <1>5, <3>1, <3>2, <3>3 DEF TakeTopology
  <2>. QED
    BY <1>5, <1>a, <2>1 DEF crVars, heldVars, podVars, boundVars, workVars, vars, TakeTopology,
       Leaves
<1>6. CASE SyncDB(s)
  BY <1>6, <1>a, <1>c, <1>d DEF crVars, heldVars, podVars, boundVars, workVars, vars, SyncDB,
     Leaves, Earns
<1>7. CASE EnsureStatefulSet(s) \/ CleanRecords(s)
  BY <1>7, <1>a, <1>c DEF crVars, heldVars, podVars, boundVars, workVars, vars,
     EnsureStatefulSet, CleanRecords, Leaves, Earns
<1>8. CASE RolledOut(s)
  BY <1>8, <1>a, <1>c, <1>d DEF crVars, heldVars, podVars, boundVars, workVars, vars, RolledOut,
     Leaves, Earns
<1>9. CASE WhenDeployed(s) \/ IfDeployed(s)
  BY <1>9, <1>a, <1>c DEF crVars, heldVars, podVars, boundVars, workVars, vars, WhenDeployed,
     IfDeployed, Leaves, Earns
<1>10. CASE Observe(s)
  <2>1. [local[s] EXCEPT !.observed = TRUE] \in LocalType
    BY <1>t DEF LocalType
  <2>2. local' = [local EXCEPT ![s] = [local[s] EXCEPT !.observed = TRUE]]
    BY <1>10, <1>t DEF Observe
  <2>. QED
    BY <1>10, <1>a, <1>b, <2>1, <2>2, <1>t DEF crVars, heldVars, podVars, boundVars, workVars,
       vars, Observe, Leaves, Earns, LocalType
<1>11. CASE EnsureEndpoint(s)
  BY <1>11, <1>a, <1>c, <1>d DEF crVars, heldVars, podVars, boundVars, workVars, vars,
     EnsureEndpoint, Leaves, Earns
<1>12. CASE DropFinalizer(s)
  <2>1. [local[s] EXCEPT !.fin = FALSE] \in LocalType
    BY <1>t DEF LocalType
  <2>2. local' = [local EXCEPT ![s] = [local[s] EXCEPT !.fin = FALSE]]
    BY <1>12, <1>t DEF DropFinalizer
  <2>. QED
    BY <1>12, <1>a, <1>b, <2>1, <2>2, <1>t DEF crVars, heldVars, podVars, boundVars, workVars,
       vars, DropFinalizer, Leaves, Earns, LocalType
<1>13. CASE CallFails(s)
  BY <1>13, <1>a, <1>c DEF crVars, heldVars, podVars, boundVars, workVars, vars, CallFails,
     Leaves, Earns
<1>14. CASE ErrorIgnored(s)
  BY <1>14, <1>a, <1>c DEF crVars, heldVars, podVars, boundVars, workVars, vars, ErrorIgnored,
     Leaves, Earns
<1>. QED
  BY <1>1, <1>2, <1>3, <1>4, <1>5, <1>6, <1>7, <1>8, <1>9, <1>10, <1>11, <1>12, <1>13,
     <1>14 DEF Steps_

(* The finalizers on the Topology CRs, for others and for s.               *)
LEMMA TopologyFins ==
  ASSUME Types, NEW s \in Services, LeaveTopology(s) \/ TakeTopology(s) \/ DropTopology(s)
  PROVE  /\ \A t \in Services \ {s} : Held(t)
         /\ LeaveTopology(s) => \A x \in TopologyCRs :
               x = local[s].spec.topo \/ x # local[s].topo
                   => (s \in topology'[x].fins <=> s \in topology[x].fins)
         /\ DropTopology(s) => \A x \in TopologyCRs :
               /\ x # local[s].topo => (s \in topology'[x].fins <=> s \in topology[x].fins)
               /\ x = local[s].topo => s \notin topology'[x].fins
         /\ TakeTopology(s) => \A x \in TopologyCRs : s \in topology[x].fins => s \in topology'[x].fins
<1>t. /\ topology \in [TopologyCRs -> [life : Life, fins : SUBSET Services]]
      /\ local[s].topo \in Refs /\ local[s].spec.topo \in Refs
  BY DEF Types, HeldTypes, WorkTypes, LocalType, Spec_
<1>n. NoTopology \notin TopologyCRs
  BY Constants
<1>w. ASSUME NEW x \in TopologyCRs, NEW S PROVE WithFins(topology[x], S).fins = S
  BY DEF WithFins
<1>o. /\ LeaveTopology(s) => ~TakeTopology(s) /\ ~DropTopology(s)
      /\ TakeTopology(s) => ~DropTopology(s)
  BY DEF LeaveTopology, TakeTopology, DropTopology, At
<1>1. CASE LeaveTopology(s)
  <2> DEFINE last == local[s].topo
  <2>1. CASE UNCHANGED topology
    BY <1>1, <2>1, <1>n, <1>o DEF Held
  <2>2. CASE /\ last # NoTopology /\ last # local[s].spec.topo
             /\ topology' = [topology EXCEPT ![last] = WithFins(topology[last], topology[last].fins \ {s})]
    <3>1. last \in TopologyCRs
      BY <2>2, <1>t DEF Refs
    <3>2. \A x \in TopologyCRs : topology'[x].fins = IF x = last THEN topology[x].fins \ {s}
                                                     ELSE topology[x].fins
      BY <2>2, <3>1, <1>t, <1>w
    <3>. QED
      BY <1>1, <2>2, <3>2, <1>o DEF Held
  <2>. QED
    BY <1>1, <2>1, <2>2, <1>t DEF LeaveTopology
<1>2. CASE DropTopology(s)
  <2> DEFINE last == local[s].topo
  <2>1. CASE last = NoTopology /\ UNCHANGED topology
    BY <1>2, <2>1, <1>n, <1>o DEF Held
  <2>2. CASE /\ last # NoTopology
             /\ topology' = [topology EXCEPT ![last] = WithFins(topology[last], topology[last].fins \ {s})]
    <3>1. last \in TopologyCRs
      BY <2>2, <1>t DEF Refs
    <3>2. \A x \in TopologyCRs : topology'[x].fins = IF x = last THEN topology[x].fins \ {s}
                                                     ELSE topology[x].fins
      BY <2>2, <3>1, <1>t, <1>w
    <3>. QED
      BY <1>2, <2>2, <3>2, <1>o DEF Held
  <2>. QED
    BY <1>2, <2>1, <2>2, <1>t DEF DropTopology
<1>3. CASE TakeTopology(s)
  <2> DEFINE new == local[s].spec.topo
  <2>1. CASE UNCHANGED topology
    BY <1>3, <2>1, <1>o DEF Held
  <2>2. CASE /\ new # NoTopology
             /\ topology' = [topology EXCEPT ![new].fins = @ \cup {s}]
    <3>1. new \in TopologyCRs
      BY <2>2, <1>t DEF Refs
    <3>2. \A x \in TopologyCRs : topology'[x].fins = IF x = new THEN topology[x].fins \cup {s}
                                                     ELSE topology[x].fins
      BY <2>2, <3>1, <1>t
    <3>. QED
      BY <1>3, <2>2, <3>2, <1>o DEF Held
  <2>. QED
    BY <1>3, <2>1, <2>2 DEF TakeTopology
<1>. QED
  BY <1>1, <1>2, <1>3

LEMMA Others ==
  ASSUME Types, NEW s \in Services, Acts(s), NEW t \in Services \ {s}
  PROVE  Same(t)
<1>t. /\ cr \in [Services -> CRType] /\ status \in [Services -> StatusType]
      /\ todo \in [Services -> Seq(StepType)] /\ local \in [Services -> LocalType]
      /\ endpoint \in [Services -> [life : Life, fin : BOOLEAN, ready : BOOLEAN]]
      /\ sts \in [Services -> Spec_] /\ running \in [Services -> Spec_]
  BY DEF Types, CRTypes, WorkTypes, HeldTypes, PodTypes
<1>1. CASE Edit(s)
  BY <1>1, <1>t DEF crVars, heldVars, podVars, boundVars, workVars, vars, Edit, Same, Held
<1>2. CASE Delete(s)
  BY <1>2, <1>t DEF crVars, heldVars, podVars, boundVars, workVars, vars, Delete, Collect, Same,
     Held
<1>3. CASE RollOut(s)
  BY <1>3, <1>t DEF crVars, heldVars, podVars, boundVars, workVars, vars, RollOut, Same, Held
<1>4. CASE JobDone(s)
  BY <1>4, <1>t DEF crVars, heldVars, podVars, boundVars, workVars, vars, JobDone, Same, Held
<1>5. CASE EndpointReady(s)
  BY <1>5, <1>t DEF crVars, heldVars, podVars, boundVars, workVars, vars, EndpointReady, Same,
     Held
<1>6. CASE Begin(s)
  BY <1>6, <1>t DEF crVars, heldVars, podVars, boundVars, workVars, vars, Begin, Same, Held
<1>7. CASE Patch(s)
  BY <1>7, <1>t DEF crVars, heldVars, podVars, boundVars, workVars, vars, Patch, Collect, Same,
     Held
<1>8. CASE PatchFails(s)
  BY <1>8, <1>t DEF crVars, heldVars, podVars, boundVars, workVars, vars, PatchFails, Same, Held
<1>9. CASE Steps_(s)
  <2>1. Leaves(s)
    BY <1>9, StepLeaves
  <2>2. todo'[t] = todo[t] /\ local'[t] = local[t]
    BY <2>1, <1>t DEF Leaves
  <2>3. endpoint'[t] = endpoint[t]
    BY <2>1, <1>t DEF Leaves, EnsureEndpoint, DropEndpoint
  <2>4. sts'[t] = sts[t]
    BY <2>1, <1>t DEF Leaves, EnsureStatefulSet
  <2>5. Held(t)
    BY <2>1, TopologyFins DEF Leaves, Held
  <2>. QED
    BY <2>1, <2>2, <2>3, <2>4, <2>5 DEF Leaves, Same
<1>. QED
  BY <1>1, <1>2, <1>3, <1>4, <1>5, <1>6, <1>7, <1>8, <1>9 DEF Acts

LEMMA NobodysSame ==
  ASSUME Types, Elsewhere, NEW t \in Services
  PROVE  Same(t) /\ memcached'.fins = memcached.fins /\ ignored' = ignored
<1>1. CASE DeleteMemcached
  <2>1. memcached'.fins = memcached.fins
    BY <1>1 DEF DeleteMemcached, Deleted, WithFins
  <2>. QED
    BY <1>1, <2>1 DEF crVars, heldVars, podVars, boundVars, workVars, vars, DeleteMemcached,
       Same, Held
<1>2. ASSUME NEW x \in TopologyCRs, DeleteTopology(x)
      PROVE  Same(t) /\ memcached'.fins = memcached.fins /\ ignored' = ignored
  <2>1. topology \in [TopologyCRs -> [life : Life, fins : SUBSET Services]]
    BY DEF Types, HeldTypes
  <2>2. Deleted(topology[x]).fins = topology[x].fins
    BY DEF Deleted, WithFins
  <2>3. \A y \in TopologyCRs : topology'[y].fins = topology[y].fins
    BY <1>2, <2>1, <2>2 DEF DeleteTopology
  <2>. QED
    BY <1>2, <2>3 DEF crVars, heldVars, podVars, boundVars, workVars, vars, DeleteTopology,
       Same, Held
<1>3. CASE \E i \in Inputs : Arrives(i)
  BY <1>3 DEF crVars, heldVars, podVars, boundVars, workVars, vars, Arrives, Same, Held
<1>4. CASE UNCHANGED vars
  BY <1>4 DEF crVars, heldVars, podVars, boundVars, workVars, vars, Same, Held
<1>. QED
  BY <1>1, <1>2, <1>3, <1>4 DEF Elsewhere

-----------------------------------------------------------------------------
(* What is kept by steps that are not of the CR, and when a reconcile      *)
(* stops.                                                                  *)
LEMMA RefsAre ==
  ASSUME Types, NEW t \in Services
  PROVE  /\ {cr[t].spec.topo, status[t].topo, local[t].topo, local[t].spec.topo}
                \subseteq TopologyCRs \cup {NoTopology}
         /\ kind[t] \in Kinds /\ cr[t] \in CRType /\ status[t] \in StatusType /\ local[t] \in LocalType
  BY KindIs DEF Types, CRTypes, WorkTypes, CRType, StatusType, LocalType, Spec_, Refs

LEMMA SameKeeps ==
  ASSUME Types, NEW t \in Services, Same(t), OneInv(t),
         Leaving(t) /\ LetsGo(t, kind[t]) => LetsGo(t, kind[t])'
  PROVE  OneInv(t)'
<1>r. /\ {cr[t].spec.topo, status[t].topo, local[t].topo, local[t].spec.topo}
            \subseteq TopologyCRs \cup {NoTopology}
  BY RefsAre
<1>1. /\ Busy(t)' <=> Busy(t)
      /\ \A op : Ahead(t, op)' <=> Ahead(t, op)
      /\ Ops(todo'[t]) = Ops(todo[t])
  BY DEF Same, Busy, Ahead
<1>2. CopyBehind(t)'
  BY <1>1 DEF OneInv, CopyBehind, Same
<1>3. FinalizerFirst(t)'
  BY <1>1 DEF OneInv, FinalizerFirst, Same
<1>4. DropsDeleted(t)'
  BY <1>1 DEF OneInv, DropsDeleted, Same
<1>5. Dropped(t)'
  <2>1. Leaving(t)' <=> Leaving(t)
    BY <1>1 DEF Leaving, Same
  <2>2. Lets(t, local[t].topo)' <=> Lets(t, local[t].topo)
    BY <1>r DEF Lets, Same, Held
  <2>. QED
    BY <1>1, <2>1, <2>2 DEF OneInv, Dropped, Same
<1>6. StepsHeld(t)'
  <2>1. Holds(t, local[t].spec)' <=> Holds(t, local[t].spec)
    BY <1>r DEF Holds, Same, Held
  <2>2. Deployed(t)' <=> Deployed(t)
    BY <1>1 DEF Deployed, Same
  <2>. QED
    BY <1>1, <2>1, <2>2 DEF OneInv, StepsHeld, Same
<1>7. ReadyHeld(t)'
  <2>1. Holds(t, cr[t].spec)' <=> Holds(t, cr[t].spec)
    BY <1>r DEF Holds, Same, Held
  <2>. QED
    BY <2>1 DEF OneInv, ReadyHeld, Ready, Same
<1>8. TopologyReleased(t)'
  BY <1>r DEF OneInv, TopologyReleased, ReleasedTopology, Same, Held
<1>. QED
  BY <1>2, <1>3, <1>4, <1>5, <1>6, <1>7, <1>8 DEF OneInv

(* A reconcile that stops without a patch.                                 *)
LEMMA StopKeeps ==
  ASSUME Types, NEW t \in Services, OneInv(t), todo'[t] = <<>>, local'[t] = Idle,
         kind' = kind, cr'[t] = cr[t], status'[t] = status[t], endpoint' = endpoint, sts' = sts,
         running' = running, topology' = topology
  PROVE  OneInv(t)'
<1>1. Ops(todo'[t]) = {} /\ ~Busy(t)' /\ \A op : ~Ahead(t, op)'
  BY NothingAhead DEF Busy, Ahead
<1>2. FinalizerFirst(t)'
  BY <1>1 DEF OneInv, FinalizerFirst, Idle
<1>3. CopyBehind(t)' /\ DropsDeleted(t)' /\ Dropped(t)' /\ StepsHeld(t)'
  BY <1>1 DEF CopyBehind, DropsDeleted, Dropped, Leaving, StepsHeld
<1>4. ReadyHeld(t)'
  BY DEF OneInv, ReadyHeld, Ready, Holds
<1>5. TopologyReleased(t)'
  BY DEF OneInv, TopologyReleased, ReleasedTopology
<1>. QED
  BY <1>2, <1>3, <1>4, <1>5 DEF OneInv

-----------------------------------------------------------------------------
(* A step of the reconcile: what is ahead after it, and that a step that   *)
(* is behind has been taken.                                               *)
Took(s, op) ==
    /\ At(s, op) /\ GoOn(s)
    /\ op = "statefulSet" => EnsureStatefulSet(s)
    /\ op = "rolledOut" => RolledOut(s)
    /\ op = "holdMemcached" => HoldIt(s)
    /\ op = "whenDeployed" => WhenDeployed(s)
    /\ op = "dropEndpoint" => DropEndpoint(s)
    /\ op = "dropMemcached" => ReleaseMemcached(s)
    /\ op = "tryDropMemcached" => ReleaseMemcached(s) \/ ErrorIgnored(s)
    /\ op = "dropTopology" => DropTopology(s)
    /\ op = "dropFinalizer" => DropFinalizer(s)

LEMMA Taken ==
  ASSUME NEW s \in Services, Steps_(s), GoOn(s), ~CallFails(s), NEW op, At(s, op)
  PROVE  Took(s, op)
<1>1. /\ op = "statefulSet" => EnsureStatefulSet(s)
      /\ op = "rolledOut" => RolledOut(s)
      /\ op = "holdMemcached" => HoldIt(s)
      /\ op = "whenDeployed" => WhenDeployed(s)
      /\ op = "dropEndpoint" => DropEndpoint(s)
      /\ op = "dropMemcached" => ReleaseMemcached(s)
      /\ op = "tryDropMemcached" => ReleaseMemcached(s) \/ ErrorIgnored(s)
      /\ op = "dropTopology" => DropTopology(s)
      /\ op = "dropFinalizer" => DropFinalizer(s)
  BY DEF Steps_, At, NeedInput, MakeObject, EnsureMemcached, HoldIt, LeaveTopology, TakeTopology,
     SyncDB, EnsureStatefulSet, RolledOut, WhenDeployed, IfDeployed, Observe, EnsureEndpoint,
     CleanRecords, DropEndpoint, ReleaseMemcached, DropTopology, DropFinalizer, ErrorIgnored
<1>. QED
  BY <1>1 DEF Took

(* After a step all that was ahead but that one is ahead, or the patch.    *)
LEMMA StepAhead ==
  ASSUME Types, NEW s \in Services, Steps_(s)
  PROVE  /\ Busy(s)
         /\ \A a : Ahead(s, a)' /\ a \notin {"patch", "observe"} => Ahead(s, a)
         /\ Ops(todo[s]) \subseteq {"patch"} => Ops(todo'[s]) \subseteq {"patch"}
         /\ \A S : "patch" \in S /\ (kind[s] = "CyborgAPI" /\ Ahead(s, "ifDeployed") => "observe" \in S)
                   /\ Ops(todo[s]) \subseteq S => Ops(todo'[s]) \subseteq S
         /\ \A a, b : Ahead(s, a)' /\ a \notin {"patch", "observe"} /\ Ahead(s, b) /\ ~Ahead(s, b)'
                         => Took(s, b)
         /\ \A b : Took(s, b) => /\ \A a \in Ops(todo[s]) : <<a, b>> \notin Precedes(kind[s])
                                 /\ b \in Ops(todo[s])
                                 /\ Ops(todo[s]) = Ops(todo'[s]) \cup {b}
<1>t. PlanInv(s) /\ todo \in [Services -> Seq(StepType)]
  BY DEF Types, WorkTypes
<1>l. Leaves(s) /\ kind' = kind
  BY StepLeaves DEF Leaves
<1>p. PICK op : At(s, op) /\ op # "patch"
  BY StepAtOne
<1>q. \A x : At(s, x) => x = op
  BY <1>p DEF At
<1>o. /\ Busy(s) /\ op \in Ops(todo[s])
      /\ \A a \in Ops(todo[s]) : <<a, op>> \notin Precedes(kind[s])
      /\ Ops(todo[s]) = Ops(Tail(todo[s])) \cup {op}
  BY <1>p, <1>t, Onwards DEF Ahead
<1>u. Ops(Save) = {"patch"} /\ Ops(<<Do("observe")>> \o Save) = {"observe", "patch"}
  BY SavePlan, ObservePlan DEF IsPlan
<1>1. CASE CallFails(s) \/ End(s)
  <2>1. todo'[s] = Save
    BY <1>1, <1>t DEF CallFails, End
  <2>2. \A b : Took(s, b) => b = op /\ todo'[s] = Tail(todo[s])
    BY <1>q, <1>t DEF Took, GoOn
  <2>3. Ops(todo'[s]) = {"patch"} /\ Ops(todo'[s]) \subseteq Ops(todo[s]) \cup {"patch"}
    BY <2>1, <1>u
  <2>. QED
    BY <1>o, <2>2, <2>3 DEF Ahead
<1>2. CASE GoOn(s) /\ ~CallFails(s)
  <2>1. todo'[s] = Tail(todo[s]) /\ Took(s, op)
    BY <1>2, <1>p, <1>t, Taken DEF GoOn
  <2>2. \A b : Took(s, b) => b = op
    BY <1>q DEF Took
  <2>. QED
    BY <1>o, <2>1, <2>2 DEF Ahead
<1>3. CASE At(s, "ifDeployed") /\ todo' = [todo EXCEPT ![s] = <<Do("observe")>> \o Save]
  <2>1. Ops(todo'[s]) = {"observe", "patch"} /\ op = "ifDeployed"
    BY <1>3, <1>q, <1>t, <1>u
  <2>2. kind[s] = "CyborgAPI" /\ Ahead(s, "ifDeployed")
    <3>1. op \in MainOps(kind[s]) \cup DropOps(kind[s])
      BY <1>p, <1>t, Onwards
    <3>. QED
      BY <2>1, <3>1, <1>o DEF MainOps, DropOps, Ahead
  <2>3. \A b : Took(s, b) => b = op /\ todo'[s] = Tail(todo[s])
    BY <1>q, <1>t DEF Took, GoOn
  <2>. QED
    BY <1>o, <2>1, <2>2, <2>3 DEF Ahead
<1>4. GoOn(s) \/ End(s) \/ CallFails(s)
      \/ (At(s, "ifDeployed") /\ todo' = [todo EXCEPT ![s] = <<Do("observe")>> \o Save])
  BY DEF Steps_, NeedInput, MakeObject, EnsureMemcached, HoldIt, LeaveTopology, TakeTopology,
     SyncDB, EnsureStatefulSet, RolledOut, WhenDeployed, IfDeployed, Observe, EnsureEndpoint,
     CleanRecords, DropEndpoint, ReleaseMemcached, DropTopology, DropFinalizer, ErrorIgnored
<1>. QED
  BY <1>1, <1>2, <1>3, <1>4

-----------------------------------------------------------------------------
(* A step of its own reconcile.                                            *)
LEMMA DropsAreDrops ==
  ASSUME NEW k, NEW op \in DropOps(k)
  PROVE  op \notin MainOps(k) /\ op \notin {"patch", "observe", "ifDeployed"}
  BY DEF MainOps, DropOps

LEMMA StepOwnsFinalizer ==
  ASSUME Types, NEW s \in Services, Steps_(s), FinalizerFirst(s), kind[s] # "NovaCompute"
  PROVE  cr[s].fin /\ cr[s].life # "gone"
<1>1. PICK op : At(s, op) /\ op # "patch"
  BY StepAtOne
<1>2. op \in Ops(todo[s])
  BY <1>1, Onwards DEF Types, WorkTypes, Ahead
<1>. QED
  BY <1>1, <1>2 DEF FinalizerFirst

(* While a CR lets go, nothing is taken for it.                            *)
LEMMA LeavingSteps ==
  ASSUME Types, NEW s \in Services, Steps_(s), OneInv(s), Leaving(s)'
  PROVE  /\ Leaving(s)
         /\ ~HoldIt(s) /\ ~EnsureEndpoint(s) /\ ~TakeTopology(s) /\ ~LeaveTopology(s)
         /\ \A b : <<b, "dropFinalizer">> \in Precedes(kind[s]) /\ Ahead(s, b) /\ ~Ahead(s, b)'
                      => Took(s, b)
<1>l. Leaves(s)
  BY StepLeaves
<1>t. \A a : At(s, a) => Ahead(s, a)
  BY Onwards DEF Types, WorkTypes
<1>f. ASSUME DropFinalizer(s) PROVE Took(s, "dropFinalizer") /\ Ahead(s, "dropFinalizer")
  BY <1>f, <1>t DEF DropFinalizer, Took
<1>1. Ahead(s, "dropFinalizer")' => Ahead(s, "dropFinalizer")
  BY StepAhead
<1>2. Leaving(s)
  BY <1>1, <1>l, <1>f, StepAhead DEF Leaving, Leaves
<1>3. Ops(todo[s]) \subseteq DropOps(kind[s]) \cup {"patch"}
  BY <1>2 DEF OneInv, Dropped
<1>4. \A a \in {"holdMemcached", "endpoint", "takeTopology", "leaveTopology"} : ~Ahead(s, a)
  <2>1. \A a \in {"holdMemcached", "endpoint", "takeTopology", "leaveTopology"} :
           a \notin DropOps(kind[s]) \cup {"patch"}
    BY DEF DropOps
  <2>. QED
    BY <1>3, <2>1 DEF Ahead
<1>5. ~HoldIt(s) /\ ~EnsureEndpoint(s) /\ ~TakeTopology(s) /\ ~LeaveTopology(s)
  BY <1>4, <1>t DEF HoldIt, EnsureEndpoint, TakeTopology, LeaveTopology
<1>6. ASSUME NEW b, <<b, "dropFinalizer">> \in Precedes(kind[s]), Ahead(s, b), ~Ahead(s, b)'
      PROVE  Took(s, b)
  <2>1. CASE Ahead(s, "dropFinalizer")'
    BY <1>6, <2>1, StepAhead
  <2>2. CASE ~local[s].fin
    BY <1>2, <1>6, <2>2 DEF OneInv, Dropped, Ahead
  <2>3. CASE DropFinalizer(s)
    BY <1>6, <1>f, <2>3, StepAhead DEF Ahead
  <2>. QED
    BY <1>l, <2>1, <2>2, <2>3 DEF Leaving, Leaves
<1>7. ASSUME NEW b
      PROVE  <<b, "dropFinalizer">> \in Precedes(kind[s]) /\ Ahead(s, b) /\ ~Ahead(s, b)'
                => Took(s, b)
  BY <1>6
<1>8. /\ Leaving(s)
      /\ ~HoldIt(s) /\ ~EnsureEndpoint(s) /\ ~TakeTopology(s) /\ ~LeaveTopology(s)
  BY <1>2, <1>5
<1>. QED
  BY <1>7, <1>8

LEMMA DroppedStep ==
  ASSUME Types, NEW s \in Services, Steps_(s), OneInv(s)
  PROVE  Dropped(s)'
<1> SUFFICES ASSUME Leaving(s)' PROVE Dropped(s)'
  BY DEF Dropped
<1>l. Leaves(s) /\ kind' = kind /\ cr' = cr
  BY StepLeaves DEF Leaves
<1>s. /\ Leaving(s)
      /\ ~HoldIt(s) /\ ~EnsureEndpoint(s) /\ ~TakeTopology(s) /\ ~LeaveTopology(s)
      /\ \A b : <<b, "dropFinalizer">> \in Precedes(kind[s]) /\ Ahead(s, b) /\ ~Ahead(s, b)'
                   => Took(s, b)
  BY LeavingSteps
<1>d. /\ cr[s].life = "deleting"
      /\ Ops(todo[s]) \subseteq DropOps(kind[s]) \cup {"patch"}
      /\ ~local[s].fin => \A a \in Ops(todo[s]) : <<a, "dropFinalizer">> \notin Precedes(kind[s])
      /\ Ahead(s, "dropEndpoint") \/ ~endpoint[s].fin
      /\ kind[s] \in Holders =>
            Ahead(s, "dropMemcached") \/ Ahead(s, "tryDropMemcached") \/ LetsGo(s, kind[s])
      /\ kind[s] # "NovaConductor" => Ahead(s, "dropTopology") \/ Lets(s, local[s].topo)
  BY <1>s DEF OneInv, Dropped
<1>t. /\ \A a : At(s, a) => Ahead(s, a)
      /\ endpoint \in [Services -> [life : Life, fin : BOOLEAN, ready : BOOLEAN]]
  BY Onwards DEF Types, WorkTypes, HeldTypes
<1>1. Ops(todo'[s]) \subseteq DropOps(kind[s]) \cup {"patch"}
  <2>1. ~Ahead(s, "ifDeployed")
    BY <1>d DEF Ahead, DropOps
  <2>. QED
    BY <1>d, <2>1, StepAhead
<1>2. ASSUME ~local'[s].fin, NEW a \in Ops(todo'[s])
      PROVE  <<a, "dropFinalizer">> \notin Precedes(kind[s])
  <2>p. <<"patch", "dropFinalizer">> \notin Precedes(kind[s])
    BY DEF Precedes
  <2>a. a # "patch" => a \in Ops(todo[s])
    <3>1. a # "observe"
      BY <1>1 DEF DropOps
    <3>. QED
      BY <3>1, StepAhead DEF Ahead
  <2>1. CASE ~local[s].fin
    BY <1>d, <2>1, <2>a, <2>p
  <2>2. CASE DropFinalizer(s)
    <3>1. Took(s, "dropFinalizer")
      BY <2>2 DEF DropFinalizer, Took
    <3>. QED
      BY <3>1, <2>a, <2>p, StepAhead
  <2>. QED
    BY <1>2, <1>l, <2>1, <2>2 DEF Leaves
<1>3. Ahead(s, "dropEndpoint")' \/ ~endpoint'[s].fin
  <2>1. <<"dropEndpoint", "dropFinalizer">> \in Precedes(kind[s])
    BY DEF Precedes
  <2>2. DropEndpoint(s) => ~endpoint'[s].fin
    BY <1>t DEF DropEndpoint
  <2>3. Took(s, "dropEndpoint") => DropEndpoint(s)
    BY DEF Took
  <2>. QED
    BY <1>d, <1>l, <1>s, <2>1, <2>2, <2>3 DEF Leaves
<1>4. ASSUME kind[s] \in Holders
      PROVE  Ahead(s, "dropMemcached")' \/ Ahead(s, "tryDropMemcached")' \/ LetsGo(s, kind[s])'
  <2>1. {<<"dropMemcached", "dropFinalizer">>, <<"tryDropMemcached", "dropFinalizer">>}
            \subseteq Precedes(kind[s])
    BY DEF Precedes
  <2>2. ReleaseMemcached(s) => kind[s] \notin memcached'.fins
    BY DEF ReleaseMemcached, WithFins
  <2>3. /\ Took(s, "dropMemcached") => ReleaseMemcached(s)
        /\ Took(s, "tryDropMemcached") => ReleaseMemcached(s) \/ ErrorIgnored(s)
    BY DEF Took
  <2>4. ErrorIgnored(s) => s \in ignored'
    BY DEF ErrorIgnored
  <2>5. LetsGo(s, kind[s]) => LetsGo(s, kind[s])'
    BY <1>l, <1>s, <2>2 DEF LetsGo, Leaves
  <2>. QED
    BY <1>4, <1>d, <1>l, <1>s, <2>1, <2>2, <2>3, <2>4, <2>5 DEF LetsGo
<1>5. ASSUME kind[s] # "NovaConductor"
      PROVE  Ahead(s, "dropTopology")' \/ Lets(s, local[s].topo)'
  <2>1. <<"dropTopology", "dropFinalizer">> \in Precedes(kind[s])
    BY <1>5 DEF Precedes
  <2>2. local'[s].topo = local[s].topo
    BY <1>l, <1>s DEF Leaves
  <2>3. local[s].topo \in TopologyCRs \cup {NoTopology}
    BY RefsAre
  <2>4. DropTopology(s) => Lets(s, local[s].topo)'
    BY <2>2, <2>3, TopologyFins DEF Lets
  <2>5. Lets(s, local[s].topo) => Lets(s, local[s].topo)'
    BY <1>l, <1>s, <2>2, <2>4 DEF Lets, Leaves
  <2>6. Took(s, "dropTopology") => DropTopology(s)
    BY DEF Took
  <2>. QED
    BY <1>5, <1>d, <1>s, <2>1, <2>4, <2>5, <2>6
<1>. QED
  BY <1>1, <1>2, <1>3, <1>4, <1>5, <1>l, <1>d DEF Dropped

LEMMA HoldsStep ==
  ASSUME Types, NEW s \in Services, Steps_(s), OneInv(s), cr[s].life # "deleting",
         NEW spec \in Spec_, spec.topo = local[s].spec.topo, Holds(s, spec)
  PROVE  Holds(s, spec)'
<1>1. spec.topo \in TopologyCRs \cup {NoTopology}
  BY DEF Spec_, Refs
<1>2. ~DropTopology(s)
  <2>1. DropTopology(s) => Ahead(s, "dropTopology")
    BY Onwards DEF DropTopology, Types, WorkTypes
  <2>2. "dropTopology" \in DropOps(kind[s])
    BY DEF DropOps
  <2>. QED
    BY <2>1, <2>2 DEF OneInv, DropsDeleted
<1>3. Leaves(s)
  BY StepLeaves
<1>. QED
  BY <1>1, <1>2, <1>3, TopologyFins DEF Leaves, Holds

LEMMA StepsHeldStep ==
  ASSUME Types, NEW s \in Services, Steps_(s), OneInv(s)
  PROVE  StepsHeld(s)'
<1> SUFFICES ASSUME cr'[s].life = "live", Busy(s)' PROVE StepsHeld(s)'
  BY DEF StepsHeld
<1>l. Leaves(s) /\ kind' = kind /\ cr' = cr /\ running' = running
      /\ local'[s].spec = local[s].spec
  BY StepLeaves DEF Leaves
<1>b. Busy(s) /\ cr[s].life = "live"
  BY <1>l, StepAhead
<1>h. /\ Ahead(s, "rolledOut") => Ahead(s, "statefulSet") \/ sts[s] = local[s].spec
      /\ Deployed(s) => /\ sts[s] = local[s].spec /\ running[s] = local[s].spec
                        /\ ~Ahead(s, "statefulSet")
      /\ "Topology" \notin local[s].pending => Holds(s, local[s].spec)
      /\ kind[s] \in Exposed /\ "KeystoneEndpoint" \notin local[s].pending => endpoint[s].fin
      /\ Ahead(s, "cleanRecords") => Ahead(s, "whenDeployed") \/ Deployed(s)
  BY <1>b DEF OneInv, StepsHeld
<1>t. /\ \A a : At(s, a) => Ahead(s, a)
      /\ \A a, b : At(s, b) /\ <<a, b>> \in Precedes(kind[s]) => ~Ahead(s, a)
      /\ endpoint \in [Services -> [life : Life, fin : BOOLEAN, ready : BOOLEAN]]
      /\ sts \in [Services -> Spec_] /\ todo \in [Services -> Seq(StepType)]
      /\ local \in [Services -> LocalType] /\ local[s] \in LocalType
  BY Onwards DEF Types, WorkTypes, HeldTypes, PodTypes, Ahead
<1>e. EnsureStatefulSet(s) => sts'[s] = local[s].spec /\ Ahead(s, "statefulSet")
  BY <1>b, <1>t DEF EnsureStatefulSet
<1>1. ASSUME Ahead(s, "rolledOut")' PROVE Ahead(s, "statefulSet")' \/ sts'[s] = local'[s].spec
  <2>1. Ahead(s, "rolledOut") /\ (Ahead(s, "statefulSet") /\ ~Ahead(s, "statefulSet")'
                                      => Took(s, "statefulSet"))
    BY <1>1, StepAhead
  <2>2. Took(s, "statefulSet") => EnsureStatefulSet(s)
    BY DEF Took
  <2>. QED
    BY <1>h, <1>l, <1>e, <2>1, <2>2 DEF Leaves
<1>2. ASSUME Deployed(s)'
      PROVE  sts'[s] = local'[s].spec /\ running'[s] = local'[s].spec /\ ~Ahead(s, "statefulSet")'
  <2>a. Ahead(s, "statefulSet")' => Ahead(s, "statefulSet")
    BY StepAhead
  <2>1. CASE Deployed(s)
    BY <1>h, <1>l, <1>e, <2>1, <2>a DEF Leaves
  <2>2. CASE ~Deployed(s)
    <3>1. RolledOut(s)
      BY <1>2, <1>b, <1>l, <2>2 DEF Leaves, Deployed, Earns
    <3>2. "Deployment" \in local[s].pending /\ "Deployment" \notin local'[s].pending
      BY <1>2, <1>b, <2>2 DEF Deployed
    <3>3. running[s] = sts[s] /\ sts' = sts
      BY <3>1, <3>2 DEF RolledOut, podVars
    <3>4. <<"statefulSet", "rolledOut">> \in Precedes(kind[s])
      BY DEF Precedes
    <3>5. Ahead(s, "rolledOut") /\ ~Ahead(s, "statefulSet")
      BY <1>t, <3>1, <3>4 DEF RolledOut
    <3>. QED
      BY <1>h, <1>l, <2>a, <3>3, <3>5
  <2>. QED
    BY <2>1, <2>2
<1>3. ASSUME "Topology" \notin local'[s].pending PROVE Holds(s, local[s].spec)'
  <2>1. CASE Holds(s, local[s].spec)
    <3>1. local[s].spec \in Spec_
      BY <1>t DEF LocalType
    <3>3. \A x \in Spec_ : x.topo = local[s].spec.topo /\ Holds(s, x) =>
                              (x.topo # NoTopology => s \in topology'[x.topo].fins)
      BY <1>b, HoldsStep DEF Holds
    <3>. QED
      BY <1>l, <2>1, <3>1, <3>3 DEF Holds
  <2>2. CASE ~Holds(s, local[s].spec)
    <3>1. "Topology" \in local[s].pending /\ TakeTopology(s)
      BY <1>3, <1>h, <1>l, <2>2 DEF Leaves, Earns
    <3>2. local[s].spec.topo # NoTopology /\ local[s].spec.topo \in TopologyCRs
      BY <2>2, RefsAre DEF Holds
    <3>3. ~MarkFalse(s, "Topology")
      BY <1>3, <1>t DEF MarkFalse, LocalType
    <3>4. topology' = [topology EXCEPT ![local[s].spec.topo].fins = @ \cup {s}]
      BY <3>1, <3>2, <3>3 DEF TakeTopology
    <3>5. s \in topology'[local[s].spec.topo].fins
      BY <3>2, <3>4 DEF Types, HeldTypes
    <3>. QED
      BY <1>l, <3>5 DEF Holds
  <2>. QED
    BY <2>1, <2>2
<1>4. ASSUME kind[s] \in Exposed, "KeystoneEndpoint" \notin local'[s].pending PROVE endpoint'[s].fin
  <2>1. EnsureEndpoint(s) => endpoint'[s].fin
    BY <1>t DEF EnsureEndpoint
  <2>2. ~DropEndpoint(s)
    <3>1. "dropEndpoint" \in DropOps(kind[s])
      BY <1>4 DEF DropOps
    <3>. QED
      BY <3>1, <1>b, <1>t DEF DropEndpoint, OneInv, DropsDeleted
  <2>. QED
    BY <1>4, <1>h, <1>l, <2>1, <2>2 DEF Leaves, Earns
<1>5. ASSUME Ahead(s, "cleanRecords")' PROVE Ahead(s, "whenDeployed")' \/ Deployed(s)'
  <2>1. Ahead(s, "cleanRecords") /\ (Ahead(s, "whenDeployed") /\ ~Ahead(s, "whenDeployed")'
                                      => Took(s, "whenDeployed"))
    BY <1>5, StepAhead
  <2>2. todo'[s] # Save
    <3>1. todo'[s] = Save => Ops(todo'[s]) = {"patch"}
      BY SavePlan DEF IsPlan
    <3>. QED
      BY <1>5, <3>1 DEF Ahead
  <2>3. local'[s].pending \subseteq local[s].pending
    BY <1>l, <2>2 DEF Leaves
  <2>4. ASSUME Took(s, "whenDeployed") PROVE "Deployment" \notin local[s].pending
    <3>1. WhenDeployed(s) /\ todo'[s] # Save
      BY <2>2, <2>4 DEF Took
    <3>2. ~End(s)
      BY <3>1, <1>t DEF End
    <3>. QED
      BY <3>1, <3>2 DEF WhenDeployed
  <2>. QED
    BY <1>h, <2>1, <2>3, <2>4 DEF Deployed
<1>. QED
  BY <1>1, <1>2, <1>3, <1>4, <1>5, <1>l DEF StepsHeld

LEMMA ReadyHeldStep ==
  ASSUME Types, NEW s \in Services, Steps_(s), OneInv(s)
  PROVE  ReadyHeld(s)'
<1>l. Leaves(s) /\ kind' = kind /\ cr' = cr /\ status' = status
  BY StepLeaves DEF Leaves
<1> SUFFICES ASSUME Ready(s), cr[s].life = "live"
             PROVE  /\ sts'[s] = cr[s].spec
                    /\ Holds(s, cr[s].spec)'
                    /\ kind[s] \in Exposed => endpoint'[s].fin
  BY <1>l DEF ReadyHeld, Ready
<1>h. /\ sts[s] = cr[s].spec
      /\ Holds(s, cr[s].spec)
      /\ kind[s] \in Exposed => endpoint[s].fin
  BY DEF OneInv, ReadyHeld
<1>b. local[s].spec = cr[s].spec
  BY StepAhead DEF OneInv, CopyBehind, Ready
<1>t. /\ \A a : At(s, a) => Ahead(s, a)
      /\ endpoint \in [Services -> [life : Life, fin : BOOLEAN, ready : BOOLEAN]]
      /\ sts \in [Services -> Spec_] /\ cr[s].spec \in Spec_
  BY Onwards, RefsAre DEF Types, WorkTypes, HeldTypes, PodTypes, CRType
<1>1. sts'[s] = cr[s].spec
  BY <1>b, <1>h, <1>l, <1>t DEF Leaves, EnsureStatefulSet
<1>2. Holds(s, cr[s].spec)'
  <2>1. \A x \in Spec_ : x.topo = local[s].spec.topo /\ Holds(s, x) =>
                            (x.topo # NoTopology => s \in topology'[x.topo].fins)
    BY HoldsStep DEF Holds
  <2>. QED
    BY <1>b, <1>h, <1>l, <1>t, <2>1 DEF Holds
<1>3. ASSUME kind[s] \in Exposed PROVE endpoint'[s].fin
  <2>1. EnsureEndpoint(s) => endpoint'[s].fin
    BY <1>t DEF EnsureEndpoint
  <2>2. ~DropEndpoint(s)
    <3>1. "dropEndpoint" \in DropOps(kind[s])
      BY <1>3 DEF DropOps
    <3>. QED
      BY <3>1, <1>t DEF DropEndpoint, OneInv, DropsDeleted
  <2>. QED
    BY <1>3, <1>h, <1>l, <2>1, <2>2 DEF Leaves
<1>. QED
  BY <1>1, <1>2, <1>3

LEMMA StepKeeps ==
  ASSUME Types, NEW s \in Services, Steps_(s), OneInv(s)
  PROVE  OneInv(s)'
<1>l. Leaves(s) /\ kind' = kind /\ cr' = cr /\ status' = status
  BY StepLeaves DEF Leaves
<1>b. Busy(s)
  BY StepAhead
<1>t. /\ \A a : At(s, a) => Ahead(s, a) /\ a \in MainOps(kind[s]) \cup DropOps(kind[s]) \cup {"patch"}
      /\ endpoint \in [Services -> [life : Life, fin : BOOLEAN, ready : BOOLEAN]]
      /\ local \in [Services -> LocalType] /\ local[s] \in LocalType
  BY Onwards DEF Types, WorkTypes, HeldTypes
<1>1. CopyBehind(s)'
  BY <1>b, <1>l DEF OneInv, CopyBehind, Leaves
<1>2. FinalizerFirst(s)'
  <2>1. kind[s] # "NovaCompute" => cr[s].fin /\ cr[s].life # "gone"
    BY StepOwnsFinalizer DEF OneInv
  <2>2. endpoint'[s].fin => kind[s] \in Exposed
    <3>1. EnsureEndpoint(s) => kind[s] \in Exposed
      BY <1>t DEF EnsureEndpoint, MainOps, DropOps
    <3>2. DropEndpoint(s) => ~endpoint'[s].fin
      BY <1>t DEF DropEndpoint
    <3>. QED
      BY <1>l, <3>1, <3>2 DEF Leaves, OneInv, FinalizerFirst
  <2>3. kind[s] = "NovaCompute" => ~local'[s].fin
    BY <1>l, <1>t DEF Leaves, OneInv, FinalizerFirst, DropFinalizer, LocalType
  <2>. QED
    BY <1>l, <2>1, <2>2, <2>3 DEF OneInv, FinalizerFirst, Exposed
<1>3. DropsDeleted(s)'
  <2>1. \A op \in DropOps(kind[s]) : Ahead(s, op)' => Ahead(s, op)
    BY DropsAreDrops, StepAhead
  <2>. QED
    BY <1>l, <2>1 DEF OneInv, DropsDeleted
<1>4. TopologyReleased(s)'
  <2>1. kind[s] # "NovaCompute" => cr[s].life # "gone"
    BY StepOwnsFinalizer DEF OneInv
  <2>. QED
    BY <1>l, <2>1 DEF TopologyReleased, ReleasedTopology
<1>. QED
  BY <1>1, <1>2, <1>3, <1>4, DroppedStep, StepsHeldStep, ReadyHeldStep DEF OneInv

-----------------------------------------------------------------------------
(* What the others do to a CR, and how a reconcile begins and ends.        *)
LEMMA EditKeeps ==
  ASSUME Types, NEW s \in Services, Edit(s), OneInv(s)
  PROVE  OneInv(s)'
<1>1. /\ kind' = kind /\ cr'[s].life = "live" /\ cr[s].life = "live" /\ cr'[s].fin = cr[s].fin
      /\ status'[s].topo = status[s].topo /\ ~status'[s].seen
      /\ endpoint' = endpoint /\ sts' = sts /\ running' = running /\ topology' = topology
      /\ todo' = todo
  BY DEF Edit, Types, CRTypes, CRType, StatusType, heldVars, podVars
<1>2. /\ ~local'[s].fresh /\ local'[s].spec = local[s].spec /\ local'[s].fin = local[s].fin
      /\ local'[s].topo = local[s].topo /\ local'[s].pending = local[s].pending
  BY DEF Edit, Types, WorkTypes, LocalType
<1>3. CopyBehind(s)' /\ ReadyHeld(s)' /\ TopologyReleased(s)'
  BY <1>1, <1>2 DEF CopyBehind, ReadyHeld, Ready, TopologyReleased, ReleasedTopology
<1>4. FinalizerFirst(s)' /\ DropsDeleted(s)'
  BY <1>1, <1>2 DEF OneInv, FinalizerFirst, DropsDeleted, Busy, Ahead
<1>5. Dropped(s)'
  <2>1. ~Leaving(s)
    BY <1>1 DEF OneInv, Dropped
  <2>2. ~Leaving(s)'
    BY <2>1, <1>1, <1>2 DEF Leaving, Busy, Ahead
  <2>. QED
    BY <2>2 DEF Dropped
<1>6. StepsHeld(s)'
  BY <1>1, <1>2 DEF OneInv, StepsHeld, Deployed, Holds, Busy, Ahead
<1>. QED
  BY <1>3, <1>4, <1>5, <1>6 DEF OneInv

LEMMA DeleteKeeps ==
  ASSUME Types, NEW s \in Services, Delete(s), OneInv(s)
  PROVE  OneInv(s)'
<1>1. /\ kind' = kind /\ status' = status /\ todo' = todo /\ local' = local /\ topology' = topology
      /\ cr[s].life = "live" /\ cr'[s].fin = cr[s].fin /\ cr'[s].spec = cr[s].spec
      /\ cr'[s].life = IF cr[s].fin THEN "deleting" ELSE "gone"
  BY DEF Delete, Types, CRTypes, CRType
<1>2. endpoint'[s].fin = endpoint[s].fin
  BY DEF Delete, Collect, Types, HeldTypes
<1>3. CopyBehind(s)' /\ ReadyHeld(s)' /\ StepsHeld(s)'
  BY <1>1 DEF OneInv, CopyBehind, ReadyHeld, StepsHeld, Busy
<1>4. FinalizerFirst(s)'
  BY <1>1, <1>2 DEF OneInv, FinalizerFirst, Busy, Exposed
<1>5. DropsDeleted(s)'
  BY <1>1 DEF OneInv, DropsDeleted, Ahead
<1>6. Dropped(s)'
  BY <1>1 DEF OneInv, Dropped, Leaving, Busy, Ahead
<1>7. TopologyReleased(s)'
  BY <1>1 DEF OneInv, FinalizerFirst, TopologyReleased, ReleasedTopology
<1>. QED
  BY <1>3, <1>4, <1>5, <1>6, <1>7 DEF OneInv

LEMMA RollOutKeeps ==
  ASSUME Types, NEW s \in Services, RollOut(s), OneInv(s)
  PROVE  OneInv(s)'
<1>1. /\ kind' = kind /\ cr' = cr /\ status' = status /\ todo' = todo /\ local' = local
      /\ topology' = topology /\ endpoint' = endpoint /\ sts' = sts /\ running'[s] = sts[s]
      /\ memcached' = memcached /\ ignored' = ignored
  BY DEF RollOut, crVars, heldVars, boundVars, Types, PodTypes
<1>2. StepsHeld(s)'
  BY <1>1 DEF OneInv, StepsHeld, Deployed, Holds, Busy, Ahead
<1>3. Dropped(s)'
  BY <1>1 DEF OneInv, Dropped, Leaving, Lets, LetsGo, Busy, Ahead
<1>4. CopyBehind(s)' /\ FinalizerFirst(s)' /\ DropsDeleted(s)' /\ ReadyHeld(s)' /\ TopologyReleased(s)'
  BY <1>1 DEF OneInv, CopyBehind, FinalizerFirst, DropsDeleted, ReadyHeld, Ready, Holds, TopologyReleased,
     ReleasedTopology, Busy, Ahead
<1>. QED
  BY <1>2, <1>3, <1>4 DEF OneInv

(* What a reconcile starts with.                                           *)
LEMMA BeginDoes ==
  ASSUME Types, NEW s \in Services, Begin(s), cr[s].life # "gone"
  PROVE  /\ kind' = kind /\ cr' = cr /\ status' = status /\ endpoint' = endpoint /\ sts' = sts
         /\ running' = running /\ topology' = topology /\ memcached' = memcached
         /\ local'[s].spec = cr[s].spec /\ local'[s].fin = (cr[s].fin \/ AddsFinalizer(s))
         /\ local'[s].topo = status[s].topo /\ local'[s].fresh
         /\ "Deployment" \in local'[s].pending
         /\ cr[s].spec.topo # NoTopology => "Topology" \in local'[s].pending
         /\ kind[s] \in Exposed => "KeystoneEndpoint" \in local'[s].pending
         /\ Ops(todo'[s]) = IF cr[s].life = "deleting" THEN DropOps(kind[s]) \cup {"patch"}
                            ELSE IF AddsFinalizer(s) THEN {"patch"}
                            ELSE MainOps(kind[s]) \cup {"patch"}
         /\ Busy(s)'
<1>t. /\ todo \in [Services -> Seq(StepType)] /\ local \in [Services -> LocalType]
      /\ kind[s] \in Kinds
  BY KindIs DEF Types, WorkTypes
<1>1. todo'[s] = Program(s)
  BY <1>t DEF Begin
<1>2. /\ local'[s].spec = cr[s].spec /\ local'[s].fin = (cr[s].fin \/ AddsFinalizer(s))
      /\ local'[s].topo = status[s].topo /\ local'[s].fresh
      /\ local'[s].pending = InitConditions[kind[s]] \cup
             (IF cr[s].spec.topo = NoTopology THEN {} ELSE {"Topology"})
  BY <1>t DEF Begin
<1>3. Ops(todo'[s]) = IF cr[s].life = "deleting" THEN DropOps(kind[s]) \cup {"patch"}
                      ELSE IF AddsFinalizer(s) THEN {"patch"}
                      ELSE MainOps(kind[s]) \cup {"patch"}
  BY <1>1, <1>t, ProgramPlan DEF IsPlan
<1>4. Busy(s)'
  <2>1. "patch" \in Ops(todo'[s])
    BY <1>3
  <2>. QED
    BY <2>1, NothingAhead DEF Busy
<1>5. /\ "Deployment" \in InitConditions[kind[s]]
      /\ kind[s] \in Exposed => "KeystoneEndpoint" \in InitConditions[kind[s]]
  BY <1>t, Table
<1>. QED
  BY <1>2, <1>3, <1>4, <1>5 DEF Begin, crVars, heldVars, podVars

LEMMA BeginKeeps ==
  ASSUME Types, NEW s \in Services, Begin(s), cr[s].life # "gone", OneInv(s)
  PROVE  OneInv(s)'
<1>b. /\ kind' = kind /\ cr' = cr /\ status' = status /\ endpoint' = endpoint /\ sts' = sts
      /\ running' = running /\ topology' = topology
      /\ local'[s].spec = cr[s].spec /\ local'[s].fin = (cr[s].fin \/ AddsFinalizer(s))
      /\ local'[s].topo = status[s].topo /\ local'[s].fresh
      /\ "Deployment" \in local'[s].pending
      /\ cr[s].spec.topo # NoTopology => "Topology" \in local'[s].pending
      /\ kind[s] \in Exposed => "KeystoneEndpoint" \in local'[s].pending
      /\ Busy(s)'
  BY BeginDoes
<1>o. Ops(todo'[s]) = IF cr[s].life = "deleting" THEN DropOps(kind[s]) \cup {"patch"}
                      ELSE IF AddsFinalizer(s) THEN {"patch"}
                      ELSE MainOps(kind[s]) \cup {"patch"}
  BY BeginDoes
<1>l. cr[s].life \in {"live", "deleting"} /\ cr[s].fin \in BOOLEAN
  BY RefsAre DEF CRType, Life
<1>a. /\ AddsFinalizer(s) <=> cr[s].life = "live" /\ kind[s] # "NovaCompute" /\ ~cr[s].fin
      /\ cr[s].life = "deleting" => cr[s].fin /\ kind[s] # "NovaCompute"
  BY DEF AddsFinalizer, OwnsFinalizer, OneInv, FinalizerFirst
<1>1. CopyBehind(s)'
  BY <1>b DEF CopyBehind
<1>2. FinalizerFirst(s)'
  BY <1>a, <1>b, <1>l, <1>o DEF OneInv, FinalizerFirst
<1>3. \A op \in DropOps(kind[s]) : Ahead(s, op)' => cr[s].life = "deleting"
  BY <1>o, DropsAreDrops DEF Ahead
<1>4. DropsDeleted(s)'
  BY <1>3, <1>b DEF DropsDeleted
<1>5. Dropped(s)'
  <2> SUFFICES ASSUME Leaving(s)' PROVE Dropped(s)'
    BY DEF Dropped
  <2>1. Ahead(s, "dropFinalizer")'
    BY <1>a, <1>b, <1>l DEF Leaving
  <2>2. cr[s].life = "deleting"
    BY <1>o, <2>1 DEF Ahead, MainOps
  <2>3. Ops(todo'[s]) = DropOps(kind[s]) \cup {"patch"} /\ local'[s].fin
    BY <1>o, <1>a, <1>b, <2>2
  <2>4. Ahead(s, "dropEndpoint")' \/ ~endpoint'[s].fin
    BY <1>b, <2>3 DEF Ahead, DropOps, OneInv, FinalizerFirst
  <2>5. /\ kind[s] \in Holders => Ahead(s, "dropMemcached")' \/ Ahead(s, "tryDropMemcached")'
        /\ Ahead(s, "dropTopology")'
    BY <2>3 DEF Ahead, DropOps
  <2>. QED
    BY <1>b, <2>2, <2>3, <2>4, <2>5 DEF Dropped
<1>6. StepsHeld(s)'
  <2> SUFFICES ASSUME cr[s].life = "live" PROVE StepsHeld(s)'
    BY <1>b DEF StepsHeld
  <2>1. Ops(todo'[s]) \in {{"patch"}, MainOps(kind[s]) \cup {"patch"}}
    BY <1>o
  <2>2. Ahead(s, "rolledOut")' => Ahead(s, "statefulSet")'
    BY <2>1 DEF Ahead, MainOps
  <2>3. Ahead(s, "cleanRecords")' => Ahead(s, "whenDeployed")'
    BY <2>1 DEF Ahead, MainOps, Deployers, CyborgKinds, Exposed
  <2>4. ~Deployed(s)'
    BY <1>b DEF Deployed
  <2>5. "Topology" \notin local'[s].pending => Holds(s, local[s].spec)'
    BY <1>b DEF Holds
  <2>. QED
    BY <1>b, <2>2, <2>3, <2>4, <2>5 DEF StepsHeld
<1>7. ReadyHeld(s)' /\ TopologyReleased(s)'
  BY <1>b DEF OneInv, ReadyHeld, Ready, Holds, TopologyReleased, ReleasedTopology
<1>. QED
  BY <1>1, <1>2, <1>4, <1>5, <1>6, <1>7 DEF OneInv

(* What the deferred patch writes.                                         *)
LEMMA PatchDoes ==
  ASSUME Types, NEW s \in Services, Patch(s)
  PROVE  /\ kind' = kind /\ topology' = topology /\ memcached' = memcached /\ ignored' = ignored
         /\ Busy(s) /\ todo'[s] = <<>> /\ local'[s] = Idle /\ cr'[s].spec = cr[s].spec
         /\ endpoint'[s].fin = endpoint[s].fin
         /\ cr[s].life = "gone" => /\ cr' = cr /\ status' = status /\ endpoint' = endpoint
                                   /\ sts' = sts /\ running' = running
         /\ cr[s].life # "gone" => status'[s] = Outcome(s)
         /\ cr[s].life = "deleting" /\ ~local[s].fin => cr'[s].life = "gone" /\ ~cr'[s].fin
         /\ cr[s].life # "gone" /\ ~(cr[s].life = "deleting" /\ ~local[s].fin) =>
               /\ cr'[s].life = cr[s].life /\ cr'[s].fin = local[s].fin
               /\ sts' = sts /\ running' = running
<1>t. /\ todo \in [Services -> Seq(StepType)] /\ local \in [Services -> LocalType]
      /\ cr \in [Services -> CRType] /\ status \in [Services -> StatusType]
      /\ endpoint \in [Services -> [life : Life, fin : BOOLEAN, ready : BOOLEAN]]
  BY DEF Types, CRTypes, WorkTypes, HeldTypes
<1>1. /\ kind' = kind /\ topology' = topology /\ memcached' = memcached /\ ignored' = ignored
      /\ Busy(s) /\ todo'[s] = <<>> /\ local'[s] = Idle
  BY <1>t DEF Patch, At, Busy, boundVars
<1>2. /\ cr[s].life = "gone" => /\ cr' = cr /\ status' = status /\ endpoint' = endpoint
                                /\ sts' = sts /\ running' = running
      /\ cr[s].life # "gone" => status'[s] = Outcome(s)
  BY <1>t DEF Patch
<1>3. cr[s].life = "deleting" /\ ~local[s].fin =>
         /\ cr'[s].life = "gone" /\ ~cr'[s].fin /\ cr'[s].spec = cr[s].spec
         /\ Collect(s)
  BY <1>t DEF Patch, CRType
<1>4. cr[s].life # "gone" /\ ~(cr[s].life = "deleting" /\ ~local[s].fin) =>
         /\ cr'[s].life = cr[s].life /\ cr'[s].fin = local[s].fin /\ cr'[s].spec = cr[s].spec
         /\ UNCHANGED <<sts, running, endpoint>>
  BY <1>t DEF Patch, CRType
<1>5. Collect(s) => endpoint'[s].fin = endpoint[s].fin
  BY <1>t DEF Collect
<1>. QED
  BY <1>1, <1>2, <1>3, <1>4, <1>5

LEMMA PatchKeeps ==
  ASSUME Types, NEW s \in Services, Patch(s), cr[s].life # "gone", OneInv(s)
  PROVE  OneInv(s)'
<1>p. /\ kind' = kind /\ topology' = topology
      /\ Busy(s) /\ todo'[s] = <<>> /\ local'[s] = Idle /\ cr'[s].spec = cr[s].spec
      /\ endpoint'[s].fin = endpoint[s].fin
      /\ status'[s] = Outcome(s)
      /\ cr[s].life = "deleting" /\ ~local[s].fin => cr'[s].life = "gone" /\ ~cr'[s].fin
      /\ ~(cr[s].life = "deleting" /\ ~local[s].fin) =>
            /\ cr'[s].life = cr[s].life /\ cr'[s].fin = local[s].fin
            /\ sts' = sts /\ running' = running
  BY PatchDoes
<1>t. /\ cr[s].life \in {"live", "deleting"} /\ local[s].fin \in BOOLEAN
      /\ local[s].topo \in TopologyCRs \cup {NoTopology}
  BY RefsAre DEF CRType, LocalType, Life
<1>f. ~local[s].fin /\ kind[s] # "NovaCompute" => Leaving(s) /\ cr[s].life = "deleting"
  BY <1>p DEF Leaving, OneInv, Dropped
<1>1. Ops(todo'[s]) = {} /\ ~Busy(s)' /\ \A op : ~Ahead(s, op)'
  BY <1>p, NothingAhead DEF Busy, Ahead
<1>2. CopyBehind(s)' /\ DropsDeleted(s)' /\ Dropped(s)' /\ StepsHeld(s)'
  BY <1>1 DEF CopyBehind, DropsDeleted, Dropped, Leaving, StepsHeld
<1>3. FinalizerFirst(s)'
  <2>1. ASSUME cr'[s].life = "gone" PROVE ~cr'[s].fin /\ ~endpoint[s].fin
    <3>1. /\ cr[s].life = "deleting" /\ ~local[s].fin /\ ~cr'[s].fin
          /\ kind[s] # "NovaCompute"
      BY <1>p, <1>t, <2>1 DEF OneInv, FinalizerFirst
    <3>2. <<"dropEndpoint", "dropFinalizer">> \in Precedes(kind[s])
      BY DEF Precedes
    <3>. QED
      BY <1>f, <3>1, <3>2 DEF OneInv, Dropped, Ahead
  <2>. QED
    BY <1>1, <1>p, <1>t, <1>f, <2>1 DEF OneInv, FinalizerFirst, Idle
<1>4. ReadyHeld(s)'
  <2> SUFFICES ASSUME Ready(s)', cr'[s].life = "live" PROVE ReadyHeld(s)'
    BY DEF ReadyHeld
  <2>1. cr[s].life = "live" /\ sts' = sts
    BY <1>p
  <2>2. local[s].pending = {} /\ (local[s].fresh \/ status[s].seen)
    BY <1>p DEF Ready, Outcome
  <2>3. local[s].spec = cr[s].spec
    BY <1>p, <2>2 DEF OneInv, CopyBehind
  <2>4. /\ sts[s] = local[s].spec /\ Holds(s, local[s].spec)
        /\ kind[s] \in Exposed => endpoint[s].fin
    BY <1>p, <2>1, <2>2 DEF OneInv, StepsHeld, Deployed
  <2>. QED
    BY <1>p, <2>1, <2>3, <2>4 DEF ReadyHeld, Holds
<1>5. TopologyReleased(s)'
  <2> SUFFICES ASSUME kind[s] \notin {"NovaCompute", "NovaConductor"}, cr'[s].life = "gone"
               PROVE  status'[s].topo # NoTopology => s \notin topology[status'[s].topo].fins
    BY <1>p DEF TopologyReleased, ReleasedTopology
  <2>1. ~local[s].fin /\ Leaving(s)
    BY <1>p, <1>t, <1>f
  <2>2. <<"dropTopology", "dropFinalizer">> \in Precedes(kind[s])
    BY DEF Precedes
  <2>3. ~Ahead(s, "dropTopology")
    BY <2>1, <2>2 DEF OneInv, Dropped, Ahead
  <2>4. Lets(s, local[s].topo)
    BY <2>1, <2>3 DEF OneInv, Dropped
  <2>. QED
    BY <1>p, <2>4 DEF Outcome, Lets
<1>. QED
  BY <1>2, <1>3, <1>4, <1>5 DEF OneInv

-----------------------------------------------------------------------------
(* What holds of several CRs.                                              *)
LEMMA MemcachedFins ==
  ASSUME Types, NEW s \in Services, Acts(s)
  PROVE  /\ memcached' = memcached \/ HoldIt(s) \/ ReleaseMemcached(s)
         /\ memcached'.fins \subseteq memcached.fins \cup (IF HoldIt(s) THEN {kind[s]} ELSE {})
         /\ ReleaseMemcached(s) => memcached.fins \ {kind[s]} \subseteq memcached'.fins
         /\ ignored \subseteq ignored'
<1>t. memcached \in [life : Life, fins : SUBSET Kinds]
  BY DEF Types, HeldTypes
<1>1. ASSUME HoldIt(s)
      PROVE  memcached'.fins \subseteq memcached.fins \cup {kind[s]} /\ ~ReleaseMemcached(s)
  <2>1. ~ReleaseMemcached(s)
    BY <1>1 DEF HoldIt, ReleaseMemcached, At
  <2>2. UNCHANGED memcached \/ memcached' = [memcached EXCEPT !.fins = @ \cup {kind[s]}]
    BY <1>1 DEF HoldIt
  <2>. QED
    BY <1>t, <2>1, <2>2
<1>2. ASSUME ReleaseMemcached(s)
      PROVE  /\ memcached'.fins \subseteq memcached.fins
             /\ memcached.fins \ {kind[s]} \subseteq memcached'.fins
  BY <1>2 DEF ReleaseMemcached, WithFins
<1>3. memcached' = memcached \/ HoldIt(s) \/ ReleaseMemcached(s)
  <2>1. CASE Steps_(s)
    BY <2>1, StepLeaves DEF Leaves
  <2>2. CASE Edit(s) \/ Delete(s) \/ RollOut(s) \/ JobDone(s) \/ EndpointReady(s)
    BY <2>2 DEF Edit, Delete, RollOut, JobDone, EndpointReady, heldVars
  <2>3. CASE Begin(s) \/ Patch(s) \/ PatchFails(s)
    BY <2>3 DEF Begin, Patch, PatchFails, heldVars
  <2>. QED
    BY <2>1, <2>2, <2>3 DEF Acts
<1>4. ignored \subseteq ignored'
  <2>1. CASE Steps_(s)
    BY <2>1, StepLeaves DEF Leaves
  <2>2. CASE Edit(s) \/ Delete(s) \/ RollOut(s) \/ JobDone(s) \/ EndpointReady(s)
    BY <2>2 DEF Edit, Delete, RollOut, JobDone, EndpointReady, boundVars
  <2>3. CASE Begin(s) \/ Patch(s) \/ PatchFails(s)
    BY <2>3 DEF Begin, Patch, PatchFails, boundVars
  <2>. QED
    BY <2>1, <2>2, <2>3 DEF Acts
<1>. QED
  BY <1>1, <1>2, <1>3, <1>4

(* The Memcached is taken for a CR with a finalizer of its own.            *)
LEMMA HoldItFor ==
  ASSUME Types, NEW s \in Services, HoldIt(s), FinalizerFirst(s)
  PROVE  Busy(s) /\ kind[s] \in Holders /\ cr[s].fin
<1>1. /\ At(s, "holdMemcached") /\ Busy(s)
      /\ "holdMemcached" \in MainOps(kind[s]) \cup DropOps(kind[s]) \cup {"patch"}
  BY Onwards DEF HoldIt, Types, WorkTypes
<1>2. kind[s] \in Holders /\ kind[s] # "NovaCompute"
  BY <1>1 DEF MainOps, DropOps, Holders
<1>. QED
  BY <1>1, <1>2, StepOwnsFinalizer DEF Steps_

LEMMA ActorIsBusy ==
  ASSUME Types, NEW s \in Services, Acts(s), Busy(s)'
  PROVE  Busy(s) \/ Begin(s)
<1>1. CASE Edit(s) \/ Delete(s) \/ RollOut(s) \/ JobDone(s) \/ EndpointReady(s)
  BY <1>1 DEF Edit, Delete, RollOut, JobDone, EndpointReady, Busy
<1>2. CASE Patch(s) \/ PatchFails(s)
  BY <1>2 DEF Patch, PatchFails, At, Busy
<1>3. CASE Steps_(s)
  BY <1>3, StepAhead
<1>. QED
  BY <1>1, <1>2, <1>3 DEF Acts

LEMMA OneByOneStep ==
  ASSUME Types, [Next]_vars, OneByOne
  PROVE  OneByOne'
<1>k. kind' = kind
  BY Frame
<1>1. ASSUME NEW s \in Services, Acts(s) PROVE OneByOne'
  <2>1. \A t \in Services : t # s => (Busy(t)' <=> Busy(t))
    BY <1>1, Others DEF Same, Busy
  <2>2. Busy(s)' => Busy(s) \/ Begin(s)
    BY <1>1, ActorIsBusy
  <2>3. Begin(s) => \A t \in Services : kind[t] = kind[s] => ~Busy(t)
    BY DEF Begin, Busy
  <2>. QED
    BY <1>k, <2>1, <2>2, <2>3 DEF OneByOne
<1>2. CASE Restart
  BY <1>2 DEF Restart, OneByOne, Busy
<1>3. CASE Elsewhere
  BY <1>3, <1>k, NobodysSame DEF Same, OneByOne, Busy
<1>. QED
  BY <1>1, <1>2, <1>3, Actors

LEMMA MemcachedHeldForStep ==
  ASSUME ServiceProofInv, [Next]_vars
  PROVE  MemcachedHeldFor'
<1>k. kind' = kind /\ Types /\ MemcachedHeldFor /\ \A s \in Services : OneInv(s)
  BY Frame DEF ServiceProofInv
<1>1. ASSUME NEW s \in Services, Acts(s) PROVE MemcachedHeldFor'
  <2> SUFFICES ASSUME NEW k \in memcached'.fins
               PROVE  k \in Holders /\ \E t \in Services : kind[t] = k /\ (cr'[t].fin \/ t \in ignored')
    BY <1>k DEF MemcachedHeldFor
  <2>i. ignored \subseteq ignored'
    BY <1>1, <1>k, MemcachedFins
  <2>1. CASE HoldIt(s) /\ k = kind[s]
    <3>1. kind[s] \in Holders /\ cr[s].fin
      BY <1>k, <2>1, HoldItFor DEF OneInv
    <3>2. cr' = cr
      BY <2>1 DEF HoldIt, crVars
    <3>. QED
      BY <2>1, <3>1, <3>2
  <2>2. CASE k \in memcached.fins
    <3>1. k \in Holders /\ k # "NovaCompute"
      BY <1>k, <2>2 DEF MemcachedHeldFor, Holders
    <3>2. PICK t \in Services : kind[t] = k /\ (cr[t].fin \/ t \in ignored)
      BY <1>k, <2>2 DEF MemcachedHeldFor
    <3>3. CASE t \in ignored
      BY <2>i, <3>1, <3>2, <3>3
    <3>4. CASE cr[t].fin /\ t # s
      BY <1>1, <1>k, <3>1, <3>2, <3>4, Others DEF Same
    <3>5. CASE cr[t].fin /\ t = s /\ ~Patch(s)
      <4>1. cr'[s].fin = cr[s].fin
        <5>1. CASE Edit(s)
          BY <5>1, <1>k DEF Edit, Types, CRTypes, CRType
        <5>2. CASE Delete(s)
          BY <5>2, <1>k DEF Delete, Types, CRTypes, CRType
        <5>3. CASE RollOut(s) \/ JobDone(s) \/ EndpointReady(s) \/ Begin(s) \/ PatchFails(s)
          BY <5>3 DEF RollOut, JobDone, EndpointReady, Begin, PatchFails, crVars
        <5>4. CASE Steps_(s)
          BY <5>4, <1>k, StepLeaves DEF Leaves
        <5>. QED
          BY <1>1, <3>5, <5>1, <5>2, <5>3, <5>4 DEF Acts
      <4>. QED
        BY <3>1, <3>2, <3>5, <4>1
    <3>6. CASE cr[t].fin /\ t = s /\ Patch(s)
      <4>p. /\ Busy(s)
            /\ cr[s].life = "gone" => cr' = cr
            /\ cr[s].life # "gone" /\ ~(cr[s].life = "deleting" /\ ~local[s].fin) =>
                  cr'[s].fin = local[s].fin
        BY <1>k, <3>6, PatchDoes
      <4>1. cr[s].life # "gone"
        BY <1>k, <3>6 DEF OneInv, FinalizerFirst
      <4>2. CASE local[s].fin
        BY <3>1, <3>2, <3>6, <4>p, <4>1, <4>2
      <4>3. CASE ~local[s].fin
        <5>1. Leaving(s)
          BY <3>1, <3>2, <3>6, <4>p, <4>3 DEF Leaving
        <5>2. {<<"dropMemcached", "dropFinalizer">>, <<"tryDropMemcached", "dropFinalizer">>}
                  \subseteq Precedes(kind[s])
          BY DEF Precedes
        <5>3. ~Ahead(s, "dropMemcached") /\ ~Ahead(s, "tryDropMemcached")
          BY <1>k, <4>3, <5>1, <5>2 DEF OneInv, Dropped, Ahead
        <5>4. LetsGo(s, k)
          BY <1>k, <3>1, <3>2, <3>6, <5>1, <5>3 DEF OneInv, Dropped
        <5>. QED
          BY <2>2, <2>i, <3>1, <3>2, <3>6, <5>4 DEF LetsGo
      <4>. QED
        BY <4>2, <4>3
    <3>. QED
      BY <3>2, <3>3, <3>4, <3>5, <3>6
  <2>. QED
    BY <1>1, <1>k, <2>1, <2>2, MemcachedFins
<1>2. CASE Restart
  BY <1>2, <1>k DEF Restart, crVars, heldVars, MemcachedHeldFor
<1>3. CASE Elsewhere
  <2>1. CASE Services = {}
    <3>1. memcached.fins = {}
      BY <1>k, <2>1 DEF MemcachedHeldFor
    <3>2. memcached'.fins = memcached.fins
      <4>1. DeleteMemcached => memcached'.fins = memcached.fins
        BY DEF DeleteMemcached, Deleted, WithFins
      <4>2. UNCHANGED memcached \/ DeleteMemcached
        BY <1>3 DEF Elsewhere, DeleteTopology, Arrives, vars, heldVars
      <4>. QED
        BY <4>1, <4>2
    <3>. QED
      BY <3>1, <3>2 DEF MemcachedHeldFor
  <2>2. CASE Services # {}
    BY <1>3, <1>k, <2>2, NobodysSame DEF Same, MemcachedHeldFor
  <2>. QED
    BY <2>1, <2>2
<1>. QED
  BY <1>1, <1>2, <1>3, <1>k, Actors

-----------------------------------------------------------------------------
(* The invariant.                                                          *)
LEMMA ActorKeeps ==
  ASSUME Types, NEW s \in Services, Acts(s), OneInv(s)
  PROVE  OneInv(s)'
<1>0. ASSUME Same(s), memcached' = memcached, ignored' = ignored PROVE OneInv(s)'
  BY <1>0, SameKeeps DEF LetsGo, Same
<1>1. CASE JobDone(s)
  BY <1>0, <1>1 DEF JobDone, Same, Held, crVars, heldVars, boundVars
<1>2. CASE EndpointReady(s)
  <2>1. endpoint'[s].fin = endpoint[s].fin
    BY <1>2 DEF EndpointReady, Types, HeldTypes
  <2>. QED
    BY <1>0, <1>2, <2>1 DEF EndpointReady, Same, Held, crVars, podVars, boundVars
<1>3. CASE Begin(s) /\ cr[s].life = "gone"
  BY <1>0, <1>3 DEF Begin, Same, Held, crVars, heldVars, podVars, boundVars
<1>4. CASE Patch(s) /\ cr[s].life = "gone"
  <2>1. /\ todo'[s] = <<>> /\ local'[s] = Idle /\ kind' = kind /\ cr' = cr /\ status' = status
        /\ endpoint' = endpoint /\ sts' = sts /\ running' = running /\ topology' = topology
    BY <1>4, PatchDoes
  <2>. QED
    BY <2>1, StopKeeps
<1>5. CASE PatchFails(s)
  <2>1. /\ todo'[s] = <<>> /\ local'[s] = Idle /\ kind' = kind /\ cr' = cr /\ status' = status
        /\ endpoint' = endpoint /\ sts' = sts /\ running' = running /\ topology' = topology
    BY <1>5 DEF PatchFails, crVars, heldVars, podVars, Types, WorkTypes
  <2>. QED
    BY <2>1, StopKeeps
<1>. QED
  BY <1>1, <1>2, <1>3, <1>4, <1>5, EditKeeps, DeleteKeeps, RollOutKeeps, BeginKeeps, PatchKeeps,
     StepKeeps DEF Acts

LEMMA EachKeeps ==
  ASSUME ServiceProofInv, [Next]_vars, NEW t \in Services
  PROVE  OneInv(t)'
<1>t. Types /\ OneByOne /\ OneInv(t) /\ kind' = kind
  BY Frame DEF ServiceProofInv
<1>1. ASSUME NEW s \in Services, Acts(s) PROVE OneInv(t)'
  <2>1. CASE t = s
    BY <1>1, <1>t, <2>1, ActorKeeps
  <2>2. CASE t # s
    <3>1. Same(t)
      BY <1>1, <1>t, <2>2, Others
    <3>2. ASSUME Leaving(t), LetsGo(t, kind[t]) PROVE LetsGo(t, kind[t])'
      <4>1. Busy(t)
        BY <3>2, NothingAhead DEF Leaving, Ahead, Busy
      <4>2. HoldIt(s) => Busy(s)
        BY DEF HoldIt, At, Busy
      <4>3. HoldIt(s) => kind[s] # kind[t]
        BY <1>t, <2>2, <4>1, <4>2 DEF OneByOne
      <4>. QED
        BY <1>1, <1>t, <3>2, <4>3, MemcachedFins DEF LetsGo
    <3>. QED
      BY <1>t, <3>1, <3>2, SameKeeps
  <2>. QED
    BY <2>1, <2>2
<1>2. CASE Restart
  <2>1. /\ todo'[t] = <<>> /\ local'[t] = Idle /\ cr' = cr /\ status' = status
        /\ endpoint' = endpoint /\ sts' = sts /\ running' = running /\ topology' = topology
    BY <1>2 DEF Restart, crVars, heldVars, podVars
  <2>. QED
    BY <1>t, <2>1, StopKeeps
<1>3. CASE Elsewhere
  <2>1. Same(t) /\ memcached'.fins = memcached.fins /\ ignored' = ignored
    BY <1>3, <1>t, NobodysSame
  <2>. QED
    BY <1>t, <2>1, SameKeeps DEF LetsGo
<1>. QED
  BY <1>1, <1>2, <1>3, Actors

LEMMA ServiceInit == Init => ServiceProofInv
<1> SUFFICES ASSUME Init PROVE ServiceProofInv
  OBVIOUS
<1>1. Types
  BY TypesInit
<1>2. ASSUME NEW s \in Services PROVE OneInv(s)
  <2>1. Ops(todo[s]) = {} /\ ~Busy(s) /\ \A op : ~Ahead(s, op)
    BY NothingToDo
  <2>2. /\ cr[s].life # "deleting" /\ ~cr[s].fin /\ ~endpoint[s].fin /\ status[s].topo = NoTopology
        /\ ~status[s].seen /\ ~local[s].fin
    BY DEF Init, Idle
  <2>. QED
    BY <2>1, <2>2 DEF OneInv, CopyBehind, FinalizerFirst, DropsDeleted, Dropped, Leaving, StepsHeld,
       ReadyHeld, Ready, TopologyReleased, ReleasedTopology
<1>3. OneByOne /\ MemcachedHeldFor
  BY DEF Init, OneByOne, Busy, MemcachedHeldFor
<1>. QED
  BY <1>1, <1>2, <1>3 DEF ServiceProofInv

LEMMA ServiceStep == ServiceProofInv /\ [Next]_vars => ServiceProofInv'
<1> SUFFICES ASSUME ServiceProofInv, [Next]_vars PROVE ServiceProofInv'
  OBVIOUS
<1>1. Types' /\ OneByOne'
  BY TypesStep, OneByOneStep DEF ServiceProofInv
<1>. QED
  BY <1>1, EachKeeps, MemcachedHeldForStep DEF ServiceProofInv

-----------------------------------------------------------------------------
(* What the runs check, for every instance.                                *)
LEMMA Inductive == Spec => []ServiceProofInv
  BY ServiceInit, ServiceStep, PTL DEF Spec

(* The state of the services is well formed in every reachable state.      *)
THEOREM TypesCorrect == Spec => []TypeOK
<1>1. ServiceProofInv => TypeOK
  BY TypesGiveTypeOK DEF ServiceProofInv
<1>. QED
  BY <1>1, Inductive, PTL

(* A CR never goes while its KeystoneEndpoint still has the finalizer that *)
(* its controller put on it: its own finalizer is stored before anything   *)
(* is made, and reconcileDelete removes the one on the endpoint before it. *)
THEOREM EndpointGoesFirst == Spec => []EndpointFollowsCR
<1>1. ServiceProofInv => EndpointFollowsCR
  BY DEF ServiceProofInv, OneInv, FinalizerFirst, EndpointFollowsCR
<1>. QED
  BY <1>1, Inductive, PTL

(* A finalizer on the Memcached always belongs to a CR of its kind that    *)
(* still exists, unless the error of reading the Memcached was dropped in  *)
(* the deletion of one of them.                                            *)
THEOREM MemcachedGoesFirst == Spec => []MemcachedFollowsCR
<1>1. ServiceProofInv => MemcachedFollowsCR
  <2>1. ServiceProofInv => \A s \in Services : cr[s].fin => cr[s].life # "gone"
    BY DEF ServiceProofInv, OneInv, FinalizerFirst
  <2>. QED
    BY <2>1 DEF ServiceProofInv, MemcachedHeldFor, MemcachedFollowsCR
<1>. QED
  BY <1>1, Inductive, PTL

(* A CR never goes while the Topology that its status names has its        *)
(* finalizer, but for the two controllers that do not remove their own     *)
(* finalizer last.                                                         *)
THEOREM TopologyGoesFirst == Spec => []TopologyFollowsCR
<1>1. ServiceProofInv => TopologyFollowsCR
  BY DEF ServiceProofInv, OneInv, TopologyReleased, TopologyFollowsCR
<1>. QED
  BY <1>1, Inductive, PTL

-----------------------------------------------------------------------------
(* The finalizer on the Memcached is named after the kind.  The deletion of*)
(* another CR of the kind takes it, and then the CR has a request, or a    *)
(* reconcile that runs to its patch.                                       *)
Requested(s) == s \in queue \/ Busy(s)

MemcachedKept(s) ==
    kind[s] \in Holders /\ cr[s].life = "live" =>
        /\ Ahead(s, "rolledOut") => Ahead(s, "holdMemcached") \/ kind[s] \in memcached.fins
        /\ Deployed(s) => kind[s] \in memcached.fins
        /\ Ready(s) => kind[s] \in memcached.fins \/ SharedReleased(s)
EndsWithPatch(s) == Busy(s) => Ahead(s, "patch")
SharedInv == \A s \in Services : EndsWithPatch(s) /\ MemcachedKept(s)

LEMMA LiveBefore ==
  ASSUME Types, [Next]_vars, NEW t \in Services, cr'[t].life = "live"
  PROVE  cr[t].life = "live"
<1>t. cr \in [Services -> CRType]
  BY DEF Types, CRTypes
<1>1. ASSUME NEW s \in Services, Edit(s) \/ Delete(s) PROVE cr[t].life = "live"
  BY <1>t, <1>1 DEF Edit, Delete, CRType
<1>2. ASSUME NEW s \in Services, Patch(s) PROVE cr[t].life = "live"
  BY <1>t, <1>2 DEF Patch, CRType
<1>. QED
  BY <1>1, <1>2, Frame

(* Only the start of its own reconcile takes a CR from the queue.          *)
LEMMA QueueKept ==
  ASSUME [Next]_vars, NEW t \in Services, t \in queue
  PROVE  t \in queue' \/ Begin(t)
<1> USE DEF Wake, Retry, vars, crVars, workVars, heldVars, podVars, boundVars
<1>1. ASSUME NEW s \in Services, Edit(s) \/ Delete(s) \/ RollOut(s) \/ JobDone(s) \/ EndpointReady(s)
      PROVE  t \in queue'
  BY <1>1 DEF Edit, Delete, RollOut, JobDone, EndpointReady
<1>2. ASSUME NEW s \in Services, Begin(s) PROVE t \in queue' \/ Begin(t)
  BY <1>2 DEF Begin
<1>3. ASSUME NEW s \in Services, Patch(s) \/ PatchFails(s) PROVE t \in queue'
  BY <1>3 DEF Patch, PatchFails
<1>4. ASSUME NEW s \in Services, CallFails(s) \/ ErrorIgnored(s) PROVE t \in queue'
  BY <1>4 DEF CallFails, ErrorIgnored
<1>5. ASSUME NEW s \in Services,
             \/ NeedInput(s) \/ MakeObject(s) \/ EnsureMemcached(s) \/ HoldIt(s)
             \/ LeaveTopology(s) \/ TakeTopology(s) \/ SyncDB(s) \/ EnsureStatefulSet(s)
             \/ RolledOut(s)
      PROVE  t \in queue'
  BY <1>5 DEF NeedInput, MakeObject, EnsureMemcached, HoldIt, LeaveTopology, TakeTopology, SyncDB,
     EnsureStatefulSet, RolledOut
<1>6. ASSUME NEW s \in Services,
             \/ WhenDeployed(s) \/ IfDeployed(s) \/ Observe(s) \/ EnsureEndpoint(s)
             \/ CleanRecords(s) \/ DropEndpoint(s) \/ ReleaseMemcached(s)
             \/ DropTopology(s) \/ DropFinalizer(s)
      PROVE  t \in queue'
  BY <1>6 DEF WhenDeployed, IfDeployed, Observe, EnsureEndpoint, CleanRecords, DropEndpoint,
     ReleaseMemcached, DropTopology, DropFinalizer
<1>7. CASE Restart
  BY <1>7 DEF Restart
<1>8. CASE Elsewhere
  BY <1>8 DEF Elsewhere, DeleteMemcached, DeleteTopology, Arrives
<1>. QED
  BY <1>1, <1>2, <1>3, <1>4, <1>5, <1>6, <1>7, <1>8, Actors DEF Acts, Steps_

LEMMA PatchStaysAhead ==
  ASSUME Types, NEW s \in Services, Steps_(s), Ahead(s, "patch")
  PROVE  Ahead(s, "patch")'
<1>t. PlanInv(s) /\ todo \in [Services -> Seq(StepType)]
  BY DEF Types, WorkTypes
<1>p. PICK op : At(s, op) /\ op # "patch"
  BY StepAtOne
<1>o. Ops(todo[s]) = Ops(Tail(todo[s])) \cup {op}
  BY <1>p, <1>t, Onwards
<1>u. "patch" \in Ops(Save) /\ "patch" \in Ops(<<Do("observe")>> \o Save)
  BY SavePlan, ObservePlan DEF IsPlan
<1>1. todo'[s] \in {Tail(todo[s]), Save, <<Do("observe")>> \o Save}
  <2>1. GoOn(s) => todo'[s] = Tail(todo[s])
    BY <1>t DEF GoOn
  <2>2. End(s) => todo'[s] = Save
    BY <1>t DEF End
  <2>3. GoOn(s) \/ End(s) \/ todo' = [todo EXCEPT ![s] = <<Do("observe")>> \o Save]
    BY DEF Steps_, NeedInput, MakeObject, EnsureMemcached, HoldIt, LeaveTopology, TakeTopology,
       SyncDB, EnsureStatefulSet, RolledOut, WhenDeployed, IfDeployed, Observe, EnsureEndpoint,
       CleanRecords, DropEndpoint, ReleaseMemcached, DropTopology, DropFinalizer, ErrorIgnored,
       CallFails
  <2>. QED
    BY <1>t, <2>1, <2>2, <2>3
<1>. QED
  BY <1>p, <1>o, <1>u, <1>1 DEF Ahead

LEMMA EndsWithPatchStep ==
  ASSUME Types, [Next]_vars, NEW t \in Services, EndsWithPatch(t)
  PROVE  EndsWithPatch(t)'
<1>t. todo \in [Services -> Seq(StepType)] /\ PlanInv(t) /\ kind[t] \in Kinds
  BY KindIs DEF Types, WorkTypes
<1>s. todo'[t] = todo[t] => EndsWithPatch(t)'
  BY DEF EndsWithPatch, Busy, Ahead
<1>1. CASE Edit(t) \/ Delete(t) \/ RollOut(t) \/ JobDone(t) \/ EndpointReady(t)
  BY <1>1, <1>s DEF Edit, Delete, RollOut, JobDone, EndpointReady
<1>2. CASE Begin(t)
  <2>1. CASE cr[t].life = "gone"
    BY <1>2, <1>s, <2>1 DEF Begin
  <2>2. CASE cr[t].life # "gone"
    <3>1. todo'[t] = Program(t)
      BY <1>2, <1>t, <2>2 DEF Begin
    <3>2. "patch" \in Ops(todo'[t])
      BY <1>t, <3>1, ProgramPlan DEF IsPlan
    <3>. QED
      BY <3>2 DEF EndsWithPatch, Ahead
  <2>. QED
    BY <2>1, <2>2
<1>3. CASE Patch(t) \/ PatchFails(t) \/ Restart
  BY <1>3, <1>t DEF Patch, PatchFails, Restart, EndsWithPatch, Busy
<1>4. CASE Steps_(t)
  <2>1. Ahead(t, "patch")'
    BY <1>4, StepAhead, PatchStaysAhead DEF EndsWithPatch
  <2>. QED
    BY <2>1 DEF EndsWithPatch
<1>5. ASSUME NEW s \in Services \ {t}, Acts(s) PROVE EndsWithPatch(t)'
  BY <1>5, <1>s, Others DEF Same
<1>6. CASE Elsewhere
  BY <1>6, <1>s, NobodysSame DEF Same
<1>. QED
  BY <1>1, <1>2, <1>3, <1>4, <1>5, <1>6, Actors DEF Acts

(* A request stays until it is served, and a reconcile that ends without   *)
(* its patch is requested again.                                           *)
LEMMA RequestKept ==
  ASSUME Types, [Next]_vars, NEW t \in Services, cr[t].life = "live", Requested(t),
         EndsWithPatch(t)
  PROVE  Requested(t)' \/ Patch(t)
<1>t. todo \in [Services -> Seq(StepType)] /\ kind[t] \in Kinds
  BY KindIs DEF Types, WorkTypes
<1>s. todo'[t] = todo[t] /\ ~Begin(t) => Requested(t)'
  BY QueueKept DEF Requested, Busy
<1>1. CASE Begin(t)
  <2>1. todo'[t] = Program(t)
    BY <1>1, <1>t DEF Begin
  <2>2. "patch" \in Ops(todo'[t])
    BY <1>t, <2>1, ProgramPlan DEF IsPlan
  <2>3. todo'[t] # <<>>
    BY <2>2, NothingAhead
  <2>. QED
    BY <2>3 DEF Requested, Busy
<1>2. CASE PatchFails(t) \/ Restart
  BY <1>2 DEF PatchFails, Restart, Wake, Retry, Requested
<1>3. CASE Steps_(t)
  <2>1. Ahead(t, "patch")'
    BY <1>3, StepAhead, PatchStaysAhead DEF EndsWithPatch
  <2>2. todo'[t] # <<>>
    BY <2>1, NothingAhead DEF Ahead
  <2>. QED
    BY <2>2 DEF Requested, Busy
<1>4. CASE ~Begin(t) /\ (Edit(t) \/ Delete(t) \/ RollOut(t) \/ JobDone(t) \/ EndpointReady(t))
  BY <1>4, <1>s DEF Edit, Delete, RollOut, JobDone, EndpointReady
<1>5. ASSUME NEW s \in Services \ {t}, Acts(s) PROVE Requested(t)' \/ Begin(t)
  BY <1>5, <1>s, Others DEF Same
<1>6. CASE Elsewhere
  BY <1>1, <1>6, <1>s, NobodysSame DEF Same
<1>. QED
  BY <1>1, <1>2, <1>3, <1>4, <1>5, <1>6, Actors DEF Acts

(* While the CR lives, what is held stays held, unless another CR of its   *)
(* kind lets go of it, which is an event.                                  *)
LEMMA HeldStaysHeld ==
  ASSUME ServiceProofInv, [Next]_vars, NEW t \in Services,
         kind[t] \in Holders, cr[t].life = "live", kind[t] \in memcached.fins
  PROVE  kind[t] \in memcached'.fins \/ (SharedReleased(t)' /\ ~Busy(t) /\ ~Busy(t)')
<1>t. Types /\ OneInv(t) /\ OneByOne /\ kind' = kind /\ kind[t] \in Kinds
  BY Frame, KindIs DEF ServiceProofInv
<1>d. ASSUME NEW s \in Services, ReleaseMemcached(s) PROVE cr[s].life = "deleting" /\ Busy(s)
  <2>1. PICK op \in {"dropMemcached", "tryDropMemcached"} : At(s, op)
    BY <1>d DEF ReleaseMemcached
  <2>2. PlanInv(s) /\ OneInv(s)
    BY <1>t DEF ServiceProofInv, Types, WorkTypes
  <2>3. Busy(s) /\ Ahead(s, op) /\ op \in MainOps(kind[s]) \cup DropOps(kind[s]) \cup {"patch"}
    BY <2>1, <2>2, Onwards
  <2>4. op \in DropOps(kind[s])
    BY <2>1, <2>3 DEF MainOps
  <2>. QED
    BY <2>2, <2>3, <2>4 DEF OneInv, DropsDeleted
<1>1. ASSUME NEW s \in Services, Acts(s)
      PROVE  kind[t] \in memcached'.fins \/ (SharedReleased(t)' /\ ~Busy(t) /\ ~Busy(t)')
  <2>1. CASE memcached' = memcached
    BY <2>1
  <2>2. CASE HoldIt(s)
    BY <2>2, <1>t DEF HoldIt, Types, HeldTypes
  <2>3. CASE ReleaseMemcached(s) /\ kind[s] # kind[t]
    BY <1>1, <1>t, <2>3, MemcachedFins
  <2>4. CASE ReleaseMemcached(s) /\ kind[s] = kind[t]
    <3>1. cr[s].life = "deleting" /\ Busy(s) /\ s # t
      BY <1>d, <2>4
    <3>2. ~Busy(t) /\ ~Busy(t)'
      <4>1. Same(t)
        BY <1>1, <1>t, <3>1, Others
      <4>. QED
        BY <1>t, <2>4, <3>1, <4>1 DEF OneByOne, Same, Busy
    <3>3. t \in queue'
      BY <1>t, <2>4, WhatKindsDo DEF ReleaseMemcached, Wake, MemcachedWatchers
    <3>4. cr' = cr
      BY <2>4 DEF ReleaseMemcached, crVars
    <3>. QED
      BY <1>t, <2>4, <3>1, <3>2, <3>3, <3>4 DEF SharedReleased
  <2>. QED
    BY <1>1, <1>t, <2>1, <2>2, <2>3, <2>4, MemcachedFins
<1>2. CASE Restart
  BY <1>2 DEF Restart, heldVars
<1>3. CASE Elsewhere
  BY <1>3, <1>t, NobodysSame
<1>. QED
  BY <1>1, <1>2, <1>3, Actors

LEMMA SharedStays ==
  ASSUME Types, [Next]_vars, NEW t \in Services, cr[t].life = "live", SharedReleased(t),
         EndsWithPatch(t)
  PROVE  SharedReleased(t)' \/ Patch(t)
<1>1. PICK s \in Services \ {t} : kind[s] = kind[t] /\ cr[s].life # "live"
  BY DEF SharedReleased
<1>2. cr'[s].life # "live" /\ kind' = kind
  BY <1>1, LiveBefore, Frame
<1>3. Requested(t)' \/ Patch(t)
  BY RequestKept DEF SharedReleased, Requested, Busy
<1>. QED
  BY <1>1, <1>2, <1>3 DEF SharedReleased, Requested, Busy

LEMMA StepHoldsMemcached ==
  ASSUME Types, NEW t \in Services, Steps_(t), MemcachedKept(t), kind[t] \in Holders,
         cr[t].life = "live", kind[t] \in memcached.fins => kind[t] \in memcached'.fins,
         SharedReleased(t) => SharedReleased(t)'
  PROVE  MemcachedKept(t)'
<1>l. Leaves(t) /\ kind' = kind /\ status' = status
  BY StepLeaves DEF Leaves
<1>t. /\ todo \in [Services -> Seq(StepType)]
      /\ \A a, b : At(t, b) /\ <<a, b>> \in Precedes(kind[t]) => Ahead(t, b) /\ ~Ahead(t, a)
  BY Onwards DEF Types, WorkTypes, Ahead
<1>1. ASSUME Ahead(t, "rolledOut")' PROVE Ahead(t, "holdMemcached")' \/ kind[t] \in memcached'.fins
  <2>1. /\ Ahead(t, "rolledOut")
        /\ Ahead(t, "holdMemcached") /\ ~Ahead(t, "holdMemcached")' => Took(t, "holdMemcached")
    BY <1>1, StepAhead
  <2>2. ASSUME Took(t, "holdMemcached") PROVE kind[t] \in memcached'.fins
    <3>1. HoldIt(t)
      BY <2>2 DEF Took
    <3>2. todo'[t] # Save
      <4>1. todo'[t] = Save => Ops(todo'[t]) = {"patch"}
        BY SavePlan DEF IsPlan
      <4>. QED
        BY <1>1, <4>1 DEF Ahead
    <3>3. ~End(t)
      BY <1>t, <3>2 DEF End
    <3>. QED
      BY <3>1, <3>3 DEF HoldIt, Types, HeldTypes
  <2>. QED
    BY <2>1, <2>2 DEF MemcachedKept
<1>2. ASSUME Deployed(t)' PROVE kind[t] \in memcached'.fins
  <2>1. CASE Deployed(t)
    BY <2>1 DEF MemcachedKept
  <2>2. CASE ~Deployed(t)
    <3>1. Busy(t)
      BY StepAhead
    <3>2. RolledOut(t)
      BY <1>2, <1>l, <2>2, <3>1 DEF Leaves, Deployed, Earns
    <3>3. <<"holdMemcached", "rolledOut">> \in Precedes(kind[t])
      BY DEF Precedes
    <3>. QED
      BY <1>t, <3>2, <3>3 DEF RolledOut, MemcachedKept
  <2>. QED
    BY <2>1, <2>2
<1>3. Ready(t)' => kind[t] \in memcached'.fins \/ SharedReleased(t)'
  BY <1>l DEF Ready, MemcachedKept
<1>. QED
  BY <1>1, <1>2, <1>3, <1>l DEF MemcachedKept

LEMMA MemcachedKeptStep ==
  ASSUME ServiceProofInv, [Next]_vars, NEW t \in Services, MemcachedKept(t), EndsWithPatch(t)
  PROVE  MemcachedKept(t)'
<1>t. Types /\ OneInv(t) /\ kind' = kind
  BY Frame DEF ServiceProofInv
<1> SUFFICES ASSUME kind[t] \in Holders, cr'[t].life = "live" PROVE MemcachedKept(t)'
  BY <1>t DEF MemcachedKept
<1>l. cr[t].life = "live"
  BY <1>t, LiveBefore
<1>m. kind[t] \in memcached.fins =>
         kind[t] \in memcached'.fins \/ (SharedReleased(t)' /\ ~Busy(t) /\ ~Busy(t)')
  BY <1>l, HeldStaysHeld
<1>r. SharedReleased(t) => SharedReleased(t)' \/ Patch(t)
  BY <1>l, <1>t, SharedStays
<1>n. \A op : Ahead(t, op) => Busy(t)
  BY NothingAhead DEF Ahead, Busy
<1>s. ASSUME todo'[t] = todo[t], local'[t].pending = local[t].pending,
             status'[t].pending = status[t].pending, status'[t].seen => status[t].seen, ~Patch(t)
      PROVE  MemcachedKept(t)'
  <2>1. (Ahead(t, "rolledOut")' <=> Ahead(t, "rolledOut")) /\ (Deployed(t)' <=> Deployed(t))
        /\ (Ahead(t, "holdMemcached")' <=> Ahead(t, "holdMemcached"))
    BY <1>s DEF Ahead, Deployed, Busy
  <2>2. Ready(t)' => Ready(t)
    BY <1>s DEF Ready
  <2>. QED
    BY <1>t, <1>l, <1>m, <1>n, <1>r, <1>s, <2>1, <2>2 DEF MemcachedKept, Deployed
<1>x. ASSUME todo'[t] = <<>>, status' = status, ~Patch(t) PROVE MemcachedKept(t)'
  <2>1. ~Busy(t)' /\ \A op : ~Ahead(t, op)'
    BY <1>x, NothingAhead DEF Busy, Ahead
  <2>. QED
    BY <1>t, <1>l, <1>m, <1>r, <1>x, <2>1 DEF MemcachedKept, Deployed, Ready
<1>1. CASE Edit(t)
  <2>1. ~Patch(t)
    BY <1>1, <1>t DEF Edit, Patch, At, Types, WorkTypes, LocalType, CRTypes, StatusType, Idle
  <2>. QED
    BY <1>1, <1>s, <1>t, <2>1 DEF Edit, Types, CRTypes, WorkTypes, StatusType, LocalType
<1>2. CASE ~Patch(t) /\ (Delete(t) \/ RollOut(t) \/ JobDone(t) \/ EndpointReady(t))
  BY <1>2, <1>s DEF Delete, RollOut, JobDone, EndpointReady, crVars
<1>3. CASE Begin(t) /\ ~Patch(t)
  <2>1. /\ "Deployment" \in local'[t].pending /\ status' = status
        /\ Ops(todo'[t]) \in {{"patch"}, MainOps(kind[t]) \cup {"patch"}}
    BY <1>3, <1>l, <1>t, BeginDoes
  <2>2. "holdMemcached" \in MainOps(kind[t])
    BY DEF MainOps
  <2>. QED
    BY <1>t, <1>l, <1>m, <1>r, <1>3, <2>1, <2>2 DEF MemcachedKept, Ahead, Deployed, Ready
<1>4. CASE Patch(t)
  <2>1. Busy(t) /\ todo'[t] = <<>> /\ status'[t] = Outcome(t) /\ memcached' = memcached
    BY <1>4, <1>l, <1>t, PatchDoes
  <2>2. Ready(t)' => Deployed(t)
    BY <2>1 DEF Ready, Outcome, Deployed
  <2>3. ~Busy(t)' /\ \A op : ~Ahead(t, op)'
    BY <2>1, NothingAhead DEF Busy, Ahead
  <2>. QED
    BY <1>t, <1>l, <2>1, <2>2, <2>3 DEF MemcachedKept, Deployed
<1>5. CASE ~Patch(t) /\ (PatchFails(t) \/ Restart)
  BY <1>5, <1>x, <1>t DEF PatchFails, Restart, crVars, Types, WorkTypes
<1>6. CASE Steps_(t)
  <2>1. ~Patch(t) /\ Busy(t)
    <3>1. PICK op : At(t, op) /\ op # "patch"
      BY <1>6, StepAtOne
    <3>. QED
      BY <3>1 DEF Patch, At, Busy
  <2>. QED
    BY <1>6, <1>l, <1>m, <1>r, <1>t, <2>1, StepHoldsMemcached
<1>7. ASSUME NEW s \in Services, Acts(s), s # t, ~Patch(t) PROVE MemcachedKept(t)'
  BY <1>7, <1>s, <1>t, Others DEF Same
<1>8. CASE Elsewhere /\ ~Patch(t)
  BY <1>8, <1>s, <1>t, NobodysSame DEF Same
<1>. QED
  BY <1>1, <1>2, <1>3, <1>4, <1>5, <1>6, <1>7, <1>8, Actors DEF Acts

LEMMA SharedAlways == Spec => []SharedInv
<1>1. Init => SharedInv
  <2> SUFFICES ASSUME Init, NEW s \in Services PROVE EndsWithPatch(s) /\ MemcachedKept(s)
    BY DEF SharedInv
  <2>1. ~Ready(s)
    BY DEF Init, Ready
  <2>2. ~Busy(s) /\ (\A op : ~Ahead(s, op))
    BY NothingToDo
  <2>. QED
    BY <2>1, <2>2 DEF MemcachedKept, Deployed, EndsWithPatch
<1>2. ServiceProofInv /\ SharedInv /\ [Next]_vars => SharedInv'
  <2> SUFFICES ASSUME ServiceProofInv, SharedInv, [Next]_vars, NEW s \in Services
               PROVE  EndsWithPatch(s)' /\ MemcachedKept(s)'
    BY DEF SharedInv
  <2>1. Types /\ EndsWithPatch(s) /\ MemcachedKept(s)
    BY DEF ServiceProofInv, SharedInv
  <2>. QED
    BY <2>1, EndsWithPatchStep, MemcachedKeptStep
<1>. QED
  BY <1>1, <1>2, Inductive, PTL DEF Spec

(* A CR that is Ready and not in deletion has pods of its own spec as its  *)
(* StatefulSet, its finalizer on the Topology it refers to, on its         *)
(* KeystoneEndpoint and on the Memcached, for any number of CRs of each    *)
(* kind: the last may be missing only after the deletion of another CR of  *)
(* the kind, and while the CR is requested or being reconciled.            *)
THEOREM ReadyHoldsAll == Spec => []ServiceInv
<1>1. ServiceProofInv /\ SharedInv => ServiceInv
  <2> SUFFICES ASSUME ServiceProofInv, SharedInv PROVE ServiceInv
    OBVIOUS
  <2>1. TypeOK /\ Types
    BY TypesGiveTypeOK DEF ServiceProofInv
  <2>2. \A s \in Services : /\ HoldsMemcached(kind[s]) <=> kind[s] \in Holders
                            /\ HasEndpoint(kind[s]) <=> kind[s] \in Exposed
    BY <2>1, KindIs, WhatKindsDo
  <2>3. \A s \in Services : ReadyHeld(s)
    BY DEF ServiceProofInv, OneInv
  <2>4. ReadyMeansHeld
    BY <2>2, <2>3 DEF ReadyMeansHeld, ReadyHeld, Holds, SharedInv, MemcachedKept
  <2>. QED
    BY <2>1, <2>4 DEF ServiceInv
<1>. QED
  BY <1>1, Inductive, SharedAlways, PTL

-----------------------------------------------------------------------------
(* The cleanup of the service records goes by the host name.               *)
OwnHostNames ==
    \A s, t \in Services : <<s, t>> \in HostsMatch /\ kind[s] = kind[t] => s = t

LEMMA CleanRecordsKeeps ==
  ASSUME ServiceProofInv, NEW s \in Services, CleanRecords(s), Registers(kind[s]),
         cr[s].life = "live", NEW i \in records[s], i < running[s].replicas
  PROVE  i \in records'[s]
<1>t. Types /\ PlanInv(s) /\ OneInv(s) /\ kind[s] \in Kinds
  BY KindIs DEF ServiceProofInv, Types, WorkTypes
<1>1. Busy(s) /\ Ahead(s, "cleanRecords") /\ ~Ahead(s, "whenDeployed")
  <2>1. <<"whenDeployed", "cleanRecords">> \in Precedes(kind[s])
    BY DEF Precedes
  <2>. QED
    BY <1>t, <2>1, Onwards DEF CleanRecords, Ahead
<1>2. running[s] = local[s].spec
  BY <1>1, <1>t DEF OneInv, StepsHeld
<1>3. records'[s] \in {records[s], { j \in records[s] : j < local[s].spec.replicas }}
  BY DEF CleanRecords
<1>. QED
  BY <1>2, <1>3

LEMMA RecordsStep ==
  ASSUME ServiceProofInv, OwnHostNames, LiveRecordKept, [Next]_vars
  PROVE  LiveRecordKept'
<1>t. Types /\ kind' = kind
  BY Frame DEF ServiceProofInv
<1>p. /\ sts \in [Services -> Spec_] /\ running \in [Services -> Spec_]
      /\ records \in [Services -> SUBSET (0 .. (MaxReplicas - 1))] /\ MaxReplicas \in Nat
  BY <1>t, Constants DEF Types, PodTypes
<1> SUFFICES ASSUME NEW t \in Services, Registers(kind[t]), cr'[t].life = "live",
                    NEW i \in 0 .. (running'[t].replicas - 1)
             PROVE  i \in records'[t]
  BY <1>t DEF LiveRecordKept
<1>l. cr[t].life = "live"
  BY <1>t, LiveBefore
<1>k. running'[t] = running[t] => i \in records[t] /\ i < running[t].replicas
  <2>1. running[t].replicas \in Nat
    BY <1>p DEF Spec_
  <2>. QED
    BY <1>l, <2>1 DEF LiveRecordKept
<1>1. ASSUME NEW s \in Services, RollOut(s) PROVE i \in records'[t]
  <2>1. CASE s = t
    <3>1. running'[t] = sts[t] /\ records'[t] = records[t] \cup 0 .. (sts[t].replicas - 1)
      BY <1>1, <1>p, <2>1 DEF RollOut
    <3>. QED
      BY <3>1
  <2>2. CASE s # t
    BY <1>1, <1>p, <1>k, <2>2 DEF RollOut
  <2>. QED
    BY <2>1, <2>2
<1>2. ASSUME NEW s \in Services, CleanRecords(s) PROVE i \in records'[t]
  <2>1. running' = running
    BY <1>2 DEF CleanRecords
  <2>2. CASE s = t
    BY <1>2, <1>k, <1>l, <2>1, <2>2, CleanRecordsKeeps
  <2>3. CASE s # t
    <3>1. records'[t] = records[t]
      BY <1>2, <2>3 DEF CleanRecords, OwnHostNames
    <3>. QED
      BY <1>k, <2>1, <3>1
  <2>. QED
    BY <2>2, <2>3
<1>3. ASSUME NEW s \in Services, Patch(s) PROVE i \in records'[t]
  <2>1. records' = records
    BY <1>3 DEF Patch
  <2>2. CASE s = t
    <3>1. running' = running
      <4>1. cr[t].life = "live" /\ cr'[t].life = "live"
        BY <1>l
      <4>. QED
        BY <1>3, <1>t, <2>2, <4>1, PatchDoes
    <3>. QED
      BY <1>k, <2>1, <3>1
  <2>3. CASE s # t
    BY <1>3, <1>t, <1>k, <2>1, <2>3, Others DEF Acts, Same
  <2>. QED
    BY <2>2, <2>3
<1>4. ASSUME NEW s \in Services, Delete(s) PROVE i \in records'[t]
  <2>1. records' = records
    BY <1>4 DEF Delete
  <2>2. s # t
    BY <1>4, <1>t DEF Delete, Types, CRTypes, CRType
  <2>. QED
    BY <1>4, <1>t, <1>k, <2>1, <2>2, Others DEF Acts, Same
<1>5. CASE UNCHANGED <<running, records>>
  BY <1>5, <1>k
<1>. QED
  BY <1>1, <1>2, <1>3, <1>4, <1>5, Frame

(* The service record of a pod that runs is never deleted, where no host   *)
(* name of a CR contains the cell name of another CR of its kind.          *)
THEOREM RecordsOfPodsAreKept == Spec => [](OwnHostNames => LiveRecordKept)
<1>1. Init => LiveRecordKept
  BY Constants DEF Init, LiveRecordKept, NoPods
<1>2. ServiceProofInv /\ (OwnHostNames => LiveRecordKept) /\ [Next]_vars
         => (OwnHostNames => LiveRecordKept)'
  <2> SUFFICES ASSUME ServiceProofInv, OwnHostNames => LiveRecordKept, [Next]_vars, OwnHostNames'
               PROVE  LiveRecordKept'
    OBVIOUS
  <2>1. OwnHostNames
    BY Frame DEF OwnHostNames
  <2>. QED
    BY <2>1, RecordsStep
<1>. QED
  BY <1>1, <1>2, Inductive, PTL DEF Spec

=============================================================================
